------------------------------ MODULE Timeout -------------------------------
(***************************************************************************)
(* What is done with the time: timeout_start(), timeout_tick() and         *)
(* timeout_wait() of timeout.c, and time_str() of time.c as the command td *)
(* uses it.  Each of them begins with a call of cmos_rtc_gettime(), which  *)
(* is the one of Clock.tla, with the clock going on meanwhile.  A timeout  *)
(* is looked at by any sequence of calls at the Instants before and after  *)
(* its deadline.                                                           *)
(*                                                                         *)
(* The callbacks of timeout_wait() are the caller's: check() may say yes   *)
(* at any time, and failure() is taken to return.                          *)
(***************************************************************************)
EXTENDS Clock

CONSTANTS
  Periods,    \* seconds that timeout_start() is called with
  Starts,     \* times of the day at which the kernel's first call may come
  Instants,   \* seconds after the deadline at which a timeout is looked at
  MaxUpdates  \* bound on the updates of the clock that fall into calls

ASSUME TimeoutAssumption ==
  /\ Sixty = 60 /\ Minutes = 60
  /\ Periods \subseteq 0 .. 196      \* with 59 they fit the eight bits of second
  /\ Starts \subseteq Times
  /\ Instants \subseteq Int
  /\ MaxUpdates \in Nat

VARIABLES
  who,        \* which function waits for the time, or where timeout_wait() is
  period,     \* the argument of timeout_start()
  timestamp,  \* of timeout.c
  answer,     \* timeout_tick() returned 1, or timeout_wait() called failure()
  zbuf,       \* the first two characters of time_zero()'s static buffer
  shown       \* what td has printed: hour and minute

VARIABLES
  \* History.
  origin,     \* the time that timeout_start() read, or Unset
  wide,       \* the last number above 9 that time_zero() was given, or Nul
  spare       \* updates that may yet fall into calls

own == <<who, period, timestamp, answer, zbuf, shown, origin, wide>>
allVars == <<vars, own, spare>>

Nul == -1     \* the end of a string

-----------------------------------------------------------------------------
(* time.c *)

\* Variant: the carry is taken at 60.
AddNextAtSixty(n1, n2, max) ==
  IF n1 > max THEN <<n1 % (max + 1), n2 + n1 \div (max + 1)>> ELSE <<n1, n2>>

\* ADD_NEXT divides by the largest value, where there is one more.
AddNext(n1, n2, max) ==
  IF n1 > max THEN <<n1 % max, n2 + n1 \div max>> ELSE <<n1, n2>>

time_normalize(t) ==
  LET s == AddNext(t.second, t.minute, Sixty - 1)
      m == AddNext(s[2], t.hour, Minutes - 1)
      h == AddNext(m[2], t.day, 24)
  IN  [day |-> h[2], hour |-> h[1], minute |-> m[1], second |-> s[1]]

\* TIME_SMALL_TS: the day is no part of it.
SmallTs(t) == t.hour * 10000 + t.minute * 100 + t.second

\* dec_to_str(), of numbers below a hundred.
dec_to_str(n) == IF n < 10 THEN <<n>> ELSE <<n \div 10, n % 10>>

\* Variant: the second character is written, too.
ZeroPadded(buf, n) == <<n \div 10, n % 10>>

\* Of a number below ten only the 0 in front is written: dec_to_str() puts the
\* digit before the buffer, and what was the second character stays.
time_zero(buf, n) ==
  IF n < 10 THEN <<0, buf[2]>> ELSE dec_to_str(n)

-----------------------------------------------------------------------------
(* Time between the calls. *)

TimeAt(x) ==
  [day    |-> x \div (24 * Minutes * Sixty),
   hour   |-> (x \div (Minutes * Sixty)) % 24,
   minute |-> (x \div Sixty) % Minutes,
   second |-> x % Sixty]

Deadline == Seconds(origin) + period

Pass(n) ==
  /\ pc = "done" /\ who \in {"none", "check"}
  /\ origin # Unset /\ Seconds(now) < Deadline + n
  /\ now' = TimeAt(Deadline + n) /\ now' \in Times
  /\ began' = now' /\ uip' = FALSE
  /\ UNCHANGED <<binary, h24, pc, cur, ticks, own>>

-----------------------------------------------------------------------------
(* The callers. *)

\* A function calls cmos_rtc_gettime().
Call(f) ==
  /\ pc = "done" /\ pc' = "uip"
  /\ who' = f
  /\ UNCHANGED <<now, uip, binary, h24, cur, began, ticks>>

\* It has the time and leaves cmos_rtc_gettime() at rest.
Got(f) ==
  /\ pc = "done" /\ who = f
  /\ cur' = Unset /\ began' = now /\ ticks' = 0
  /\ UNCHANGED <<now, uip, binary, h24, pc>>

timeout_start(p) ==
  /\ who = "none" /\ origin = Unset
  /\ Call("start")
  /\ period' = p
  /\ UNCHANGED <<timestamp, answer, zbuf, shown, origin, wide>>

SetDeadline ==
  /\ Got("start")
  /\ timestamp' = SmallTs(time_normalize([cur EXCEPT !.second = @ + period]))
  /\ who' = "none"
  /\ origin' = cur
  /\ UNCHANGED <<period, answer, zbuf, shown, wide>>

timeout_tick ==
  /\ who = "none" /\ origin # Unset
  /\ Call("tick")
  /\ UNCHANGED <<period, timestamp, answer, zbuf, shown, origin, wide>>

TickAnswer ==
  /\ Got("tick")
  /\ answer' = (SmallTs(cur) >= timestamp)
  /\ who' = "none"
  /\ UNCHANGED <<period, timestamp, zbuf, shown, origin, wide>>

\* timeout_wait() first reads the time for nothing, then asks check().
timeout_wait ==
  /\ who = "none" /\ origin # Unset
  /\ Call("enter")
  /\ UNCHANGED <<period, timestamp, answer, zbuf, shown, origin, wide>>

Entered ==
  /\ Got("enter")
  /\ who' = "check"
  /\ UNCHANGED <<period, timestamp, answer, zbuf, shown, origin, wide>>

Check ==
  \/ /\ pc = "done" /\ who = "check"
     /\ who' = "none"
     /\ UNCHANGED <<vars, period, timestamp, answer, zbuf, shown, origin, wide>>
  \/ /\ who = "check"
     /\ Call("wait")
     /\ UNCHANGED <<period, timestamp, answer, zbuf, shown, origin, wide>>

\* failure() is called in the second of the deadline only.
WaitAnswer ==
  /\ Got("wait")
  /\ answer' = (SmallTs(cur) = timestamp)
  /\ who' = "check"
  /\ UNCHANGED <<period, timestamp, zbuf, shown, origin, wide>>

td ==
  /\ who = "none" /\ origin = Unset
  /\ Call("td")
  /\ UNCHANGED <<period, timestamp, answer, zbuf, shown, origin, wide>>

Wider(n, w) == IF n < 10 THEN w ELSE n

\* time_str(): the hour, then the minute, through the same buffer.
time_str ==
  /\ Got("td")
  /\ LET hour   == time_zero(zbuf, cur.hour)
         minute == time_zero(hour, cur.minute)
     IN  shown' = <<hour, minute>> /\ zbuf' = minute
  /\ wide' = Wider(cur.minute, Wider(cur.hour, wide))
  /\ who' = "none"
  /\ UNCHANGED <<period, timestamp, answer, origin>>

-----------------------------------------------------------------------------
TimeoutInit ==
  /\ now \in Starts /\ ClockInit /\ uip = FALSE
  /\ pc = "done" /\ who = "none"
  /\ period = 0 /\ timestamp = 0 /\ answer = FALSE
  /\ zbuf = <<Nul, Nul>> /\ shown = <<>>
  /\ origin = Unset /\ wide = Nul
  /\ spare = MaxUpdates

Caller ==
  \/ \E p \in Periods : timeout_start(p)
  \/ timeout_tick \/ timeout_wait \/ td
  \/ SetDeadline \/ TickAnswer \/ Entered \/ Check \/ WaitAnswer \/ time_str

\* An update that is announced is one of the spare ones.
Spent ==
  IF ~uip /\ uip' THEN spare > 0 /\ spare' = spare - 1 ELSE UNCHANGED spare

TimeoutNext ==
  \/ GetTime /\ UNCHANGED own /\ Spent
  \/ Caller /\ UNCHANGED spare
  \/ \E n \in Instants : Pass(n) /\ UNCHANGED spare

TimeoutSpec == TimeoutInit /\ [][TimeoutNext]_allVars

-----------------------------------------------------------------------------
(* Properties *)

Character == 0 .. 9 \cup {Nul}

\* Types of the variables; a timestamp reads as hours, minutes and seconds.
TimeoutTypeOK ==
  /\ TypeOK
  /\ who \in {"none", "start", "tick", "enter", "check", "wait", "td"}
  /\ period \in Periods \cup {0}
  /\ timestamp \div 10000 \in 0 .. 24
  /\ (timestamp \div 100) % 100 \in 0 .. (Minutes - 1)
  /\ timestamp % 100 \in 0 .. (Sixty - 1)
  /\ answer \in BOOLEAN
  /\ zbuf \in Character \X Character
  /\ shown = <<>> \/ shown \in (Character \X Character) \X (Character \X Character)
  /\ origin \in Times \cup {Unset}
  /\ wide \in (10 .. 59) \cup {Nul} /\ spare \in 0 .. MaxUpdates

SecondOfDay(t) == Seconds([t EXCEPT !.day = 0])

\* What ADD_NEXT makes a deadline late: a second for each minute that it
\* carries, and a minute for each hour.
Late ==
  LET second  == origin.second + period
      minutes == IF second < Sixty THEN 0 ELSE second \div (Sixty - 1)
      minute  == origin.minute + minutes
      hours   == IF minute < Minutes THEN 0 ELSE minute \div (Minutes - 1)
  IN  minutes + hours * Sixty

\* The timeout has come to its end by the time of the day, and in seconds.
Overdue == SecondOfDay(now) - SecondOfDay(TimeAt(Deadline))
SameDay == TimeAt(Deadline).day = origin.day

\* timeout.c: with the clock read in the 24-hour format and not updated during
\* the reading, timeout_tick() answers yes from the deadline on until midnight,
\* as late as Late says, and timeout_wait() calls failure() when it looks in
\* that very second; neither of them ever does if the deadline is after
\* midnight, whatever the day.
ExpiresExactly ==
  [][h24 /\ ticks = 0 =>
       /\ TickAnswer => answer' = (SameDay /\ Overdue >= Late)
       /\ WaitAnswer => answer' = (SameDay /\ Overdue = Late)]_allVars

Digits(n, w) ==
  IF n < 10 THEN <<0, IF w = Nul THEN Nul ELSE w % 10>> ELSE <<n \div 10, n % 10>>

\* time.c: td shows an hour or a minute above nine as it is.  For one below ten
\* it shows 0 and the last digit of the last number above nine that it showed,
\* in this call or in an earlier one, or no digit if there was none.
LastDigitStays ==
  [][time_str =>
       shown' = <<Digits(cur.hour, wide),
                  Digits(cur.minute, Wider(cur.hour, wide))>>]_allVars
=============================================================================
