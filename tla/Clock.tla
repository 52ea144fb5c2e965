------------------------------- MODULE Clock --------------------------------
(***************************************************************************)
(* cmos_rtc_gettime() of cmos.c: the time and date are read register by    *)
(* register while the clock goes on, and are then converted.               *)
(*                                                                         *)
(* The real-time clock is external.  It announces an update (UIP) before   *)
(* it makes one, and keeps its registers in BCD or in binary, the hour of  *)
(* twelve or of twenty-four with bit 7 for the afternoon.  Month and year  *)
(* are read like the day and are left out; the century is not read, since  *)
(* creg is 0.  Nothing is kept from one call to the next: a behaviour is   *)
(* one call, made at any time and in any format of the registers.          *)
(***************************************************************************)
EXTENDS Integers, Sequences

CONSTANTS
  Sixty,      \* seconds in a minute
  Minutes,    \* minutes in an hour
  Days,       \* the last day looked at
  MaxTicks    \* bound on the updates during one call

ASSUME ClockAssumption ==
  /\ Sixty \in 1 .. 60 /\ Minutes \in 1 .. 60 /\ Days \in 1 .. 28
  /\ MaxTicks \in Nat

VARIABLES
  now,        \* the time: day, hour, minute and second
  uip,        \* an update is announced
  binary,     \* register B: not BCD
  h24,        \* register B: twenty-four hours
  pc,         \* the next register to be read, "uip", "convert" or "done"
  cur,        \* the time read
  began,      \* history: the time when the call found no update announced
  ticks       \* history: updates since then

vars == <<now, uip, binary, h24, pc, cur, began, ticks>>

Times == [day : 1 .. Days, hour : 0 .. 23, minute : 0 .. (Minutes - 1),
          second : 0 .. (Sixty - 1)]

Seconds(t) == ((t.day * 24 + t.hour) * Minutes + t.minute) * Sixty + t.second

-----------------------------------------------------------------------------
(* The clock. *)

Encoded(n) == IF binary THEN n ELSE (n \div 10) * 16 + (n % 10)
HourOf12(h) == IF h % 12 = 0 THEN 12 ELSE h % 12
Register ==
  [second |-> Encoded(now.second),
   minute |-> Encoded(now.minute),
   hour   |-> IF h24 THEN Encoded(now.hour)
              ELSE Encoded(HourOf12(now.hour)) + (IF now.hour >= 12 THEN 128 ELSE 0),
   day    |-> Encoded(now.day)]

Reading == pc \in {"second", "minute", "hour", "day"}

Announce ==
  /\ ~uip
  /\ pc = "uip" \/ (Reading /\ ticks < MaxTicks)
  /\ uip' = TRUE
  /\ UNCHANGED <<now, binary, h24, pc, cur, began, ticks>>

\* The date does not wrap: the last second looked at is the last.
Later ==
  LET carry == now.second = Sixty - 1
      over  == carry /\ now.minute = Minutes - 1
      night == over /\ now.hour = 23
  IN  [day    |-> IF night THEN now.day + 1 ELSE now.day,
       hour   |-> IF over THEN (now.hour + 1) % 24 ELSE now.hour,
       minute |-> IF carry THEN (now.minute + 1) % Minutes ELSE now.minute,
       second |-> (now.second + 1) % Sixty]

\* After the last register the clock is not looked at, and stands still.
Tick ==
  /\ uip
  /\ pc = "uip" \/ Reading
  /\ Later \in Times
  /\ uip' = FALSE
  /\ now' = Later
  /\ ticks' = IF Reading THEN ticks + 1 ELSE ticks
  /\ UNCHANGED <<binary, h24, pc, cur, began>>

-----------------------------------------------------------------------------
(* cmos_rtc_gettime() *)

\* The struct on the stack before its fields are read.
Unset == [day |-> 0, hour |-> 0, minute |-> 0, second |-> 0]

\* check_updating()
NotUpdating == ~uip

\* Variant: the highest first.
HighestFirst == <<"day", "hour", "minute", "second", "convert">>

\* The order in which the registers are read.
Order == <<"second", "minute", "hour", "day", "convert">>

AwaitUpdate ==
  /\ pc = "uip"
  /\ NotUpdating
  /\ pc' = Order[1]
  /\ began' = now /\ ticks' = 0
  /\ UNCHANGED <<now, uip, binary, h24, cur>>

\* One register.  The loop that follows the last one is meant to read again
\* until nothing changes, but it compares with a copy just made, and leaves.
get_reg ==
  \E i \in 1 .. 4 :
    /\ pc = Order[i]
    /\ pc' = Order[i + 1]
    /\ cur' = [cur EXCEPT ![pc] = Register[pc]]
    /\ UNCHANGED <<now, uip, binary, h24, began, ticks>>

Decimal(n) == (n % 16) + (n \div 16) * 10

\* Variant: the flag of the afternoon is taken for a digit.
HourAllDigits(h) == Decimal(h)

\* Bit 7 of the hour is kept apart from its digits.
HourDecimal(h) == Decimal(h % 128) + (h \div 128) * 128

\* The hour of an afternoon gets twelve more; noon and midnight are left over.
Hour24(h) == IF ~h24 /\ h >= 128 THEN ((h % 128) + 12) % 24 ELSE h

Convert ==
  /\ pc = "convert"
  /\ pc' = "done"
  /\ cur' =
       [day    |-> IF binary THEN cur.day ELSE Decimal(cur.day),
        hour   |-> Hour24(IF binary THEN cur.hour ELSE HourDecimal(cur.hour)),
        minute |-> IF binary THEN cur.minute ELSE Decimal(cur.minute),
        second |-> IF binary THEN cur.second ELSE Decimal(cur.second)]
  /\ UNCHANGED <<now, uip, binary, h24, began, ticks>>

-----------------------------------------------------------------------------
ClockInit ==
  /\ uip \in BOOLEAN
  /\ binary \in BOOLEAN /\ h24 \in BOOLEAN
  /\ cur = Unset /\ began = now /\ ticks = 0

Init == now \in Times /\ ClockInit /\ pc = "uip"

\* A call of cmos_rtc_gettime(), and the clock meanwhile.
GetTime == Announce \/ Tick \/ AwaitUpdate \/ get_reg \/ Convert

Next == GetTime

Spec == Init /\ [][Next]_vars

-----------------------------------------------------------------------------
(* Properties *)

\* Types of the variables: registers are eight bits wide, and what is returned
\* is a time, whatever was updated between the reads.
TypeOK ==
  /\ now \in Times /\ began \in Times
  /\ {uip, binary, h24} \subseteq BOOLEAN
  /\ pc \in {"uip", "second", "minute", "hour", "day", "convert", "done"}
  /\ \A f \in DOMAIN cur : cur[f] \in 0 .. 255
  /\ pc = "done" => cur \in Times \cup {Unset}
  /\ ticks \in 0 .. MaxTicks

Returned == pc = "convert" /\ pc' = "done"

\* cmos_rtc_gettime: a call during whose reads the clock is not updated returns
\* the time they saw, whatever the format of the registers, except that in the
\* twelve-hour format noon and midnight change places.
QuietExact ==
  [][Returned /\ ticks = 0 =>
       cur' = [began EXCEPT !.hour =
                 IF ~h24 /\ began.hour % 12 = 0 THEN 12 - began.hour ELSE began.hour]]_vars

\* cmos_rtc_gettime: however many updates fall between the reads, the time that
\* is returned is not before the one at which the call began; it may be ahead of
\* the clock.  (In the twelve-hour format noon and midnight spoil the order.)
NeverBehind ==
  [][Returned /\ h24 => Seconds(began) <= Seconds(cur')]_vars

\* cmos.c:58: "convert 12h clock to 24h if necessary".
Converted12To24 ==
  [][Returned /\ ticks = 0 => cur'.hour = began.hour]_vars
=============================================================================
