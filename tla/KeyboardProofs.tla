--------------------------- MODULE KeyboardProofs ---------------------------
(***************************************************************************)
(* Proofs about Interrupts.tla and Keyboard.tla, for every set of lines    *)
(* and of keys and every depth of nesting.                                 *)
(*                                                                         *)
(* Interrupts.  That an EOI clears the right service bit (InServiceExact)  *)
(* follows from the line being handled having the highest priority of all  *)
(* in service at its chip, which was so when it was delivered and stays so *)
(* because nothing is delivered while a handler runs.  CurrentFirst says   *)
(* that.                                                                   *)
(*                                                                         *)
(* Keyboard.  Every step of the keyboard, of the controller and of the     *)
(* main program is a step of the interrupts or leaves them alone, so their *)
(* invariant Inv holds here as well.  HandlerOn ties the handler's place   *)
(* to the stack of frames.                                                 *)
(*                                                                         *)
(* That getkey() returns what was typed needs the whole way of a byte:     *)
(* Paced says what is known of it from its edge to the mailbox, when the   *)
(* main program has made room for it, and of the mailbox until getkey()    *)
(* has read it.                                                            *)
(***************************************************************************)
EXTENDS Keyboard, SequenceTheorems, FiniteSetTheorems, TLAPS

-----------------------------------------------------------------------------
(* Interrupts. *)

Frame == [irq : Lines, body : BOOLEAN]

CurrentFirst ==
  Running =>
    /\ \A k \in leaked \cap Master : Level(Top.irq) < k
    /\ Top.irq \in Slave => \A k \in leaked \cap Slave : Top.irq < k

Inv ==
  /\ IrqTypeOK
  /\ OneHandlerAtATime
  /\ InServiceExact
  /\ CurrentFirst
  /\ ~installed => frames = <<>> /\ leaked = {}

-----------------------------------------------------------------------------
\* Where lines lie.
LEMMA LineFacts ==
  ASSUME NEW i \in Lines
  PROVE  /\ i \in Master \/ i \in Slave
         /\ i # Cascade
         /\ Level(i) \in Master
         /\ i \in Slave => Level(i) = Cascade /\ i \notin Master
         /\ i \in Master => Level(i) = i /\ i \notin Slave
         /\ Service(i) \subseteq Lines \cup {Cascade}
BY InterruptsAssumption DEF Master, Slave, Cascade, Level, Service

\* The stack of frames when a handler is entered, ends, and returns.
LEMMA Pushed ==
  ASSUME frames \in Seq(Frame), NEW f \in Frame, frames' = Append(frames, f)
  PROVE  /\ frames' \in Seq(Frame)
         /\ Len(frames') = Len(frames) + 1
         /\ frames' # <<>>
         /\ \A k \in 1 .. Len(frames) : frames'[k] = frames[k]
         /\ frames'[Len(frames) + 1] = f
BY DEF Frame

LEMMA Marked ==
  ASSUME frames \in Seq(Frame), frames # <<>>,
         frames' = [frames EXCEPT ![Len(frames)].body = FALSE]
  PROVE  /\ frames' \in Seq(Frame)
         /\ Len(frames') = Len(frames)
         /\ \A k \in 1 .. Len(frames) - 1 : frames'[k] = frames[k]
         /\ ~frames'[Len(frames)].body
<1> DEFINE n == Len(frames)
           e == [frames[n] EXCEPT !.body = FALSE]
<1>1. n \in 1 .. Len(frames) /\ n \in Nat /\ n > 0
  BY EmptySeq
<1>2. frames[n] \in Frame
  BY <1>1, ElementOfSeq
<1>3. e \in Frame /\ ~e.body
  BY <1>2 DEF Frame
<1>4. frames' = [frames EXCEPT ![n] = e]
  OBVIOUS
<1> HIDE DEF n, e
<1>5. /\ [frames EXCEPT ![n] = e] \in Seq(Frame)
      /\ Len([frames EXCEPT ![n] = e]) = Len(frames)
      /\ \A j \in 1 .. Len(frames) :
           [frames EXCEPT ![n] = e][j] = IF j = n THEN e ELSE frames[j]
  BY <1>1, <1>3, ExceptSeq
<1>6. frames' \in Seq(Frame) /\ Len(frames') = Len(frames)
  BY <1>4, <1>5
<1>7. n \in 1 .. Len(frames) /\ n = Len(frames) /\ n \in Nat
  BY <1>1 DEF n
<1>8. frames'[n] = e
  BY <1>4, <1>5, <1>7
<1>9. \A k \in 1 .. Len(frames) - 1 : frames'[k] = frames[k]
  <2> TAKE k \in 1 .. Len(frames) - 1
  <2>1. k \in 1 .. Len(frames) /\ k # n
    BY <1>7
  <2> QED
    BY <1>4, <1>5, <2>1
<1> QED
  BY <1>3, <1>6, <1>7, <1>8, <1>9

LEMMA Popped ==
  ASSUME frames \in Seq(Frame), frames # <<>>,
         frames' = SubSeq(frames, 1, Len(frames) - 1)
  PROVE  /\ frames' \in Seq(Frame)
         /\ Len(frames') = Len(frames) - 1
         /\ \A k \in 1 .. Len(frames) - 1 : frames'[k] = frames[k]
<1>1. Len(frames) \in Nat /\ Len(frames) > 0
  BY EmptySeq
<1>2. \A k \in 1 .. Len(frames) - 1 : frames[k] \in Frame
  BY <1>1, ElementOfSeq
<1> DEFINE m == Len(frames) - 1
<1>3. m \in Int /\ \A k \in 1 .. m : frames[k] \in Frame
  BY <1>1, <1>2
<1> HIDE DEF m
<1>4. /\ SubSeq(frames, 1, m) \in Seq(Frame)
      /\ Len(SubSeq(frames, 1, m)) = IF 1 <= m THEN m - 1 + 1 ELSE 0
      /\ \A k \in 1 .. m - 1 + 1 : SubSeq(frames, 1, m)[k] = frames[1 + k - 1]
  BY <1>3, SubSeqProperties
<1>5. m = Len(frames) - 1 /\ m >= 0 /\ frames' = SubSeq(frames, 1, m)
  BY <1>1 DEF m
<1>6. \A k \in 1 .. m : frames'[k] = frames[k]
  <2> TAKE k \in 1 .. m
  <2>1. k \in 1 .. m - 1 + 1 /\ 1 + k - 1 = k
    BY <1>3
  <2> QED
    BY <1>4, <1>5, <2>1
<1>7. Len(frames') = m
  BY <1>3, <1>4, <1>5
<1> QED
  BY <1>4, <1>5, <1>6, <1>7

\* The top frame, when there is one.
LEMMA TopFacts ==
  ASSUME Inv, frames # <<>>
  PROVE  /\ Len(frames) \in Nat /\ Len(frames) > 0
         /\ Top \in Frame
         /\ Top.irq \in Lines
         /\ installed
<1>1. frames \in Seq(Frame)
  BY DEF Inv, IrqTypeOK, Frame
<1>2. Len(frames) \in Nat /\ Len(frames) > 0
  BY <1>1, EmptySeq
<1>3. Top \in Frame
  BY <1>1, <1>2, ElementOfSeq DEF Top
<1> QED
  BY <1>2, <1>3 DEF Inv, Frame

-----------------------------------------------------------------------------
LEMMA InitInv == IrqInit => Inv
<1> SUFFICES ASSUME IrqInit PROVE Inv
  OBVIOUS
<1>1. frames = <<>> /\ Len(frames) = 0 /\ frames \in Seq(Frame)
  BY EmptySeq DEF IrqInit
<1>2. IrqTypeOK
  <2>1. 0 <= MaxNest
    BY InterruptsAssumption
  <2> QED
    BY <1>1, <2>1 DEF IrqInit, IrqTypeOK, Frame
<1>3. ~Running
  BY <1>1 DEF Running
<1>4. OneHandlerAtATime
  <2>1. \A k \in 1 .. Len(frames) - 1 : ~frames[k].body
    BY <1>1
  <2>2. if_flag = (installed /\ ~Running)
    BY DEF IrqInit
  <2> QED
    BY <2>1, <2>2 DEF OneHandlerAtATime
<1>5. InServiceExact
  BY <1>3 DEF IrqInit, InServiceExact
<1> QED
  BY <1>1, <1>2, <1>3, <1>4, <1>5 DEF IrqInit, Inv, CurrentFirst

\* A step that only touches the pending lines or the table of handlers.
LEMMA QuietInv ==
  ASSUME Inv,
         UNCHANGED <<isr, if_flag, installed, frames, leaked>>,
         irr' \subseteq Lines, routines' \subseteq Lines
  PROVE  Inv'
<1>1. IrqTypeOK'
  BY DEF Inv, IrqTypeOK
<1> QED
  BY <1>1 DEF Inv, OneHandlerAtATime, InServiceExact, CurrentFirst, Running, Top

LEMMA InstallInv ==
  ASSUME Inv, IrqInstall
  PROVE  Inv'
<1>1. frames = <<>> /\ frames' = <<>> /\ leaked = {} /\ leaked' = {} /\ isr' = {}
  BY DEF Inv, IrqInstall
<1>2. IrqTypeOK'
  BY <1>1 DEF Inv, IrqTypeOK, IrqInstall
<1>3. Len(frames') = 0
  BY <1>1
<1> QED
  BY <1>1, <1>2, <1>3 DEF IrqInstall, Inv, OneHandlerAtATime, InServiceExact, CurrentFirst, Running

LEMMA DeliverInv ==
  ASSUME Inv, NEW i \in Lines, Deliver(i)
  PROVE  Inv'
<1> DEFINE f == [irq |-> i, body |-> TRUE]
<1>1. frames \in Seq(Frame) /\ f \in Frame
  BY DEF Inv, IrqTypeOK, Frame
<1>2. IrqOf(Vector(i)) = i
  BY InterruptsAssumption DEF IrqOf, Vector, Master, Slave
<1>3. frames' = Append(frames, f)
  BY <1>2 DEF Deliver
<1>4. /\ frames' \in Seq(Frame)
      /\ Len(frames') = Len(frames) + 1
      /\ frames' # <<>>
      /\ \A k \in 1 .. Len(frames) : frames'[k] = frames[k]
      /\ frames'[Len(frames) + 1] = f
  BY <1>1, <1>3, Pushed
<1>5. Top' = f /\ Running'
  BY <1>4 DEF Top, Running
<1>6. ~Running /\ installed /\ isr = leaked
  BY DEF Inv, OneHandlerAtATime, InServiceExact, Deliver
<1>7. Len(frames) \in Nat
  BY <1>1, LenProperties
<1>8. \A k \in 1 .. Len(frames) : ~frames[k].body
  <2>1. \A k \in 1 .. Len(frames) - 1 : ~frames[k].body
    BY DEF Inv, OneHandlerAtATime
  <2>2. frames # <<>> => ~frames[Len(frames)].body
    BY <1>6 DEF Running, Top
  <2>3. Len(frames) > 0 => frames # <<>>
    BY EmptySeq
  <2> QED
    BY <1>7, <2>1, <2>2, <2>3
<1>9. IrqTypeOK'
  <2>1. isr' \subseteq Lines \cup {Cascade} /\ leaked' \subseteq isr' /\ irr' \subseteq Lines
    BY LineFacts DEF Inv, IrqTypeOK, Deliver
  <2>2. Len(frames') <= MaxNest
    BY <1>4, <1>7, InterruptsAssumption DEF Deliver
  <2>3. if_flag' \in BOOLEAN
    BY DEF Deliver, FlagOnEntry
  <2> QED
    BY <1>4, <2>1, <2>2, <2>3 DEF Inv, IrqTypeOK, Deliver, Frame
<1>10. OneHandlerAtATime'
  <2>1. \A k \in 1 .. Len(frames') - 1 : ~frames'[k].body
    BY <1>4, <1>7, <1>8
  <2> QED
    BY <1>5, <2>1 DEF OneHandlerAtATime, Deliver, FlagOnEntry
<1>11. InServiceExact'
  BY <1>5, <1>6 DEF InServiceExact, Deliver
<1>12. CurrentFirst'
  <2>1. \A k \in leaked \cap Master : Level(i) < k
    BY <1>6 DEF Deliver, Presented
  <2>2. i \in Slave => \A k \in leaked \cap Slave : i < k
    BY <1>6, LineFacts DEF Deliver, Presented, SlaveRequests
  <2>3. leaked' = leaked
    BY DEF Deliver
  <2> QED
    BY <1>5, <2>1, <2>2, <2>3 DEF CurrentFirst
<1>13. installed'
  BY <1>6 DEF Deliver
<1> QED
  BY <1>9, <1>10, <1>11, <1>12, <1>13 DEF Inv

\* The two EOIs of irq_ack(i), or the one, clear exactly what was set for i.
LEMMA AckExact ==
  ASSUME Inv, Running
  PROVE  Acked(Top.irq) = leaked \cup Leftover(Top.irq, TRUE)
<1> DEFINE t == Top.irq
<1>1. t \in Lines
  BY TopFacts DEF Running
<1>2. isr = leaked \cup {t, Level(t)}
  BY DEF Inv, InServiceExact, Service
<1>3. /\ \A k \in leaked \cap Master : Level(t) < k
      /\ t \in Slave => \A k \in leaked \cap Slave : t < k
  BY DEF Inv, CurrentFirst
<1>4. leaked \subseteq Master \cup Slave
  <2>1. leaked \subseteq Lines \cup {Cascade}
    BY DEF Inv, IrqTypeOK
  <2> QED
    BY <2>1, InterruptsAssumption DEF Master, Slave, Cascade
<1> HIDE DEF t
<1>5. EOI(isr \cap Master) = leaked \cap Master
  <2>1. isr \cap Master = (leaked \cap Master) \cup {Level(t)}
    BY <1>1, <1>2, LineFacts
  <2>2. Level(t) \in Int /\ \A k \in leaked \cap Master : k \in Int
    BY <1>1, LineFacts DEF Master
  <2> QED
    BY <1>3, <2>1, <2>2 DEF EOI
<1>6. CASE t \in Master
  <2>1. isr \cap Slave = leaked \cap Slave
    BY <1>1, <1>2, <1>6, LineFacts
  <2>2. ~EoiToSlave(t) /\ {t} \cap (8 .. 11) = {}
    BY <1>6 DEF EoiToSlave, Master
  <2> QED
    BY <1>4, <1>5, <2>1, <2>2 DEF Acked, Leftover, t
<1>7. CASE t \in Slave
  <2>1. isr \cap Slave = (leaked \cap Slave) \cup {t}
    BY <1>1, <1>2, <1>7, LineFacts DEF Slave, Cascade
  <2>2. t \in Int /\ \A k \in leaked \cap Slave : k \in Int
    BY <1>7 DEF Slave
  <2>3. EOI(isr \cap Slave) = leaked \cap Slave
    BY <1>3, <1>7, <2>1, <2>2 DEF EOI
  <2>4. CASE EoiToSlave(t)
    <3>1. {t} \cap (8 .. 11) = {}
      BY <2>2, <2>4 DEF EoiToSlave
    <3> QED
      BY <1>4, <1>5, <2>3, <2>4, <3>1 DEF Acked, Leftover, t
  <2>5. CASE ~EoiToSlave(t)
    <3>1. t \in 8 .. 11
      BY <1>7, <2>2, <2>5 DEF EoiToSlave, Slave
    <3>2. {t} \cap (8 .. 11) = {t}
      BY <3>1
    <3> QED
      BY <1>4, <1>5, <2>1, <2>5, <3>2 DEF Acked, Leftover, t
  <2> QED
    BY <2>4, <2>5
<1> QED
  BY <1>1, <1>6, <1>7, LineFacts

LEMMA FinishInv ==
  ASSUME Inv, NEW ack \in BOOLEAN, Finish(ack)
  PROVE  Inv'
<1>1. frames # <<>> /\ Running /\ frames \in Seq(Frame)
  BY DEF Finish, Running, Inv, IrqTypeOK, Frame
<1>2. /\ frames' \in Seq(Frame)
      /\ Len(frames') = Len(frames)
      /\ \A k \in 1 .. Len(frames) - 1 : frames'[k] = frames[k]
      /\ ~frames'[Len(frames)].body
  BY <1>1, Marked DEF Finish
<1>3. ~Running'
  BY <1>2 DEF Running, Top
<1>4. installed /\ installed' /\ Top.irq \in Lines
  BY <1>1, TopFacts DEF Finish
<1>5. isr' = leaked'
  <2>1. CASE ack
    BY <1>1, <2>1, AckExact DEF Finish
  <2>2. CASE ~ack
    BY <1>1, <2>2 DEF Finish, Leftover, Inv, InServiceExact
  <2> QED
    BY <2>1, <2>2
<1>6. leaked' \subseteq Lines \cup {Cascade}
  <2>1. leaked \subseteq Lines \cup {Cascade}
    BY DEF Inv, IrqTypeOK
  <2> QED
    BY <1>4, <2>1, LineFacts DEF Finish, Leftover
<1>7. IrqTypeOK'
  BY <1>2, <1>5, <1>6 DEF Inv, IrqTypeOK, Finish, Frame
<1>8. OneHandlerAtATime'
  BY <1>2, <1>3, <1>4 DEF Inv, OneHandlerAtATime, Finish
<1> QED
  BY <1>3, <1>4, <1>5, <1>7, <1>8 DEF Inv, InServiceExact, CurrentFirst

LEMMA IretInv ==
  ASSUME Inv, Iret
  PROVE  Inv'
<1>1. frames # <<>> /\ frames \in Seq(Frame) /\ ~Running
  BY DEF Iret, Running, Inv, IrqTypeOK, Frame
<1>2. /\ frames' \in Seq(Frame)
      /\ Len(frames') = Len(frames) - 1
      /\ \A k \in 1 .. Len(frames) - 1 : frames'[k] = frames[k]
  BY <1>1, Popped DEF Iret
<1>3. Len(frames) \in Nat /\ Len(frames) > 0 /\ installed
  BY <1>1, TopFacts
<1>4. \A k \in 1 .. Len(frames') : ~frames'[k].body
  BY <1>2, <1>3 DEF Inv, OneHandlerAtATime
<1>5. ~Running'
  <2>1. frames' # <<>> => Len(frames') \in 1 .. Len(frames')
    BY <1>2, EmptySeq
  <2> QED
    BY <1>4, <2>1 DEF Running, Top
<1>6. IrqTypeOK'
  <2>1. Len(frames') <= MaxNest
    BY <1>2, <1>3, InterruptsAssumption DEF Inv, IrqTypeOK
  <2> QED
    BY <1>2, <2>1 DEF Inv, IrqTypeOK, Iret, Frame
<1>7. OneHandlerAtATime'
  <2>1. \A k \in 1 .. Len(frames') - 1 : ~frames'[k].body
    BY <1>2, <1>3, <1>4
  <2> QED
    BY <1>3, <1>5, <2>1 DEF OneHandlerAtATime, Iret
<1>8. InServiceExact'
  BY <1>1, <1>5 DEF Inv, InServiceExact, Iret
<1> QED
  BY <1>3, <1>5, <1>6, <1>7, <1>8 DEF Inv, CurrentFirst, Iret

LEMMA NextInv == Inv /\ [IrqNext]_irqVars => Inv'
<1> SUFFICES ASSUME Inv, [IrqNext]_irqVars PROVE Inv'
  OBVIOUS
<1>1. irr \subseteq Lines /\ routines \subseteq Lines
  BY DEF Inv, IrqTypeOK
<1>2. CASE IrqInstall
  BY <1>2, InstallInv
<1>3. ASSUME NEW i \in Lines, Raise(i) \/ InstallHandler(i) \/ UninstallHandler(i)
      PROVE  Inv'
  <2>1. UNCHANGED <<isr, if_flag, installed, frames, leaked>>
    BY <1>3 DEF Raise, InstallHandler, UninstallHandler
  <2>2. irr' \subseteq Lines /\ routines' \subseteq Lines
    BY <1>1, <1>3 DEF Raise, InstallHandler, UninstallHandler
  <2> QED
    BY <2>1, <2>2, QuietInv
<1>4. ASSUME NEW i \in Lines, Deliver(i) PROVE Inv'
  BY <1>4, DeliverInv
<1>5. CASE \E ack \in BOOLEAN : Finish(ack)
  BY <1>5, FinishInv
<1>6. CASE Iret
  BY <1>6, IretInv
<1>7. CASE UNCHANGED irqVars
  BY <1>1, <1>7, QuietInv DEF irqVars
<1> QED
  BY <1>2, <1>3, <1>4, <1>5, <1>6, <1>7 DEF IrqNext

\* The inductive invariant holds in every behaviour.
THEOREM InterruptInvariance == IrqSpec => []Inv
<1>1. IrqInit => Inv
  BY InitInv
<1>2. Inv /\ [IrqNext]_irqVars => Inv'
  BY NextInv
<1> QED
  BY <1>1, <1>2, PTL DEF IrqSpec

\* The variables keep their types.
THEOREM InterruptTypes == IrqSpec => []IrqTypeOK
BY InterruptInvariance, PTL DEF Inv

\* No handler is ever preempted by another.
THEOREM Exclusive == IrqSpec => []OneHandlerAtATime
BY InterruptInvariance, PTL DEF Inv

\* Every EOI clears the bit of the line being handled; what is left in service
\* is known exactly.
THEOREM InService == IrqSpec => []InServiceExact
BY InterruptInvariance, PTL DEF Inv

-----------------------------------------------------------------------------
(* The keyboard. *)

\* kbd_handler() runs exactly while its frame is the one that runs.
HandlerOn == kpc # "off" <=> (Running /\ Top.irq = KBD /\ KBD \in routines)

\* There is a handler once keyboard_init() has run, and no key before.
BootOrder ==
  /\ KBD \in routines <=> mpc \notin {"boot", "devices"}
  /\ mpc \in {"boot", "devices"} =>
       rv = NoChar /\ last_key = NoChar /\ ~irq_state

\* What LatestNotLost says, also when getkey() has just returned.
Latest == mpc \in {"return", "test"} /\ ~irq_state => rv = last_key

\* A byte is on its way to the mailbox, and which.
Pending == KBD \in irr \/ kpc # "off"
Byte    == IF kpc = "decode" THEN sc ELSE port

\* The main program waits for it; a shift key has been taken note of by the
\* person but not yet by the driver, any other key is what is due.
OnItsWay(b) ==
  /\ b \notin Errors
  /\ ~irq_state /\ mpc \notin {"clear", "fetch"}
  /\ b \in Shifts => due = <<>> /\ held # {}
  /\ b \in Releases => due = <<>> /\ held = {}
  /\ b \notin Shifts \cup Releases =>
       due = <<Typed(b)>> /\ (shift <=> held # {})

\* None is: what is due, if anything, is what getkey() finds.
Arrived ==
  /\ shift <=> held # {}
  /\ \/ due = <<>> /\ ~irq_state /\ mpc \notin {"clear", "fetch"}
     \/ due = <<last_key>> /\ (irq_state <=> mpc # "fetch")

Paced ==
  paced =>
    /\ held # Shifts
    /\ KBD \in irr => kpc = "off"
    /\ mpc \in {"boot", "devices"} => ~Pending /\ due = <<>> /\ held = {}
    /\ Pending => OnItsWay(Byte)
    /\ ~Pending => Arrived

KInv ==
  /\ Inv
  /\ TypeOK
  /\ HandlerOn
  /\ BootOrder
  /\ UnreadIsPending
  /\ Latest
  /\ Paced

-----------------------------------------------------------------------------
\* The keys are none of the other bytes, nor the name of no key.
LEMMA KeyFacts ==
  /\ KBD \in Lines
  /\ Keys \cap (Shifts \cup Releases \cup Errors \cup {"other", "none"}) = {}
  /\ Shifts \cap Releases = {} /\ Shifts \cap Errors = {}
  /\ Releases \cap Errors = {}
  /\ "nul" \in Errors /\ "err" \in Errors
BY KeyboardAssumption DEF Shifts, Releases, Errors

\* Not both of the shift keys.
LEMMA TwoShifts ==
  ASSUME NEW S, Cardinality(S) < 2
  PROVE  S # Shifts
<1>1. Cardinality({"lshift"}) = 1 /\ IsFiniteSet({"lshift"})
  BY FS_Singleton
<1>2. Cardinality({"lshift"} \cup {"rshift"}) = 2
  BY <1>1, FS_AddElement
<1>3. Shifts = {"lshift"} \cup {"rshift"}
  BY DEF Shifts
<1> QED
  BY <1>2, <1>3

LEMMA CharFacts ==
  ASSUME shift \in BOOLEAN, NEW b
  PROVE  /\ scancode_char(b) \in Chars
         /\ Typed(b) \in Chars
         /\ NoChar \in Chars
         /\ (shift <=> held # {}) => Typed(b) = scancode_char(b)
<1>1. (held # {}) \in BOOLEAN
  OBVIOUS
<1>2. (shift <=> held # {}) => shift = (held # {})
  OBVIOUS
<1> QED
  BY <1>1, <1>2 DEF scancode_char, Typed, Chars

\* Whatever happens, as the interrupts see it.
LEMMA IrqStep ==
  ASSUME [Next]_vars
  PROVE  [IrqNext]_irqVars
<1>1. ASSUME NEW b \in Bytes, Load(b) PROVE [IrqNext]_irqVars
  BY <1>1, KeyFacts DEF Load, IrqNext, Raise, irqVars
<1>2. ASSUME Tick PROVE [IrqNext]_irqVars
  BY <1>2 DEF Tick, IrqNext
<1>3. ASSUME NEW i \in Lines, TakeInterrupt(i) PROVE [IrqNext]_irqVars
  BY <1>3 DEF TakeInterrupt, IrqNext
<1>4. ASSUME Handler PROVE [IrqNext]_irqVars
  <2>1. (\E ack \in BOOLEAN : Finish(ack)) \/ UNCHANGED irqVars
    <3>1. \A b : AckFor(b) \in BOOLEAN
      BY DEF AckFor
    <3> QED
      BY <1>4, <3>1 DEF Handler, ReadFirst, ReadSecond, Decode, NoHandler, Leave
  <2> QED
    BY <2>1 DEF IrqNext
<1>5. ASSUME ReturnFromInterrupt PROVE [IrqNext]_irqVars
  BY <1>5 DEF ReturnFromInterrupt, IrqNext
<1>6. ASSUME Main PROVE [IrqNext]_irqVars
  <2>1. IrqInstall \/ InstallHandler(KBD) \/ UNCHANGED irqVars
    BY <1>6 DEF Main, Boot, keyboard_init, Test, Fetch, Again
  <2> QED
    BY <2>1, KeyFacts DEF IrqNext
<1>7. ASSUME UNCHANGED vars PROVE [IrqNext]_irqVars
  BY <1>7 DEF vars
<1> QED
  BY <1>1, <1>2, <1>3, <1>4, <1>5, <1>6, <1>7 DEF Next

-----------------------------------------------------------------------------
\* What runs after the CPU has taken a line, and when a handler ends or the
\* stub returns.
LEMMA Entered ==
  ASSUME Inv, Inv', NEW i \in Lines, Deliver(i)
  PROVE  ~Running /\ Running' /\ Top'.irq = i
<1>1. frames \in Seq(Frame) /\ Len(frames) \in Nat
  BY LenProperties DEF Inv, IrqTypeOK, Frame
<1>2. frames' = Append(frames, [irq |-> i, body |-> TRUE])
  BY InterruptsAssumption DEF Deliver, IrqOf, Vector, Master, Slave
<1>3. Len(frames') = Len(frames) + 1 /\ frames'[Len(frames) + 1].irq = i
  BY <1>1, <1>2, Pushed DEF Frame
<1>4. ~Running /\ Running'
  BY DEF Inv, OneHandlerAtATime, Deliver, FlagOnEntry
<1> QED
  BY <1>3, <1>4 DEF Top

LEMMA Left ==
  ASSUME Inv, Inv', Iret \/ \E ack \in BOOLEAN : Finish(ack)
  PROVE  ~Running' /\ (Iret => ~Running)
BY DEF Inv, OneHandlerAtATime, Iret, Finish, Running

-----------------------------------------------------------------------------
LEMMA InitKInv == Init => KInv
<1> SUFFICES ASSUME Init PROVE KInv
  OBVIOUS
<1>1. Inv
  BY InitInv DEF Init
<1>2. ~Running /\ routines = {} /\ irr = {}
  BY DEF Init, IrqInit, Running
<1>3. TypeOK
  <2>1. <<>> \in Seq(Chars) /\ Len(<<>>) <= 1
    BY EmptySeq
  <2> QED
    BY <1>1, <2>1 DEF Init, TypeOK, Inv, Bytes, Errors, Chars
<1>4. Shifts # {}
  BY DEF Shifts
<1> QED
  BY <1>1, <1>2, <1>3, <1>4 DEF Init, KInv, HandlerOn, BootOrder, UnreadIsPending, Latest, Paced, Pending, Arrived

\* A byte comes.
LEMMA LoadKInv ==
  ASSUME KInv, Inv', NEW b \in Bytes, Load(b)
  PROVE  KInv'
<1>1. TypeOK'
  <2>1. paced' \in BOOLEAN /\ held' \subseteq Shifts
    BY DEF KInv, TypeOK, Load, Held, Shifts
  <2>2. due' \in Seq(Chars) /\ Len(due') <= 1
    <3>1. CASE ~paced' \/ b \in Shifts \cup Releases
      BY <3>1, EmptySeq DEF KInv, TypeOK, Load
    <3>2. CASE paced' /\ b \notin Shifts \cup Releases
      <4>1. due = <<>> /\ due' = Append(due, Typed(b))
        BY <3>2 DEF Load, InTime
      <4>2. Typed(b) \in Chars
        BY CharFacts DEF KInv, TypeOK
      <4> QED
        BY <4>1, <4>2
    <3> QED
      BY <3>1, <3>2
  <2> QED
    BY <2>1, <2>2 DEF Inv, KInv, TypeOK, Load, mainVars
<1>2. HandlerOn' /\ BootOrder' /\ Latest'
  BY DEF KInv, HandlerOn, BootOrder, Latest, Load, Running, Top, mainVars
<1>3. UnreadIsPending'
  BY DEF UnreadIsPending, Load
<1>4. Paced'
  <2> SUFFICES ASSUME paced' PROVE Paced'
    BY DEF Paced
  <2>1. paced /\ InTime /\ Orderly(b)
    BY DEF Load
  <2>2. ~Pending /\ Arrived /\ due = <<>> /\ KBD \in routines
    BY <2>1 DEF KInv, Paced, InTime, Pending
  <2>3. held' = Held(b) /\ held # Shifts /\ held \subseteq Shifts
    BY <2>1 DEF KInv, TypeOK, Paced, Load
  <2>4. held' # Shifts
    BY <2>1, <2>3, TwoShifts DEF Orderly
  <2>5. ~irq_state /\ mpc \notin {"clear", "fetch", "boot", "devices"}
    BY <2>2 DEF Arrived, KInv, BootOrder
  <2>6. Pending' /\ Byte' = b /\ kpc' = "off"
    BY <2>1 DEF Pending, Byte, Load, InTime
  <2>7. b \in Shifts => due' = <<>> /\ held' # {}
    <3> SUFFICES ASSUME b \in Shifts PROVE due' = <<>> /\ held' # {}
      OBVIOUS
    <3>1. Held(b) = held \cup {b}
      BY DEF Held, Shifts
    <3>2. due' = due
      BY DEF Load
    <3> QED
      BY <2>2, <2>3, <3>1, <3>2
  <2>8. b \in Releases => due' = <<>> /\ held' = {}
    <3> SUFFICES ASSUME b \in Releases PROVE due' = <<>> /\ held' = {}
      OBVIOUS
    <3>1. Held(b) # held
      BY <2>1 DEF Orderly
    <3>2. held' = {}
      BY <2>3, <3>1 DEF Held, Releases, Shifts
    <3> QED
      BY <2>2, <3>2 DEF Load
  <2>9. b \notin Shifts \cup Releases =>
          due' = <<Typed(b)>>' /\ (shift' <=> held' # {})
    <3> SUFFICES ASSUME b \notin Shifts \cup Releases
                 PROVE  due' = <<Typed(b)>>' /\ (shift' <=> held' # {})
      OBVIOUS
    <3>1. held' = held
      BY <2>3 DEF Held, Releases
    <3>2. due' = Append(<<>>, Typed(b))
      BY <2>2 DEF Load
    <3> QED
      BY <2>2, <3>1, <3>2 DEF Load, Arrived, Typed
  <2>10. OnItsWay(b)'
    BY <2>1, <2>5, <2>7, <2>8, <2>9 DEF OnItsWay, Orderly, Load, mainVars
  <2> QED
    BY <2>4, <2>5, <2>6, <2>10 DEF Paced, Load, mainVars
<1> QED
  BY <1>1, <1>2, <1>3, <1>4 DEF KInv, Latest

\* Steps that only other lines notice.
LEMMA ElsewhereKInv ==
  ASSUME KInv, Inv', UNCHANGED <<kbdVars, mainVars, history, routines>>,
         KBD \in irr' <=> KBD \in irr, leaked \subseteq leaked',
         (Running' /\ Top'.irq = KBD /\ KBD \in routines)
           <=> (Running /\ Top.irq = KBD /\ KBD \in routines)
  PROVE  KInv'
<1>1. TypeOK'
  BY DEF KInv, TypeOK, Inv, kbdVars, mainVars, history
<1>2. HandlerOn' /\ BootOrder' /\ Latest'
  BY DEF KInv, HandlerOn, BootOrder, Latest, kbdVars, mainVars
<1>3. UnreadIsPending'
  BY DEF KInv, UnreadIsPending, Deaf, kbdVars, history
<1>4. Paced'
  <2>1. Pending' <=> Pending
    BY DEF Pending, kbdVars
  <2>2. Byte' = Byte
    BY DEF Byte, kbdVars
  <2>3. OnItsWay(Byte)' <=> OnItsWay(Byte)
    BY <2>2 DEF OnItsWay, Typed, kbdVars, mainVars, history
  <2>4. Arrived' <=> Arrived
    BY DEF Arrived, kbdVars, mainVars, history
  <2> QED
    BY <2>1, <2>3, <2>4 DEF KInv, Paced, kbdVars, mainVars, history
<1> QED
  BY <1>1, <1>2, <1>3, <1>4 DEF KInv

LEMMA TickKInv ==
  ASSUME KInv, Inv', Tick
  PROVE  KInv'
<1>1. PICK i \in Lines \ {KBD} : Raise(i)
  BY DEF Tick
<1>2. UNCHANGED <<kbdVars, mainVars, history>>
  BY DEF Tick
<1> QED
  BY <1>1, <1>2, ElsewhereKInv DEF Raise, Running, Top

LEMMA NoHandlerKInv ==
  ASSUME KInv, Inv', NoHandler
  PROVE  KInv'
<1>1. ~Running'
  BY Left DEF KInv, NoHandler
<1>2. Top.irq \notin routines /\ UNCHANGED <<kbdVars, mainVars, history>>
  BY DEF NoHandler
<1> QED
  BY <1>1, <1>2, ElsewhereKInv DEF NoHandler, Finish

LEMMA ReturnKInv ==
  ASSUME KInv, Inv', ReturnFromInterrupt
  PROVE  KInv'
<1>1. ~Running' /\ ~Running
  BY Left DEF KInv, ReturnFromInterrupt
<1>2. UNCHANGED <<kbdVars, mainVars, history>>
  BY DEF ReturnFromInterrupt
<1> QED
  BY <1>1, <1>2, ElsewhereKInv DEF ReturnFromInterrupt, Iret

\* The CPU takes a line, the keyboard's or another.
LEMMA TakeKInv ==
  ASSUME KInv, Inv', NEW i \in Lines, TakeInterrupt(i)
  PROVE  KInv'
<1>1. ~Running /\ Running' /\ Top'.irq = i
  BY Entered DEF KInv, TakeInterrupt
<1>2. CASE i # KBD
  <2>1. UNCHANGED <<kbdVars, mainVars, history, routines>>
    BY <1>2 DEF TakeInterrupt, Deliver, kbdVars, mainVars, history, KInv, TypeOK
  <2>2. KBD \in irr' <=> KBD \in irr
    BY <1>2 DEF TakeInterrupt, Deliver
  <2> QED
    BY <1>1, <1>2, <2>1, <2>2, ElsewhereKInv DEF TakeInterrupt, Deliver
<1>3. CASE i = KBD
  <2>1. kpc = "off" /\ KBD \in irr /\ routines' = routines
    BY <1>1, <1>3 DEF KInv, HandlerOn, TakeInterrupt, Deliver, Presented
  <2>2. KBD \notin irr'
    BY <1>3 DEF TakeInterrupt, Deliver
  <2>3. /\ kpc' = IF KBD \in routines THEN "first" ELSE "off"
        /\ early' = (early \/ KBD \notin routines)
        /\ UNCHANGED <<port, obf, sc, last_key, shift, irq_state, mpc, rv,
                       held, paced, due>>
    BY <1>3, <2>1 DEF TakeInterrupt, mainVars
  <2>4. TypeOK'
    BY <2>3 DEF KInv, TypeOK, Inv
  <2>5. HandlerOn' /\ BootOrder' /\ Latest'
    BY <1>1, <1>3, <2>1, <2>3 DEF KInv, HandlerOn, BootOrder, Latest
  <2>6. UnreadIsPending'
    BY <2>3 DEF UnreadIsPending, Deaf
  <2>7. Paced'
    <3> SUFFICES ASSUME paced PROVE Paced'
      BY <2>3 DEF Paced
    <3>1. Pending /\ OnItsWay(port)
      BY <2>1 DEF KInv, Paced, Pending, Byte
    <3>2. KBD \in routines
      BY <3>1 DEF KInv, Paced, BootOrder
    <3>3. Pending' /\ Byte' = port
      BY <2>3, <3>2 DEF Pending, Byte
    <3>4. OnItsWay(port)'
      BY <2>3, <3>1 DEF OnItsWay, Typed
    <3> QED
      BY <2>2, <2>3, <3>2, <3>3, <3>4 DEF KInv, Paced, BootOrder, OnItsWay
  <2> QED
    BY <2>4, <2>5, <2>6, <2>7 DEF KInv
<1> QED
  BY <1>2, <1>3

\* The two reads of the port: a byte that is paced is none of the errors.
LEMMA ReadFirstKInv ==
  ASSUME KInv, Inv', ReadFirst
  PROVE  KInv'
<1>1. /\ kpc = "first" /\ obf' = FALSE
      /\ UNCHANGED <<port, last_key, shift, irq_state, mainVars, history>>
  BY DEF ReadFirst
<1>2. UnreadIsPending'
  BY <1>1 DEF UnreadIsPending
<1>3. CASE port = "nul"
  <2>1. Finish(AckFor("nul")) /\ kpc' = "off" /\ sc' = "nul"
    BY <1>3 DEF ReadFirst, Leave
  <2>2. ~Running' /\ routines' = routines
    BY <2>1, Left DEF KInv, AckFor, Finish
  <2>3. TypeOK'
    BY <1>1, <2>1 DEF KInv, TypeOK, Inv, mainVars, history, Bytes, Errors
  <2>4. HandlerOn' /\ BootOrder' /\ Latest'
    BY <1>1, <2>1, <2>2 DEF KInv, HandlerOn, BootOrder, Latest, mainVars
  <2>5. ~paced
    BY <1>1, <1>3, KeyFacts DEF KInv, Paced, Pending, Byte, OnItsWay
  <2> QED
    BY <1>1, <1>2, <2>3, <2>4, <2>5 DEF KInv, Paced, history
<1>4. CASE port # "nul"
  <2>1. kpc' = "second" /\ UNCHANGED <<irqVars, sc>>
    BY <1>4 DEF ReadFirst
  <2>2. TypeOK'
    BY <1>1, <2>1 DEF KInv, TypeOK, Inv, mainVars, history
  <2>3. HandlerOn' /\ BootOrder' /\ Latest'
    BY <1>1, <2>1 DEF KInv, HandlerOn, BootOrder, Latest, mainVars, irqVars, Running, Top
  <2>4. Paced'
    <3>1. Pending /\ Pending' /\ Byte' = Byte
      BY <1>1, <2>1 DEF Pending, Byte, irqVars
    <3>2. OnItsWay(Byte)' <=> OnItsWay(Byte)
      BY <1>1, <3>1 DEF OnItsWay, Typed, mainVars, history
    <3> QED
      BY <1>1, <2>1, <3>1, <3>2 DEF KInv, Paced, mainVars, history, irqVars
  <2> QED
    BY <1>2, <2>2, <2>3, <2>4 DEF KInv
<1> QED
  BY <1>3, <1>4

LEMMA ReadSecondKInv ==
  ASSUME KInv, Inv', ReadSecond
  PROVE  KInv'
<1>1. /\ kpc = "second" /\ obf' = FALSE
      /\ UNCHANGED <<port, last_key, shift, irq_state, mainVars, history>>
  BY DEF ReadSecond
<1>2. UnreadIsPending'
  BY <1>1 DEF UnreadIsPending
<1>3. CASE port = "err"
  <2>1. Finish(AckFor("err")) /\ kpc' = "off" /\ sc' = "nul"
    BY <1>3 DEF ReadSecond, Leave
  <2>2. ~Running' /\ routines' = routines
    BY <2>1, Left DEF KInv, AckFor, Finish
  <2>3. TypeOK'
    BY <1>1, <2>1 DEF KInv, TypeOK, Inv, mainVars, history, Bytes, Errors
  <2>4. HandlerOn' /\ BootOrder' /\ Latest'
    BY <1>1, <2>1, <2>2 DEF KInv, HandlerOn, BootOrder, Latest, mainVars
  <2>5. ~paced
    BY <1>1, <1>3, KeyFacts DEF KInv, Paced, Pending, Byte, OnItsWay
  <2> QED
    BY <1>1, <1>2, <2>3, <2>4, <2>5 DEF KInv, Paced, history
<1>4. CASE port # "err"
  <2>1. kpc' = "decode" /\ sc' = port /\ UNCHANGED irqVars
    BY <1>4 DEF ReadSecond
  <2>2. TypeOK'
    BY <1>1, <2>1 DEF KInv, TypeOK, Inv, mainVars, history
  <2>3. HandlerOn' /\ BootOrder' /\ Latest'
    BY <1>1, <2>1 DEF KInv, HandlerOn, BootOrder, Latest, mainVars, irqVars, Running, Top
  <2>4. Paced'
    <3>1. Pending /\ Pending' /\ Byte' = Byte
      BY <1>1, <2>1 DEF Pending, Byte, irqVars
    <3>2. OnItsWay(Byte)' <=> OnItsWay(Byte)
      BY <1>1, <3>1 DEF OnItsWay, Typed, mainVars, history
    <3> QED
      BY <1>1, <2>1, <3>1, <3>2 DEF KInv, Paced, mainVars, history, irqVars
  <2> QED
    BY <1>2, <2>2, <2>3, <2>4 DEF KInv
<1> QED
  BY <1>3, <1>4

\* The byte reaches the shift state or the mailbox.
LEMMA DecodeKInv ==
  ASSUME KInv, Inv', Decode
  PROVE  KInv'
<1>1. /\ kpc = "decode" /\ kpc' = "off" /\ sc' = "nul"
      /\ shift' = ShiftAfter(sc)
      /\ UNCHANGED <<port, obf, mpc, rv, early, held, paced, due>>
      /\ irr' = irr /\ routines' = routines /\ leaked \subseteq leaked'
  BY DEF Decode, Leave, Finish, mainVars, history
<1>2. ~Running'
  BY Left DEF KInv, Decode, Leave
<1>3. CASE sc \in Shifts \cup Releases \cup {"nul"}
  <2>1. UNCHANGED <<last_key, irq_state>>
    BY <1>3 DEF Decode
  <2>2. TypeOK'
    BY <1>1, <2>1 DEF KInv, TypeOK, Inv, Bytes, Errors, ShiftAfter
  <2>3. HandlerOn' /\ BootOrder' /\ Latest' /\ UnreadIsPending'
    BY <1>1, <1>2, <2>1 DEF KInv, HandlerOn, BootOrder, Latest, UnreadIsPending, Deaf
  <2>4. Paced'
    <3> SUFFICES ASSUME paced PROVE Paced'
      BY <1>1 DEF Paced
    <3>1. KBD \notin irr /\ OnItsWay(sc) /\ ~Pending' /\ mpc \notin {"boot", "devices"}
      BY <1>1 DEF KInv, Paced, Pending, Byte
    <3>2. sc \in Shifts \/ sc \in Releases
      BY <1>3, <3>1, KeyFacts DEF OnItsWay
    <3>3. shift' <=> held # {}
      BY <1>1, <3>1, <3>2, KeyFacts DEF OnItsWay, ShiftAfter
    <3>4. Arrived'
      BY <1>1, <2>1, <3>1, <3>2, <3>3 DEF OnItsWay, Arrived
    <3> QED
      BY <1>1, <3>1, <3>4 DEF KInv, Paced
  <2> QED
    BY <2>2, <2>3, <2>4 DEF KInv
<1>4. CASE sc \notin Shifts \cup Releases \cup {"nul"}
  <2>1. last_key' = scancode_char(sc) /\ irq_state' = TRUE /\ shift' = shift
    BY <1>1, <1>4 DEF Decode, ShiftAfter
  <2>2. scancode_char(sc) \in Chars
    BY CharFacts DEF KInv, TypeOK
  <2>3. TypeOK'
    BY <1>1, <2>1, <2>2 DEF KInv, TypeOK, Inv, Bytes, Errors
  <2>4. KBD \in routines
    BY <1>1 DEF KInv, HandlerOn
  <2>5. HandlerOn' /\ BootOrder' /\ Latest' /\ UnreadIsPending'
    BY <1>1, <1>2, <2>1, <2>4 DEF KInv, HandlerOn, BootOrder, Latest, UnreadIsPending, Deaf
  <2>6. Paced'
    <3> SUFFICES ASSUME paced PROVE Paced'
      BY <1>1 DEF Paced
    <3>1. KBD \notin irr /\ OnItsWay(sc) /\ ~Pending' /\ mpc \notin {"boot", "devices"}
      BY <1>1 DEF KInv, Paced, Pending, Byte
    <3>2. due = <<Typed(sc)>> /\ (shift <=> held # {})
      BY <1>4, <3>1 DEF OnItsWay
    <3>3. Typed(sc) = scancode_char(sc)
      BY <3>2, CharFacts DEF KInv, TypeOK
    <3>4. due' = <<last_key'>>
      BY <1>1, <2>1, <3>2, <3>3
    <3>5. Arrived'
      BY <1>1, <2>1, <3>1, <3>2, <3>4 DEF OnItsWay, Arrived
    <3> QED
      BY <1>1, <3>1, <3>5 DEF KInv, Paced
  <2> QED
    BY <2>3, <2>5, <2>6 DEF KInv
<1> QED
  BY <1>3, <1>4

-----------------------------------------------------------------------------
(* The main program, which runs when no handler does. *)

LEMMA MainIdle ==
  ASSUME KInv, frames = <<>>
  PROVE  kpc = "off"
BY DEF KInv, HandlerOn, Running

LEMMA BootKInv ==
  ASSUME KInv, Inv', Boot
  PROVE  KInv'
<1>1. /\ mpc = "boot" /\ mpc' = "devices" /\ frames = <<>> /\ frames' = frames
      /\ early' = (early \/ obf) /\ irr' = {} /\ routines' = routines
      /\ UNCHANGED <<kbdVars, rv, held, paced, due>>
  BY DEF Boot, InMain, IrqInstall
<1>2. ~Running /\ ~Running' /\ kpc = "off" /\ kpc' = "off"
  BY <1>1, MainIdle DEF Running, kbdVars
<1>3. TypeOK'
  BY <1>1 DEF KInv, TypeOK, Inv, kbdVars
<1>4. HandlerOn' /\ BootOrder' /\ Latest' /\ UnreadIsPending'
  BY <1>1, <1>2 DEF KInv, HandlerOn, BootOrder, Latest, UnreadIsPending, Deaf, kbdVars
<1>5. Paced'
  <2> SUFFICES ASSUME paced PROVE Paced'
    BY <1>1 DEF Paced
  <2>1. ~Pending /\ ~Pending' /\ due = <<>> /\ held = {} /\ held # Shifts /\ Arrived
    BY <1>1, <1>2 DEF KInv, Paced, Pending
  <2>2. Arrived'
    BY <1>1, <2>1 DEF Arrived, kbdVars
  <2> QED
    BY <1>1, <1>2, <2>1, <2>2 DEF Paced
<1> QED
  BY <1>3, <1>4, <1>5 DEF KInv

LEMMA KeyboardInitKInv ==
  ASSUME KInv, Inv', keyboard_init
  PROVE  KInv'
<1>1. /\ mpc = "devices" /\ mpc' = "test" /\ frames = <<>> /\ frames' = frames
      /\ last_key' = NoChar /\ shift' = FALSE /\ irq_state' = FALSE
      /\ routines' = routines \cup {KBD} /\ irr' = irr /\ leaked' = leaked
      /\ UNCHANGED <<port, obf, kpc, sc, rv, history>>
  BY DEF keyboard_init, InMain, InstallHandler
<1>2. ~Running /\ ~Running' /\ kpc = "off" /\ kpc' = "off"
  BY <1>1, MainIdle DEF Running
<1>3. TypeOK'
  BY <1>1 DEF KInv, TypeOK, Inv, history, Chars
<1>4. HandlerOn' /\ BootOrder' /\ Latest' /\ UnreadIsPending'
  BY <1>1, <1>2 DEF KInv, HandlerOn, BootOrder, Latest, UnreadIsPending, Deaf, history
<1>5. Paced'
  <2> SUFFICES ASSUME paced PROVE Paced'
    BY <1>1 DEF Paced, history
  <2>1. ~Pending /\ ~Pending' /\ due = <<>> /\ held = {} /\ held # Shifts
    BY <1>1, <1>2 DEF KInv, Paced, Pending
  <2>2. Arrived'
    BY <1>1, <2>1 DEF Arrived, history
  <2> QED
    BY <1>1, <1>2, <2>1, <2>2 DEF Paced, history
<1> QED
  BY <1>3, <1>4, <1>5 DEF KInv

\* getkey() and its caller: a key that is due is in the mailbox until it is
\* marked empty, and then still in last_key.
LEMMA GetkeyKInv ==
  ASSUME KInv, Inv', Test \/ Fetch \/ Again
  PROVE  KInv'
<1>1. /\ frames = <<>> /\ frames' = frames
      /\ UNCHANGED <<irqVars, port, obf, kpc, sc, last_key, shift, early, held, paced>>
      /\ mpc \notin {"boot", "devices"} /\ mpc' \notin {"boot", "devices"}
  BY DEF Test, Fetch, Again, InMain, kbdVars, history, irqVars
<1>2. ~Running /\ ~Running' /\ kpc = "off" /\ kpc' = "off"
  BY <1>1, MainIdle DEF Running
<1>3. \/ mpc = "test" /\ irq_state /\ mpc' = "clear" /\ UNCHANGED <<irq_state, rv, due>>
      \/ mpc = "clear" /\ mpc' = "fetch" /\ irq_state' = FALSE /\ UNCHANGED <<rv, due>>
      \/ /\ mpc = "fetch" /\ mpc' = "return" /\ rv' = last_key
         /\ due' = IF due = <<>> THEN due ELSE Tail(due)
         /\ UNCHANGED irq_state
      \/ mpc = "return" /\ mpc' = "test" /\ UNCHANGED <<irq_state, rv, due>>
  BY DEF Test, Fetch, Again, InMain, kbdVars, history
<1>4. TypeOK'
  <2>1. due' \in Seq(Chars) /\ Len(due') <= 1
    <3>1. due \in Seq(Chars) /\ Len(due) <= 1
      BY DEF KInv, TypeOK
    <3>2. due # <<>> => Tail(due) \in Seq(Chars) /\ Len(Tail(due)) = Len(due) - 1
      BY <3>1, HeadTailProperties
    <3>3. Len(due) \in Nat
      BY <3>1, LenProperties
    <3> QED
      BY <1>3, <3>1, <3>2, <3>3
  <2>2. mpc' \in {"test", "clear", "fetch", "return"} /\ irq_state' \in BOOLEAN
        /\ rv' \in Chars
    BY <1>3 DEF KInv, TypeOK
  <2> QED
    BY <1>1, <2>1, <2>2 DEF KInv, TypeOK, Inv
<1>5. HandlerOn' /\ BootOrder' /\ UnreadIsPending'
  BY <1>1, <1>2 DEF KInv, HandlerOn, BootOrder, UnreadIsPending, Deaf, irqVars
<1>6. Latest'
  BY <1>1, <1>3 DEF KInv, Latest
<1>7. Paced'
  <2> SUFFICES ASSUME paced PROVE Paced'
    BY <1>1 DEF Paced
  <2>1. Pending' <=> Pending
    BY <1>1, <1>2 DEF Pending, irqVars
  <2>2. ASSUME Pending PROVE Paced'
    <3>1. OnItsWay(Byte)
      BY <2>2 DEF KInv, Paced
    <3>2. mpc = "return" /\ mpc' = "test" /\ UNCHANGED <<irq_state, rv, due>>
      BY <1>3, <3>1 DEF OnItsWay
    <3>3. Byte' = Byte
      BY <1>1 DEF Byte
    <3>4. OnItsWay(Byte)'
      BY <1>1, <3>1, <3>2, <3>3 DEF OnItsWay, Typed
    <3> QED
      BY <1>1, <1>2, <2>1, <2>2, <3>4 DEF KInv, Paced
  <2>3. ASSUME ~Pending PROVE Paced'
    <3>1. Arrived
      BY <2>3 DEF KInv, Paced
    <3>2. Tail(<<last_key>>) = <<>>
      BY HeadTailProperties DEF KInv, TypeOK
    <3>3. <<last_key>> # <<>>
      OBVIOUS
    <3>4. (shift <=> held # {})' <=> (shift <=> held # {})
      BY <1>1
    <3>5. ASSUME due = <<>>, ~irq_state, mpc \notin {"clear", "fetch"}
          PROVE  Arrived'
      <4>1. due' = <<>> /\ ~irq_state' /\ mpc' \notin {"clear", "fetch"}
        BY <1>3, <3>5
      <4> QED
        BY <3>1, <3>4, <4>1 DEF Arrived
    <3>6. ASSUME due = <<last_key>>, irq_state <=> mpc # "fetch"
          PROVE  Arrived'
      <4>1. \/ due' = <<>> /\ ~irq_state' /\ mpc' \notin {"clear", "fetch"}
            \/ due' = <<last_key>> /\ (irq_state' <=> mpc' # "fetch")
        BY <1>3, <3>2, <3>3, <3>6
      <4> QED
        BY <1>1, <3>1, <3>4, <4>1 DEF Arrived
    <3>7. Arrived'
      BY <3>1, <3>5, <3>6 DEF Arrived
    <3> QED
      BY <1>1, <1>2, <2>1, <2>3, <3>7 DEF KInv, Paced
  <2> QED
    BY <2>2, <2>3
<1> QED
  BY <1>4, <1>5, <1>6, <1>7 DEF KInv

-----------------------------------------------------------------------------
LEMMA NextKInv == KInv /\ [Next]_vars => KInv'
<1> SUFFICES ASSUME KInv, [Next]_vars PROVE KInv'
  OBVIOUS
<1>1. Inv'
  BY IrqStep, NextInv DEF KInv
<1>2. ASSUME NEW b \in Bytes, Load(b) PROVE KInv'
  BY <1>1, <1>2, LoadKInv
<1>3. CASE Tick
  BY <1>1, <1>3, TickKInv
<1>4. ASSUME NEW i \in Lines, TakeInterrupt(i) PROVE KInv'
  BY <1>1, <1>4, TakeKInv
<1>5. CASE Handler
  BY <1>1, <1>5, ReadFirstKInv, ReadSecondKInv, DecodeKInv, NoHandlerKInv DEF Handler
<1>6. CASE ReturnFromInterrupt
  BY <1>1, <1>6, ReturnKInv
<1>7. CASE Main
  BY <1>1, <1>7, BootKInv, KeyboardInitKInv, GetkeyKInv DEF Main
<1>8. CASE UNCHANGED vars
  BY <1>1, <1>8, ElsewhereKInv DEF vars, irqVars, Running, Top
<1> QED
  BY <1>2, <1>3, <1>4, <1>5, <1>6, <1>7, <1>8 DEF Next

\* The inductive invariant holds in every behaviour.
THEOREM KeyboardInvariance == Spec => []KInv
<1>1. Init => KInv
  BY InitKInv
<1>2. KInv /\ [Next]_vars => KInv'
  BY NextKInv
<1> QED
  BY <1>1, <1>2, PTL DEF Spec

\* The variables keep their types.
THEOREM KeyboardTypes == Spec => []TypeOK
BY KeyboardInvariance, PTL DEF KInv

\* The driver overlooks no byte, except when it is deaf for good.
THEOREM NothingOverlooked == Spec => []UnreadIsPending
BY KeyboardInvariance, PTL DEF KInv

\* getkey() never waits with the latest key unread.
THEOREM LatestKept == Spec => []LatestNotLost
<1>1. KInv => LatestNotLost
  BY DEF KInv, Latest, LatestNotLost
<1> QED
  BY <1>1, KeyboardInvariance, PTL

\* Typing no faster than the main program asks, one gets what one typed.
THEOREM TypedIsReturned == Spec => PacedExact
<1>1. KInv /\ [Next]_vars =>
        [paced /\ mpc = "fetch" /\ mpc' = "return" => due = <<rv'>>]_vars
  <2> SUFFICES ASSUME KInv, [Next]_vars, paced, mpc = "fetch", mpc' = "return"
               PROVE  due = <<rv'>>
    OBVIOUS
  <2>1. due = <<last_key>>
    BY DEF KInv, Paced, Arrived, OnItsWay
  <2>2. Fetch
    BY DEF Next, vars, mainVars, Load, Tick, TakeInterrupt, Handler, ReadFirst,
           ReadSecond, Decode, NoHandler, ReturnFromInterrupt, Main, Boot,
           keyboard_init, Test, Again, InMain
  <2>3. rv' = last_key
    BY <2>2 DEF Fetch, InMain
  <2> QED
    BY <2>1, <2>3
<1> QED
  BY <1>1, KeyboardInvariance, PTL DEF Spec, PacedExact
=============================================================================
