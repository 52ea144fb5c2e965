----------------------------- MODULE Interrupts -----------------------------
(***************************************************************************)
(* Hardware interrupts as irq.c and irq.S handle them: the pair of 8259    *)
(* interrupt controllers that irq_remap() programs, the entry stubs,       *)
(* irq_handler() and irq_ack().                                            *)
(*                                                                         *)
(* The controllers are external.  They are in fully nested, edge           *)
(* triggered mode with all lines unmasked (the ICW and OCW values of       *)
(* irq_remap), and acknowledge on the non-specific EOI 0x20, which each    *)
(* chip applies to the highest priority line it has in service.            *)
(***************************************************************************)
EXTENDS Integers, Sequences

CONSTANTS
  Lines,     \* the interrupt lines that devices are attached to
  MaxNest    \* bound on nested interrupts, for the 16 KiB stack of boot.S

Master  == 0 .. 7
Slave   == 8 .. 15
Cascade == 2           \* the master's input that the slave is attached to

ASSUME InterruptsAssumption ==
  /\ Lines \subseteq (Master \cup Slave) \ {Cascade}
  /\ MaxNest \in Nat \ {0}

VARIABLES
  irr,        \* lines with a latched edge not yet taken by the CPU
  isr,        \* lines in service, at either chip; Cascade for the slave's
  if_flag,    \* the CPU's interrupt flag
  installed,  \* irq_install() has run
  routines,   \* irq_routines: the lines that have a handler
  frames,     \* the stack of interrupts entered and not yet returned from
  leaked      \* history: service bits that nobody will clear again

irqVars == <<irr, isr, if_flag, installed, routines, frames, leaked>>

\* The chip input that line i arrives at on the master.
Level(i) == IF i \in Slave THEN Cascade ELSE i
Service(i) == {i, Level(i)}

-----------------------------------------------------------------------------
(* The controllers. *)

\* The slave asks for its highest pending line unless an equal or higher one
\* is in service; the master sees that as a request on Cascade.
SlaveRequests ==
  {i \in irr \cap Slave : /\ \A j \in irr \cap Slave : i <= j
                          /\ \A k \in isr \cap Slave : i < k}
Requests == (irr \cap Master) \cup {Level(i) : i \in SlaveRequests}

\* The line the CPU would be given now.
Presented(i) ==
  /\ i \in irr \cap (Master \cup SlaveRequests)
  /\ \A j \in Requests : Level(i) <= j
  /\ \A k \in isr \cap Master : Level(i) < k

\* A non-specific EOI to a chip: of S, only what is not its highest remains.
EOI(S) == {x \in S : \E y \in S : y < x}

\* A device pulls its line.
Raise(i) ==
  /\ i \notin irr
  /\ irr' = irr \cup {i}
  /\ UNCHANGED <<isr, if_flag, installed, routines, frames, leaked>>

-----------------------------------------------------------------------------
(* irq.c and irq.S *)

\* Variant: the boundary is off by one.
EoiToSlaveFrom13(i) == i > 12

\* irq_ack() tells the slave only from line 12 on: lines 8 to 11 stay in
\* service there.
EoiToSlave(i) == i >= 12

\* The lines in service after irq_ack(i).
Acked(i) ==
  EOI(isr \cap Master) \cup
  (IF EoiToSlave(i) THEN EOI(isr \cap Slave) ELSE isr \cap Slave)

Top == frames[Len(frames)]
Running == frames # <<>> /\ Top.body

\* Variant: the handler is entered with interrupts on, as through a trap gate.
FlagOfTrapGate == TRUE

\* The gates of irq_gates() are interrupt gates (0x8E), the stubs of irq.S and
\* irq_handler() begin with cli.
FlagOnEntry == FALSE

\* Variant: the vector is taken for the line.
IrqOfVector(v) == v

\* irq_remap() moves line i to vector 32 + i; irq_handler() takes it back.
Vector(i) == i + 32
IrqOf(v)  == v - 32

\* irq_install(): remapping resets both chips, and with them the edges that
\* came before; then the gates are set and interrupts enabled.
IrqInstall ==
  /\ ~installed
  /\ irr' = {} /\ isr' = {}
  /\ installed' = TRUE
  /\ if_flag' = TRUE
  /\ UNCHANGED <<routines, frames, leaked>>

\* irq_install_handler() and irq_uninstall_handler(), called by code that
\* is not itself a handler.
InstallHandler(i) ==
  /\ frames = <<>>
  /\ routines' = routines \cup {i}
  /\ UNCHANGED <<irr, isr, if_flag, installed, frames, leaked>>

UninstallHandler(i) ==
  /\ frames = <<>>
  /\ routines' = routines \ {i}
  /\ UNCHANGED <<irr, isr, if_flag, installed, frames, leaked>>

\* The CPU takes the presented line: the stub of irq.S up to the handler.
Deliver(i) ==
  /\ if_flag
  /\ Presented(i)
  /\ Len(frames) < MaxNest
  /\ irr' = irr \ {i}
  /\ isr' = isr \cup Service(i)
  /\ if_flag' = FlagOnEntry
  /\ frames' = Append(frames, [irq |-> IrqOf(Vector(i)), body |-> TRUE])
  /\ UNCHANGED <<installed, routines, leaked>>

\* What no EOI will clear when the handling of line i ends.
Leftover(i, ack) ==
  IF ~ack THEN Service(i) ELSE {i} \cap (8 .. 11)

\* The rest of irq_handler(): without a handler it acknowledges, with one it
\* is the handler that does so, or does not; then sti, before the stub has
\* taken its frame off the stack.
Finish(ack) ==
  /\ Running
  /\ Top.irq \notin routines => ack
  /\ isr' = IF ack THEN Acked(Top.irq) ELSE isr
  /\ leaked' = leaked \cup Leftover(Top.irq, ack)
  /\ if_flag' = TRUE
  /\ frames' = [frames EXCEPT ![Len(frames)].body = FALSE]
  /\ UNCHANGED <<irr, installed, routines>>

\* The stub's iret; the interrupted code ran with interrupts enabled.
Iret ==
  /\ frames # <<>>
  /\ ~Top.body
  /\ frames' = SubSeq(frames, 1, Len(frames) - 1)
  /\ if_flag' = TRUE
  /\ UNCHANGED <<irr, isr, installed, routines, leaked>>

IrqInit ==
  /\ irr = {} /\ isr = {}
  /\ if_flag = FALSE
  /\ installed = FALSE
  /\ routines = {}
  /\ frames = <<>>
  /\ leaked = {}

IrqNext ==
  \/ IrqInstall
  \/ \E i \in Lines : \/ Raise(i)
                      \/ Deliver(i)
                      \/ InstallHandler(i)
                      \/ UninstallHandler(i)
  \/ \E ack \in BOOLEAN : Finish(ack)
  \/ Iret

IrqSpec == IrqInit /\ [][IrqNext]_irqVars

-----------------------------------------------------------------------------
(* Properties *)

\* Types of the variables.
IrqTypeOK ==
  /\ irr \subseteq Lines
  /\ isr \subseteq Lines \cup {Cascade}
  /\ leaked \subseteq isr
  /\ if_flag \in BOOLEAN
  /\ installed \in BOOLEAN
  /\ routines \subseteq Lines
  /\ frames \in Seq([irq : Lines, body : BOOLEAN])
  /\ Len(frames) <= MaxNest

\* Handlers run one at a time, with interrupts off.  irq_handler() enables
\* interrupts while its frame is still on the stack, so frames do pile up, but
\* only ones that have left their handler: what handlers share, such as kinfo
\* in keyboard.c, needs no lock among them.
OneHandlerAtATime ==
  /\ \A k \in 1 .. Len(frames) - 1 : ~frames[k].body
  /\ if_flag = (installed /\ ~Running)

\* Each EOI clears the service bit of the line being handled and no other,
\* although it does not name a line; so what stays in service is what is
\* being handled, and besides it exactly the slave's lines 8 to 11 that have
\* ever fired, and the lines whose handler returned without irq_ack().
InServiceExact ==
  isr = leaked \cup IF Running THEN Service(Top.irq) ELSE {}
=============================================================================
