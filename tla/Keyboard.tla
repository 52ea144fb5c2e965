------------------------------ MODULE Keyboard ------------------------------
(***************************************************************************)
(* The PS/2 keyboard of keyboard.c on top of Interrupts.tla: the handler   *)
(* of line 1, its one-key mailbox kinfo, and getkey(), which spins on the  *)
(* mailbox from the main program, between the instructions of which the    *)
(* handler may run.                                                        *)
(*                                                                         *)
(* The keyboard controller is external: it holds one byte at port 0x60,    *)
(* raises line 1 when it puts one there, and puts the next one there only  *)
(* after a read.  A read of the empty port yields the last byte again.     *)
(* Line 0 is the timer, which has no handler.                              *)
(***************************************************************************)
EXTENDS Interrupts, FiniteSets

CONSTANTS Keys       \* the keys that scancode_char() knows, shift apart

KBD == 1

\* Scan codes by what the code does with them: "other" are the releases and
\* the keys scancode_char() does not know; "err" is 0xFF, the keyboard's error
\* code, which get_scancode() cannot tell from its own -1; "nul" is 0.
Shifts   == {"lshift", "rshift"}
Releases == {"lshift_up", "rshift_up"}
Errors   == {"err", "nul"}
Bytes    == Keys \cup Shifts \cup Releases \cup Errors \cup {"other"}

ASSUME KeyboardAssumption ==
  /\ KBD \in Lines
  /\ Keys \cap (Shifts \cup Releases \cup Errors \cup {"other", "none"}) = {}

NoChar == [key |-> "none", shift |-> FALSE]          \* the character 0
Chars  == [key : Keys, shift : BOOLEAN] \cup {NoChar}

VARIABLES
  port,       \* the byte a read of port 0x60 yields
  obf,        \* that byte has not been read yet
  kpc,        \* where kbd_handler() is: "off", "first", "second" or "decode"
  sc,         \* its scan code
  last_key,   \* kinfo.last_key
  shift,      \* kinfo.shift
  irq_state,  \* kinfo.irq_state: the mailbox is full
  mpc,        \* where the main program is
  rv          \* what getkey() returned last

kbdVars  == <<port, obf, kpc, sc, last_key, shift, irq_state>>
mainVars == <<mpc, rv>>

VARIABLES
  \* History.
  early,      \* line 1 fired, and its edge is gone, before there was a handler
  held,       \* while paced: the shift keys that are down
  paced,      \* no byte came too soon, none was an error, one shift at a time
  due         \* while paced: the characters typed and not yet returned

history == <<early, held, paced, due>>
vars == <<irqVars, kbdVars, mainVars, history>>

-----------------------------------------------------------------------------
\* Variant: a key that is not in the table is passed on.
scancode_char_any(b) == [key |-> b, shift |-> shift]

\* scancode_char(), which looks at the shift state itself.
scancode_char(b) ==
  IF b \in Keys THEN [key |-> b, shift |-> shift] ELSE NoChar

\* What the person at the keyboard means by the key.
Typed(b) ==
  IF b \in Keys THEN [key |-> b, shift |-> held # {}] ELSE NoChar

Held(b) ==
  CASE b \in Shifts     -> held \cup {b}
    [] b = "lshift_up"  -> held \ {"lshift"}
    [] b = "rshift_up"  -> held \ {"rshift"}
    [] OTHER            -> held

\* The previous byte has been handled and its key taken by the main program.
InTime == KBD \in routines /\ KBD \notin irr /\ kpc = "off" /\ due = <<>>

\* No error code, no release of a shift that is up (the E0 prefixed fake
\* shifts of the cursor keys look so), and never both shifts down.
Orderly(b) ==
  /\ b \notin Errors
  /\ b \in Releases => Held(b) # held
  /\ Cardinality(Held(b)) < 2

\* The controller has the next byte.  A second edge on a pending line is lost.
Load(b) ==
  /\ ~obf
  /\ port' = b
  /\ obf' = TRUE
  /\ irr' = irr \cup {KBD}
  /\ paced' = (paced /\ InTime /\ Orderly(b))
  /\ held' = IF paced' THEN Held(b) ELSE {}
  /\ due' = IF ~paced' THEN <<>>
            ELSE IF b \in Shifts \cup Releases THEN due
            ELSE Append(due, Typed(b))
  /\ UNCHANGED <<isr, if_flag, installed, routines, frames, leaked,
                 kpc, sc, last_key, shift, irq_state, mainVars, early>>

\* The timer's period is longer than the handling of its interrupt.
Tick ==
  /\ \A k \in 1 .. Len(frames) : frames[k].irq = KBD
  /\ \E i \in Lines \ {KBD} : Raise(i)
  /\ UNCHANGED <<kbdVars, mainVars, history>>

-----------------------------------------------------------------------------
(* Interrupts *)

TakeInterrupt(i) ==
  /\ Deliver(i)
  /\ kpc' = IF i = KBD /\ KBD \in routines THEN "first" ELSE kpc
  /\ early' = (early \/ (i = KBD /\ KBD \notin routines))
  /\ UNCHANGED <<port, obf, sc, last_key, shift, irq_state, mainVars,
                 held, paced, due>>

\* irq_handler() for a line without a handler: it only acknowledges.
NoHandler ==
  /\ Running /\ Top.irq \notin routines
  /\ Finish(TRUE)
  /\ UNCHANGED <<kbdVars, mainVars, history>>

\* kbd_handler() returns to irq_handler(), with or without irq_ack(1).
Leave(ack) == Finish(ack) /\ kpc' = "off" /\ sc' = "nul"

\* kbd_handler() acknowledges, except when get_scancode() gave -1.
AckFor(b) == b \notin Errors

\* Variant: a key that finds the mailbox full is left at the port.
ReadWhenEmpty ==
  /\ kpc = "first"
  /\ \/ /\ irq_state
        /\ Leave(TRUE)
        /\ UNCHANGED obf
     \/ /\ ~irq_state
        /\ obf' = FALSE /\ kpc' = "second"
        /\ UNCHANGED <<irqVars, sc>>
  /\ UNCHANGED <<port, last_key, shift, irq_state, mainVars, history>>

\* get_scancode(): the port is read twice.  A first 0 makes the result -1.
ReadFirst ==
  /\ kpc = "first"
  /\ obf' = FALSE
  /\ \/ /\ port = "nul"
        /\ Leave(AckFor("nul"))
     \/ /\ port # "nul"
        /\ kpc' = "second"
        /\ UNCHANGED <<irqVars, sc>>
  /\ UNCHANGED <<port, last_key, shift, irq_state, mainVars, history>>

\* The second read is the result; a 0 is then an ordinary scan code that means
\* nothing, and 0xFF is -1.
ReadSecond ==
  /\ kpc = "second"
  /\ obf' = FALSE
  /\ \/ /\ port = "err"
        /\ Leave(AckFor("err"))
     \/ /\ port # "err"
        /\ sc' = port
        /\ kpc' = "decode"
        /\ UNCHANGED irqVars
  /\ UNCHANGED <<port, last_key, shift, irq_state, mainVars, history>>

\* Variant: only the left shift is known.
ShiftAfterLeft(b) ==
  IF b = "lshift" THEN TRUE ELSE IF b = "lshift_up" THEN FALSE ELSE shift

\* Either shift sets it and either release clears it.
ShiftAfter(b) ==
  IF b \in Shifts THEN TRUE ELSE IF b \in Releases THEN FALSE ELSE shift

\* The rest of kbd_handler().  Every other byte goes into the mailbox,
\* whether or not it is still full, the releases as the character 0.
Decode ==
  /\ kpc = "decode"
  /\ shift' = ShiftAfter(sc)
  /\ IF sc \in Shifts \cup Releases \cup {"nul"}
     THEN UNCHANGED <<last_key, irq_state>>
     ELSE last_key' = scancode_char(sc) /\ irq_state' = TRUE
  /\ Leave(TRUE)
  /\ UNCHANGED <<port, obf, mainVars, history>>

ReturnFromInterrupt == Iret /\ UNCHANGED <<kbdVars, mainVars, history>>

-----------------------------------------------------------------------------
(* The main program: kmain() up to keyboard_init(), then getkey(). *)

InMain(from, to) == frames = <<>> /\ mpc = from /\ mpc' = to

\* A byte that is at the port when the controllers are reset has lost its edge.
Boot ==
  /\ InMain("boot", "devices")
  /\ IrqInstall
  /\ early' = (early \/ obf)
  /\ UNCHANGED <<kbdVars, rv, held, paced, due>>

\* bvga_init() lies between irq_install() and this, with interrupts enabled.
keyboard_init ==
  /\ InMain("devices", "test")
  /\ last_key' = NoChar /\ shift' = FALSE /\ irq_state' = FALSE
  /\ InstallHandler(KBD)
  /\ UNCHANGED <<port, obf, kpc, sc, rv, history>>

\* Variant: nothing marks the mailbox empty.
TestOnly ==
  /\ InMain("test", "fetch")
  /\ irq_state
  /\ UNCHANGED <<irqVars, kbdVars, rv, history>>

\* getkey() has seen the mailbox full.
Test ==
  /\ InMain("test", "clear")
  /\ irq_state
  /\ UNCHANGED <<irqVars, kbdVars, rv, history>>

\* Variant: getkey() reads the mailbox before it marks it empty.
ClearAfterFetch ==
  /\ \/ /\ InMain("clear", "fetch")
        /\ rv' = last_key
        /\ UNCHANGED <<irq_state, due>>
     \/ /\ InMain("fetch", "return")
        /\ irq_state' = FALSE
        /\ due' = IF due = <<>> THEN due ELSE Tail(due)
        /\ UNCHANGED rv
  /\ UNCHANGED <<irqVars, port, obf, kpc, sc, last_key, shift, early, held, paced>>

\* getkey() marks the mailbox empty and then, a step later, reads the key.
Fetch ==
  /\ \/ /\ InMain("clear", "fetch")
        /\ irq_state' = FALSE
        /\ UNCHANGED <<rv, due>>
     \/ /\ InMain("fetch", "return")
        /\ rv' = last_key
        /\ due' = IF due = <<>> THEN due ELSE Tail(due)
        /\ UNCHANGED irq_state
  /\ UNCHANGED <<irqVars, port, obf, kpc, sc, last_key, shift, early, held, paced>>

\* The caller has used the key and calls getkey() again.
Again ==
  /\ InMain("return", "test")
  /\ UNCHANGED <<irqVars, kbdVars, rv, history>>

-----------------------------------------------------------------------------
Init ==
  /\ IrqInit
  /\ port = "other" /\ obf = FALSE
  /\ kpc = "off" /\ sc = "nul"
  /\ last_key = NoChar /\ shift = FALSE /\ irq_state = FALSE
  /\ mpc = "boot" /\ rv = NoChar
  /\ early = FALSE /\ held = {} /\ paced = TRUE /\ due = <<>>

Handler == ReadFirst \/ ReadSecond \/ Decode \/ NoHandler
Main    == Boot \/ keyboard_init \/ Test \/ Fetch \/ Again

Next ==
  \/ \E b \in Bytes : Load(b)
  \/ Tick
  \/ \E i \in Lines : TakeInterrupt(i)
  \/ Handler
  \/ ReturnFromInterrupt
  \/ Main

\* Code that runs goes on running; what interrupts hold up is resumed if they
\* let go of it again and again.
Fairness ==
  /\ WF_vars(Handler)
  /\ \A i \in Lines : SF_vars(TakeInterrupt(i))
  /\ SF_vars(ReturnFromInterrupt)
  /\ SF_vars(Main)

Spec == Init /\ [][Next]_vars /\ Fairness

-----------------------------------------------------------------------------
(* Properties *)

\* Types of the variables.
TypeOK ==
  /\ IrqTypeOK
  /\ port \in Bytes /\ obf \in BOOLEAN
  /\ kpc \in {"off", "first", "second", "decode"}
  /\ sc \in Bytes
  /\ last_key \in Chars /\ shift \in BOOLEAN /\ irq_state \in BOOLEAN
  /\ mpc \in {"boot", "devices", "test", "clear", "fetch", "return"}
  /\ rv \in Chars
  /\ early \in BOOLEAN /\ held \subseteq Shifts /\ paced \in BOOLEAN
  /\ due \in Seq(Chars) /\ Len(due) <= 1

\* The keyboard will never be read again: line 1 stays in service because its
\* handler returned without irq_ack(), or a byte from before keyboard_init()
\* sits at the port and no edge announces it any more.
Deaf == KBD \in leaked \/ early

\* Nothing else can make the driver overlook a byte: an unread byte has an
\* edge pending or a handler about to read it, however the bytes interleave
\* with the two reads of get_scancode().
UnreadIsPending ==
  obf => KBD \in irr \/ kpc \in {"first", "second"} \/ Deaf

\* getkey() waits only when it has returned the latest key: a key that comes
\* while it empties the mailbox may be returned twice but is not lost.
LatestNotLost == mpc = "test" /\ ~irq_state => rv = last_key

\* Someone who types no faster than the main program asks, gets each character
\* once, in order, shifted as the shift keys were down.
PacedExact ==
  [][paced /\ mpc = "fetch" /\ mpc' = "return" => due = <<rv'>>]_vars

\* A byte at the port is read in the end, or the keyboard is deaf.
ReadUnlessDeaf == obf ~> ~obf \/ Deaf

\* A key in the mailbox is taken by getkey() in the end, unless bytes come so
\* fast, for ever, that interrupts leave the main program no time at all.
MailboxEmptied == []<>(frames = <<>>) => (irq_state ~> ~irq_state)

\* README.md:3 lists the PS/2 keyboard as a feature: what it sends while the
\* driver is up and the main program waits for it is read in the end.
KeyboardWorks == (obf /\ mpc = "test" /\ ~early) ~> ~obf
=============================================================================
