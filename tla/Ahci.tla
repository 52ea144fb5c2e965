-------------------------------- MODULE Ahci --------------------------------
(***************************************************************************)
(* The AHCI driver of ahci.c: the probe at boot, which stops, sets up and  *)
(* starts a port for every SATA drive it finds, and read().  The probe     *)
(* passes the first port of the controller for each drive, whatever port   *)
(* the drive is at; this is a model of that port.                          *)
(*                                                                         *)
(* The controller is external.  The engine that issues commands follows ST *)
(* and reports itself in CR, the one that receives follows FRE and reports *)
(* itself in FR; both take their time.  Commands of CI complete in any     *)
(* order or fail, which sets TFES and stops all of them until ST is taken  *)
(* away; that also clears CI.                                              *)
(*                                                                         *)
(* A command is known by the number of sectors it asks for.  Addresses are *)
(* left out, and so is SACT, which only queued commands use.               *)
(***************************************************************************)
EXTENDS Integers, FiniteSets, FiniteSetsExt

CONSTANTS
  NCS,        \* the field of CAP: the controller has NCS + 1 slots
  Counts,     \* numbers of sectors that read() is called for
  MaxSpin,    \* 1000000: how often read() looks whether the drive is busy
  MaxDrives   \* bound on the SATA drives that a probe finds

Slots == 0 .. NCS
None  == 0
Spoilt == -1       \* what a table holds that was overrun
MaxCount == 16 * 65535   \* the number of entries has 16 bits

ASSUME AhciAssumption ==
  /\ NCS \in 0 .. 31
  /\ Counts \subseteq 1 .. MaxCount
  /\ MaxSpin \in Nat \ {0}
  /\ MaxDrives \in Nat

VARIABLES
  st, fre,    \* PxCMD.ST and FRE, written by the driver
  cr, fr,     \* PxCMD.CR and FR, written by the controller
  ci,         \* PxCI
  tfes,       \* PxIS.TFES
  busy,       \* PxTFD: BSY or DRQ
  halted,     \* the controller works on no command since one has failed
  tables      \* what the table of each slot asks for

port == <<st, fre, cr, fr, ci, tfes, busy, halted, tables>>

VARIABLES
  pc,         \* where the driver is; "idle" when it is not called
  drives,     \* SATA drives that the probe has still to find
  count, slot, spin,    \* of read()
  result      \* what read() returned last

driver == <<pc, drives, count, slot, spin, result>>

VARIABLES
  \* History.
  moved,      \* sectors that the last command issued has moved, if completed
  late        \* it was issued to a port that works on no command

history == <<moved, late>>
vars == <<port, driver, history>>

Goto(from, to) == pc = from /\ pc' = to

-----------------------------------------------------------------------------
(* The controller. *)

\* CR and FR follow ST and FRE.
Follow ==
  /\ \/ cr' = st /\ cr # st /\ UNCHANGED fr
     \/ fr' = fre /\ fr # fre /\ UNCHANGED cr
  /\ UNCHANGED <<st, fre, ci, tfes, busy, halted, tables, driver, history>>

Working(s) == st /\ cr /\ ~halted /\ s \in ci

\* What a table makes the drive transfer; of a spoilt one nobody knows.
Transferred(s) == IF tables[s] = Spoilt THEN {0} \cup Counts ELSE {tables[s]}

Complete(s) ==
  /\ Working(s)
  /\ ci' = ci \ {s}
  /\ busy' = FALSE
  /\ moved' \in IF s = slot THEN Transferred(s) ELSE {moved}
  /\ UNCHANGED <<st, fre, cr, fr, tfes, halted, tables, driver, late>>

\* The command may or may not be taken off CI when it fails.
Fail(s) ==
  /\ Working(s)
  /\ tfes' = TRUE /\ halted' = TRUE
  /\ ci' \in {ci, ci \ {s}}
  /\ busy' \in BOOLEAN
  /\ UNCHANGED <<st, fre, cr, fr, tables, driver, history>>

\* The drive is busy of its own accord, or no longer.
Busy ==
  /\ busy' = ~busy
  /\ UNCHANGED <<st, fre, cr, fr, ci, tfes, halted, tables, driver, history>>

-----------------------------------------------------------------------------
(* The probe. *)

\* ahci_probe_port() goes on to the next drive, or returns.
Probe ==
  /\ \/ drives > 0 /\ Goto("probe", "stop") /\ drives' = drives - 1
     \/ drives = 0 /\ Goto("probe", "idle") /\ UNCHANGED drives
  /\ UNCHANGED <<port, count, slot, spin, result, history>>

StopCommands ==
  /\ Goto("stop", "fr")
  /\ st' = FALSE /\ ci' = {} /\ halted' = FALSE
  /\ UNCHANGED <<fre, cr, fr, tfes, busy, tables, drives, count, slot, spin,
                 result, history>>

\* The loop of ahci_stop_command_system() waits for both engines, and only
\* after it is FRE taken away.
AwaitStop ==
  /\ \/ ~fr /\ Goto("fr", "cr")
     \/ cr /\ Goto("cr", "fr")
  /\ UNCHANGED <<port, drives, count, slot, spin, result, history>>

StopReceiving ==
  /\ ~cr
  /\ Goto("cr", "rebase")
  /\ fre' = FALSE
  /\ UNCHANGED <<st, cr, fr, ci, tfes, busy, halted, tables, drives, count,
                 slot, spin, result, history>>

\* ahci_port_rebase() clears the list and the tables.
Rebase ==
  /\ Goto("rebase", "start")
  /\ tables' = [s \in Slots |-> None]
  /\ UNCHANGED <<st, fre, cr, fr, ci, tfes, busy, halted, drives, count, slot,
                 spin, result, history>>

\* ahci_start_command_system(): FRE, then ST.
Start ==
  /\ \/ ~cr /\ Goto("start", "st") /\ fre' = TRUE /\ UNCHANGED st
     \/ Goto("st", "probe") /\ st' = TRUE /\ UNCHANGED fre
  /\ UNCHANGED <<cr, fr, ci, tfes, busy, halted, tables, drives, count, slot,
                 spin, result, history>>

-----------------------------------------------------------------------------
(* read() *)

Read(n) ==
  /\ Goto("idle", "slot")
  /\ count' = n /\ spin' = 0
  /\ tfes' = FALSE
  /\ UNCHANGED <<st, fre, cr, fr, ci, busy, halted, tables, drives, slot, result,
                 history>>

\* What CAP says, as find_cmdslot() reads it: four bits of five, and without
\* the one that has to be added.
cmdslots == NCS % 16

\* Variant: whether a slot is in use is not looked at.
AnySlot == {s \in Slots : s < cmdslots}

Candidates == {s \in Slots : s < cmdslots /\ s \notin ci}

find_cmdslot ==
  /\ \/ /\ Candidates # {} /\ Goto("slot", "setup")
        /\ slot' = Min(Candidates)
        /\ UNCHANGED result
     \/ /\ Candidates = {} /\ Goto("slot", "idle")
        /\ result' = FALSE
        /\ UNCHANGED slot
  /\ UNCHANGED <<port, drives, count, spin, history>>

\* 16 sectors to each entry; the loop that fills the entries takes 16 off
\* count each time, so that the command asks for what is left of it.
prdtl(n) == ((n - 1) \div 16 + 1) % 65536

\* Variant: the loop runs once too often.
LeftTooLittle(n) == n - 16 * prdtl(n)

Left(n) == n - 16 * (prdtl(n) - 1)

\* A table is 128 bytes and 16 for each entry; there are 256 to each slot.
Spanned(s, n) == {t \in Slots : s <= t /\ (t - s) * 256 < 128 + 16 * prdtl(n)}

Setup ==
  /\ Goto("setup", "spin")
  /\ tables' = [t \in Slots |-> IF t = slot THEN Left(count)
                                ELSE IF t \in Spanned(slot, count) THEN Spoilt
                                ELSE tables[t]]
  /\ UNCHANGED <<st, fre, cr, fr, ci, tfes, busy, halted, drives, count, slot,
                 spin, result, history>>

Spin ==
  /\ pc = "spin"
  /\ \/ busy /\ spin < MaxSpin /\ spin' = spin + 1 /\ UNCHANGED <<pc, result>>
     \/ /\ ~busy \/ spin = MaxSpin
        /\ IF spin = MaxSpin
           THEN pc' = "idle" /\ result' = FALSE
           ELSE pc' = "issue" /\ UNCHANGED result
        /\ UNCHANGED spin
  /\ UNCHANGED <<port, drives, count, slot, history>>

Issue ==
  /\ Goto("issue", "ci")
  /\ ci' = ci \cup {slot}
  /\ moved' = None
  /\ late' = (halted \/ ~st)
  /\ UNCHANGED <<st, fre, cr, fr, tfes, busy, halted, tables, drives, count,
                 slot, spin, result>>

\* Variant: the loop that waits looks at CI only.
AwaitCI ==
  /\ slot \notin ci /\ Goto("ci", "check")
  /\ UNCHANGED <<port, drives, count, slot, spin, result, history>>

\* The loop that waits looks at CI and at TFES in turn.
Await ==
  /\ \/ slot \notin ci /\ Goto("ci", "check") /\ UNCHANGED result
     \/ slot \in ci /\ Goto("ci", "tfes") /\ UNCHANGED result
     \/ ~tfes /\ Goto("tfes", "ci") /\ UNCHANGED result
     \/ tfes /\ Goto("tfes", "idle") /\ result' = FALSE
  /\ UNCHANGED <<port, drives, count, slot, spin, history>>

\* Variant: TFES is not looked at again.
TrustCI == TRUE

\* Whether the command is taken to have succeeded once it is off CI.
Succeeded == ~tfes

Check ==
  /\ Goto("check", "idle")
  /\ result' = Succeeded
  /\ UNCHANGED <<port, drives, count, slot, spin, history>>

-----------------------------------------------------------------------------
\* What the firmware leaves behind: a port at rest, or with engines running.
Init ==
  /\ st \in BOOLEAN /\ fre \in BOOLEAN /\ (st => fre)
  /\ cr = st /\ fr = fre
  /\ ci = {} /\ tfes \in BOOLEAN /\ busy \in BOOLEAN /\ halted = FALSE
  /\ tables = [s \in Slots |-> Spoilt]
  /\ pc = "probe" /\ drives \in 0 .. MaxDrives
  /\ count = 0 /\ slot = 0 /\ spin = 0 /\ result = FALSE
  /\ moved = None /\ late = FALSE

Answer == \E s \in Slots : Complete(s) \/ Fail(s)

Driver ==
  \/ Probe \/ StopCommands \/ AwaitStop \/ StopReceiving \/ Rebase \/ Start
  \/ find_cmdslot \/ Setup \/ Spin \/ Issue \/ Await \/ Check

Next ==
  \/ Follow \/ Answer \/ Busy
  \/ Driver
  \/ \E n \in Counts : Read(n)

\* The code runs on; the controller follows its control bits, and answers.
Fairness == WF_vars(Driver) /\ WF_vars(Follow) /\ WF_vars(Answer)

Spec == Init /\ [][Next]_vars /\ Fairness

-----------------------------------------------------------------------------
(* Properties *)

\* Types of the variables.
TypeOK ==
  /\ {st, fre, cr, fr, tfes, busy, halted, result, late} \subseteq BOOLEAN
  /\ ci \subseteq Slots
  /\ tables \in [Slots -> {None, Spoilt} \cup 1 .. 16]
  /\ pc \in {"probe", "stop", "fr", "cr", "rebase", "start", "st", "idle",
             "slot", "setup", "spin", "issue", "ci", "tfes", "check"}
  /\ drives \in 0 .. MaxDrives
  /\ count \in Counts \cup {0} /\ slot \in Slots /\ spin \in 0 .. MaxSpin
  /\ moved \in Counts \cup 0 .. 16

\* read() returns true only when its own command has completed, after any
\* earlier failures; and up to 16 sectors that command is for what was asked.
TrueMeansRead ==
  [][Goto("check", "idle") /\ result' =>
       moved # None /\ (count <= 16 => moved = count)]_vars

\* While a command is issued nothing touches its table, neither a later read()
\* nor a rebase, as long as no table needs more than its eight entries.
TablesKept ==
  [][\A s \in ci : tables'[s] # tables[s] => prdtl(count) > 8]_vars

\* The driver is in the loop that waits for FR, which will not fall before
\* FRE does: a second drive, or a port that firmware has left receiving.
Hung == pc = "fr" /\ fr /\ fre

\* Apart from that, and from a command issued to a port that has stopped on an
\* error or was never started, the probe and every read() come to an end.
CallsEnd == pc # "idle" ~> pc = "idle" \/ Hung \/ late

=============================================================================
