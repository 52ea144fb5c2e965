----------------------------- MODULE AhciProofs -----------------------------
(***************************************************************************)
(* Proofs about Ahci.tla, for every number of slots, every set of sector   *)
(* counts and any number of drives and of failures.                        *)
(*                                                                         *)
(* What read() relies on is that no command but its own is in its slot     *)
(* from the moment the slot was found free, and that the controller takes  *)
(* a command off CI only when it has completed it, or with TFES set, which *)
(* stays set until the next read().                                        *)
(***************************************************************************)
EXTENDS Ahci, WellFoundedInduction, TLAPS

Stopping == {"fr", "cr", "rebase"}
Filling  == {"setup", "spin", "issue"}
Filled   == {"spin", "issue", "ci", "tfes", "check"}
Issued   == {"ci", "tfes", "check"}

\* No command is left when a rebase clears the tables.
Emptied == pc \in Stopping => ci = {}

\* read() has a slot that no command is in, ...
Claimed ==
  /\ pc \in Filling => slot \notin ci
  /\ pc \in {"slot"} \cup Filling \cup Filled => count \in Counts

\* ... whose table asks for what is to be read, ...
Written == pc \in Filled => tables[slot] = Left(count)

\* ... and without a failure the command is done once it is off CI.
Outcome ==
  /\ pc \in Issued /\ slot \notin ci /\ ~tfes => moved = Left(count)
  /\ pc = "check" => slot \notin ci

AInv == TypeOK /\ Emptied /\ Claimed /\ Written /\ Outcome

-----------------------------------------------------------------------------
LEMMA SlotFacts ==
  /\ NCS \in 0 .. 31 /\ 0 \in Slots /\ Slots \subseteq Nat
  /\ cmdslots \in Nat
  /\ MaxSpin \in Nat
<1>0. MaxSpin \in Nat
  BY AhciAssumption
<1>1. NCS \in 0 .. 31
  BY AhciAssumption
<1>2. NCS % 16 \in 0 .. 15
  BY <1>1
<1> QED
  BY <1>0, <1>1, <1>2 DEF Slots, cmdslots

\* A nonempty set of numbers has a least one.
LEMMA MinIn ==
  ASSUME NEW S, S \subseteq Nat, S # {}
  PROVE  Min(S) \in S
<1> DEFINE R == OpToRel(<, Nat)
<1>1. IsWellFoundedOn(R, Nat)
  BY NatLessThanWellFounded
<1>2. \A x, y \in Nat : x < y => <<x, y>> \in R
  BY DEF OpToRel
<1> HIDE DEF R
<1>3. PICK x \in S : \A y \in S : ~ (<<y, x>> \in R)
  BY <1>1, WFMin
<1>4. \A y \in S : x \in Nat /\ y \in Nat /\ ~(y < x)
  BY <1>2, <1>3
<1>5. \A y \in S : x <= y
  BY <1>4
<1> QED
  BY <1>5 DEF Min

\* The command that is built for n sectors asks for at most one entry of
\* them, and for all of them if they fit.
LEMMA LeftFacts ==
  ASSUME NEW n \in Counts
  PROVE  /\ n \in Nat /\ prdtl(n) \in Nat
         /\ Left(n) \in Nat /\ 1 <= Left(n) /\ Left(n) <= 16
         /\ n <= 16 => Left(n) = n
<1>1. MaxCount \in Int
  BY SMT DEF MaxCount
<1>2. n \in 1 .. MaxCount
  BY AhciAssumption
<1>3. n \in Int /\ 1 <= n /\ n <= MaxCount
  BY <1>1, <1>2
<1>4. n \in Nat /\ 1 <= n /\ n <= 1048560
  <2>1. MaxCount = 1048560
    BY SMT DEF MaxCount
  <2> QED
    BY <1>3, <2>1, SMT
<1>5. PICK q \in Nat : q = (n - 1) \div 16
  BY <1>4, SMT
<1>6. 16 * q <= n - 1 /\ n - 1 < 16 * q + 16
  BY <1>4, <1>5, SMT
<1>7. prdtl(n) = q + 1
  <2>1. q + 1 \in Nat /\ q + 1 < 65536
    BY <1>4, <1>6, SMT
  <2>2. (q + 1) % 65536 = q + 1
    BY <2>1, SMT
  <2> QED
    BY <1>5, <2>2, SMT DEF prdtl
<1> QED
  BY <1>4, <1>6, <1>7, SMT DEF Left

LEMMA Boots ==
  ASSUME Init
  PROVE  AInv
<1>1. TypeOK
  <2>1. {st, fre, cr, fr, tfes, busy, halted, result, late} \subseteq BOOLEAN
    BY DEF Init
  <2>2. tables \in [Slots -> {None, Spoilt} \cup 1 .. 16]
    BY DEF Init
  <2>3. spin \in 0 .. MaxSpin /\ slot \in Slots /\ moved \in 0 .. 16
    BY SlotFacts, AhciAssumption DEF Init, None
  <2> QED
    BY <2>1, <2>2, <2>3 DEF Init, TypeOK
<1> QED
  BY <1>1 DEF Init, AInv, Emptied, Claimed, Written, Outcome, Stopping,
              Filling, Filled, Issued

\* A command that is completed has moved what its table asks for.
LEMMA Completes ==
  ASSUME AInv, NEW s \in Slots, Complete(s)
  PROVE  AInv'
<1>1. /\ s \in ci /\ ci' = ci \ {s} /\ busy' = FALSE
      /\ moved' \in IF s = slot THEN Transferred(s) ELSE {moved}
      /\ UNCHANGED <<st, fre, cr, fr, tfes, halted, tables, pc, drives, count,
                     slot, spin, result, late>>
  BY DEF Complete, Working, driver
<1>2. moved' \in Counts \cup 0 .. 16
  BY <1>1 DEF AInv, TypeOK, Transferred, None, Spoilt
<1>3. TypeOK'
  BY <1>1, <1>2 DEF AInv, TypeOK
<1>4. Outcome'
  <2>1. CASE s = slot /\ pc \in Issued
    <3>1. /\ tables[slot] = Left(count) /\ count \in Counts
          /\ Left(count) # Spoilt
      BY <2>1, LeftFacts DEF AInv, Written, Claimed, Issued, Filled, Spoilt
    <3> QED
      BY <1>1, <2>1, <3>1 DEF AInv, Outcome, Transferred
  <2>2. CASE s # slot \/ pc \notin Issued
    BY <1>1, <2>2 DEF AInv, Outcome, Issued
  <2> QED
    BY <2>1, <2>2
<1> QED
  BY <1>1, <1>3, <1>4 DEF AInv, Emptied, Claimed, Written

LEMMA Fails ==
  ASSUME AInv, NEW s \in Slots, Fail(s)
  PROVE  AInv'
<1>1. /\ s \in ci /\ ci' \in {ci, ci \ {s}} /\ busy' \in BOOLEAN
      /\ tfes' = TRUE /\ halted' = TRUE
      /\ UNCHANGED <<st, fre, cr, fr, tables, pc, drives, count,
                     slot, spin, result, moved, late>>
  BY DEF Fail, Working, driver, history
<1>2. TypeOK'
  BY <1>1 DEF AInv, TypeOK
<1> QED
  BY <1>1, <1>2 DEF AInv, Emptied, Claimed, Written, Outcome

LEMMA PortMoves ==
  ASSUME AInv, Follow \/ Busy
  PROVE  AInv'
<1>1. UNCHANGED <<st, fre, ci, tfes, halted, tables, pc, drives, count,
                  slot, spin, result, moved, late>>
  BY DEF Follow, Busy, driver, history
<1>2. {cr, fr, busy}' \subseteq BOOLEAN
  BY DEF AInv, TypeOK, Follow, Busy
<1>3. TypeOK'
  BY <1>1, <1>2 DEF AInv, TypeOK
<1> QED
  BY <1>1, <1>3 DEF AInv, Emptied, Claimed, Written, Outcome

\* The probe; it clears the tables with no command left.
LEMMA Probes ==
  ASSUME AInv,
         Probe \/ StopCommands \/ AwaitStop \/ StopReceiving \/ Rebase \/ Start
  PROVE  AInv'
<1>1. UNCHANGED <<cr, fr, tfes, busy, count, slot, spin, result, moved, late>>
  BY DEF Probe, StopCommands, AwaitStop, StopReceiving, Rebase, Start, port,
         history
<1>2. TypeOK'
  <2>1. CASE Probe
    <3>1. MaxDrives \in Nat
      BY AhciAssumption
    <3>2. drives' \in 0 .. MaxDrives
      BY <2>1, <3>1 DEF AInv, TypeOK, Probe
    <3> QED
      BY <1>1, <2>1, <3>2 DEF AInv, TypeOK, Probe, Goto, port
  <2>2. CASE StopCommands
    BY <1>1, <2>2 DEF AInv, TypeOK, StopCommands, Goto
  <2>3. CASE AwaitStop
    BY <1>1, <2>3 DEF AInv, TypeOK, AwaitStop, Goto, port
  <2>4. CASE StopReceiving
    BY <1>1, <2>4 DEF AInv, TypeOK, StopReceiving, Goto
  <2>5. CASE Rebase
    BY <1>1, <2>5 DEF AInv, TypeOK, Rebase, Goto
  <2>6. CASE Start
    BY <1>1, <2>6 DEF AInv, TypeOK, Start, Goto
  <2> QED
    BY <2>1, <2>2, <2>3, <2>4, <2>5, <2>6
<1>3. /\ pc' \notin {"slot"} \cup Filling \cup Filled \cup Issued
      /\ Emptied'
  BY DEF AInv, Emptied, Probe, StopCommands, AwaitStop, StopReceiving, Rebase,
         Start, Goto, Stopping, Filling, Filled, Issued, port
<1> QED
  BY <1>2, <1>3 DEF AInv, Claimed, Written, Outcome, Issued

\* read(), up to its command and from there to its end.
LEMMA Prepares ==
  ASSUME AInv, (\E n \in Counts : Read(n)) \/ find_cmdslot \/ Spin
  PROVE  AInv'
<1>1. UNCHANGED <<st, fre, cr, fr, ci, busy, halted, tables, drives, moved, late>>
  BY DEF Read, find_cmdslot, Spin, port, history
<1>2. CASE \E n \in Counts : Read(n)
  <2>1. PICK n \in Counts : Read(n)
    BY <1>2
  <2>2. /\ pc' = "slot" /\ count' = n /\ spin' = 0 /\ tfes' = FALSE
        /\ UNCHANGED <<slot, result>>
    BY <2>1 DEF Read, Goto
  <2>3. TypeOK'
    <3>1. tfes' \in BOOLEAN
      BY <2>2
    <3>2. MaxSpin \in Nat
      BY SlotFacts
    <3>3. spin' \in 0 .. MaxSpin
      BY <2>2, <3>2
    <3> QED
      BY <1>1, <2>2, <3>1, <3>3 DEF AInv, TypeOK
  <2> QED
    BY <2>2, <2>3 DEF AInv, Emptied, Claimed, Written, Outcome, Stopping,
                      Filling, Filled, Issued
<1>3. CASE find_cmdslot
  <2>1. pc = "slot" /\ UNCHANGED <<tfes, count, spin>>
    BY <1>3 DEF find_cmdslot, Goto, port
  <2>2. CASE Candidates # {} /\ pc' = "setup" /\ slot' = Min(Candidates)
             /\ UNCHANGED result
    <3>1. Candidates \subseteq Nat /\ Candidates \subseteq Slots \ ci
      BY SlotFacts DEF Candidates
    <3>2. slot' \in Candidates
      BY <2>2, <3>1, MinIn
    <3>3. TypeOK' /\ slot' \notin ci
      BY <1>1, <2>1, <2>2, <3>1, <3>2 DEF AInv, TypeOK
    <3> QED
      BY <1>1, <2>1, <2>2, <3>3 DEF AInv, Emptied, Claimed, Written, Outcome,
                                    Stopping, Filling, Filled, Issued
  <2>3. CASE pc' = "idle" /\ result' = FALSE /\ UNCHANGED slot
    <3>1. TypeOK'
      BY <1>1, <2>1, <2>3 DEF AInv, TypeOK
    <3> QED
      BY <2>3, <3>1 DEF AInv, Emptied, Claimed, Written, Outcome, Stopping,
                        Filling, Filled, Issued
  <2> QED
    BY <1>3, <2>2, <2>3 DEF find_cmdslot, Goto
<1>4. CASE Spin
  <2>1. /\ pc = "spin" /\ UNCHANGED <<tfes, count, slot>>
        /\ pc' \in {"spin", "idle", "issue"}
        /\ spin' \in 0 .. MaxSpin /\ result' \in BOOLEAN
    <3>1. spin \in 0 .. MaxSpin /\ result \in BOOLEAN
      BY DEF AInv, TypeOK
    <3>2. pc = "spin" /\ UNCHANGED <<tfes, count, slot>>
      BY <1>4 DEF Spin, port
    <3>3. CASE busy /\ spin < MaxSpin /\ spin' = spin + 1 /\ UNCHANGED <<pc, result>>
      BY <3>1, <3>2, <3>3, SlotFacts
    <3>4. CASE /\ UNCHANGED spin
               /\ IF spin = MaxSpin THEN pc' = "idle" /\ result' = FALSE
                                    ELSE pc' = "issue" /\ UNCHANGED result
      BY <3>1, <3>2, <3>4
    <3> QED
      BY <1>4, <3>3, <3>4 DEF Spin
  <2>2. TypeOK'
    BY <1>1, <2>1 DEF AInv, TypeOK
  <2> QED
    BY <1>1, <2>1, <2>2 DEF AInv, Emptied, Claimed, Written, Outcome, Stopping,
                            Filling, Filled, Issued
<1> QED
  BY <1>2, <1>3, <1>4

LEMMA Sets ==
  ASSUME AInv, Setup
  PROVE  AInv'
<1>1. /\ pc = "setup" /\ pc' = "spin"
      /\ tables' = [t \in Slots |-> IF t = slot THEN Left(count)
                                    ELSE IF t \in Spanned(slot, count) THEN Spoilt
                                    ELSE tables[t]]
      /\ UNCHANGED <<st, fre, cr, fr, ci, tfes, busy, halted, drives, count,
                     slot, spin, result, moved, late>>
  BY DEF Setup, Goto, history
<1>2. count \in Counts /\ slot \notin ci /\ slot \in Slots
  BY <1>1 DEF AInv, Claimed, Filling, TypeOK
<1>3. Left(count) \in 1 .. 16
  BY <1>2, LeftFacts
<1>4. /\ tables' \in [Slots -> {None, Spoilt} \cup 1 .. 16]
      /\ tables'[slot] = Left(count)
  <2>1. tables \in [Slots -> {None, Spoilt} \cup 1 .. 16]
    BY DEF AInv, TypeOK
  <2> QED
    BY <1>1, <1>2, <1>3, <2>1
<1>5. TypeOK'
  BY <1>1, <1>4 DEF AInv, TypeOK
<1>6. Left(count)' = Left(count)
  BY <1>1 DEF Left, prdtl
<1> QED
  BY <1>1, <1>2, <1>4, <1>5, <1>6 DEF AInv, Emptied, Claimed, Written, Outcome,
                            Stopping, Filling, Filled, Issued

LEMMA Issues ==
  ASSUME AInv, Issue
  PROVE  AInv'
<1>1. /\ pc = "issue" /\ pc' = "ci"
      /\ ci' = ci \cup {slot} /\ moved' = None /\ late' = (halted \/ ~st)
      /\ UNCHANGED <<st, fre, cr, fr, tfes, busy, halted, tables, drives, count,
                     slot, spin, result>>
  BY DEF Issue, Goto
<1>2. TypeOK'
  <2>1. late' \in BOOLEAN /\ moved' \in 0 .. 16
    BY <1>1 DEF None
  <2> QED
    BY <1>1, <2>1 DEF AInv, TypeOK
<1>3. Left(count)' = Left(count)
  BY <1>1 DEF Left, prdtl
<1> QED
  BY <1>1, <1>2, <1>3 DEF AInv, Emptied, Claimed, Written, Outcome, Stopping,
                     Filling, Filled, Issued

LEMMA Awaits ==
  ASSUME AInv, Await \/ Check
  PROVE  AInv'
<1>1. /\ pc \in Issued
      /\ pc' \in Issued \cup {"idle"} /\ (pc' = "check" => slot \notin ci)
      /\ UNCHANGED <<st, fre, cr, fr, ci, tfes, busy, halted, tables, drives,
                     count, slot, spin, moved, late>>
  BY DEF Await, Check, Goto, Issued, port, history
<1>2. result' \in BOOLEAN
  BY DEF Await, Check, Succeeded, AInv, TypeOK
<1>3. TypeOK'
  BY <1>1, <1>2 DEF AInv, TypeOK, Issued
<1> QED
  BY <1>1, <1>3 DEF AInv, Emptied, Claimed, Written, Outcome, Stopping,
                    Filling, Filled, Issued

\* AInv is inductive: what the driver has chosen, written and issued is what
\* the tables and CI show, whatever the controller does meanwhile.
THEOREM AhciInvariance == Spec => []AInv
<1>1. Init => AInv
  BY Boots
<1>2. AInv /\ [Next]_vars => AInv'
  <2> SUFFICES ASSUME AInv, [Next]_vars PROVE AInv'
    OBVIOUS
  <2>1. CASE Next
    BY <2>1, Completes, Fails, PortMoves, Probes, Prepares, Sets, Issues, Awaits
    DEF Next, Answer, Driver
  <2>2. CASE UNCHANGED vars
    BY <2>2 DEF vars, port, driver, history, AInv, TypeOK, Emptied, Claimed,
                Written, Outcome
  <2> QED
    BY <2>1, <2>2
<1> QED
  BY <1>1, <1>2, PTL DEF Spec
-----------------------------------------------------------------------------
(* What it says. *)

\* The registers and the variables of the driver have their types: a slot is
\* one of the controller's, and a table asks for at most sixteen sectors.
THEOREM AhciTypes == Spec => []TypeOK
<1>1. AInv => TypeOK
  BY DEF AInv
<1> QED
  BY <1>1, AhciInvariance, PTL

\* read() returns true only when its command has completed, and up to sixteen
\* sectors all that was asked for has been moved, whatever failed before.
THEOREM TrueIsRead == Spec => TrueMeansRead
<1>1. ASSUME AInv, Goto("check", "idle"), result', Next
      PROVE  moved # None /\ (count <= 16 => moved = count)
  <2>1. Check
    <3>1. pc = "check" /\ pc' = "idle" /\ pc' # pc
      BY <1>1 DEF Goto
    <3> QED
      BY <1>1, <3>1 DEF Next, Follow, Answer, Complete, Fail, Busy, Driver,
           Probe, StopCommands, AwaitStop, StopReceiving, Rebase, Start,
           find_cmdslot, Setup, Spin, Issue, Await, Read, Goto, driver
  <2>2. ~tfes
    BY <1>1, <2>1 DEF Check, Succeeded
  <2>3. count \in Counts /\ moved = Left(count)
    BY <1>1, <2>2 DEF AInv, Claimed, Outcome, Goto, Filled, Issued
  <2> QED
    BY <2>3, LeftFacts DEF None
<1>2. AInv /\ [Next]_vars =>
        [Goto("check", "idle") /\ result' =>
           moved # None /\ (count <= 16 => moved = count)]_vars
  BY <1>1
<1> QED
  BY <1>2, AhciInvariance, PTL DEF Spec, TrueMeansRead

\* The table of a command under way stays as it is, unless a read() needs more
\* entries than a table has, whatever slots are in use and however often the
\* port is set up again.
THEOREM TablesStay == Spec => TablesKept
<1>1. ASSUME AInv, [Next]_vars, NEW s \in ci, tables'[s] # tables[s]
      PROVE  prdtl(count) > 8
  <2>1. Setup \/ Rebase
    BY <1>1 DEF Next, Follow, Answer, Complete, Fail, Busy, Driver, Probe,
         StopCommands, AwaitStop, StopReceiving, Start, find_cmdslot, Spin,
         Issue, Await, Check, Read, vars, port
  <2>2. ~Rebase
    BY <1>1 DEF AInv, Emptied, Rebase, Goto, Stopping
  <2>3. Setup
    BY <2>1, <2>2
  <2>4. /\ slot \in Slots /\ s \in Slots /\ s # slot /\ count \in Counts
    BY <1>1, <2>3 DEF AInv, Claimed, TypeOK, Setup, Goto, Filling
  <2>5. s \in Spanned(slot, count)
    BY <1>1, <2>3, <2>4 DEF Setup
  <2>6. slot <= s /\ (s - slot) * 256 < 128 + 16 * prdtl(count)
    BY <2>5 DEF Spanned
  <2>7. s - slot \in Nat /\ s - slot >= 1 /\ prdtl(count) \in Int
    BY <2>4, <2>6, SlotFacts, LeftFacts
  <2> QED
    BY <2>6, <2>7
<1>2. AInv /\ [Next]_vars =>
        [\A s \in ci : tables'[s] # tables[s] => prdtl(count) > 8]_vars
  BY <1>1
<1> QED
  BY <1>2, AhciInvariance, PTL DEF Spec, TablesKept

\* Unless the command was issued too late, read() waits for a controller that
\* works on it or will, once CR has followed ST; or the error bit is set.
Answered == pc \in Issued /\ ~late => st /\ (halted => tfes)

LEMMA StaysAnswered ==
  ASSUME Answered, Next
  PROVE  Answered'
<1>1. CASE Follow \/ Answer \/ Busy
  BY <1>1 DEF Follow, Answer, Complete, Fail, Busy, driver, history, Answered
<1>2. CASE Issue
  BY <1>2 DEF Issue, Answered
<1>3. CASE pc' \notin Issued
  BY <1>3 DEF Answered, Issued
<1>4. CASE pc' \in Issued /\ ~Issue /\ (Driver \/ \E n \in Counts : Read(n))
  <2>1. Await
    BY <1>4 DEF Driver, Probe, StopCommands, AwaitStop, StopReceiving, Rebase,
         Start, find_cmdslot, Setup, Spin, Check, Read, Goto, Issued
  <2>2. UNCHANGED <<late, st, halted, tfes>> /\ pc \in Issued
    BY <2>1 DEF Await, Goto, Issued, port, history
  <2> QED
    BY <2>2 DEF Answered
<1> QED
  BY <1>1, <1>2, <1>3, <1>4 DEF Next

\* read() never waits for what cannot come: a command that was issued in time
\* is worked on, or has failed and TFES says so.
THEOREM NoVainWait ==
  Spec => [](pc \in {"ci", "tfes"} /\ ~late => st /\ (halted => tfes))
<1>1. Init => Answered
  BY DEF Init, Answered, Issued
<1>2. Answered /\ UNCHANGED vars => Answered'
  BY DEF vars, port, driver, history, Answered, Issued
<1>3. Answered /\ [Next]_vars => Answered'
  BY <1>2, StaysAnswered
<1>4. Answered => (pc \in {"ci", "tfes"} /\ ~late => st /\ (halted => tfes))
  BY DEF Answered, Issued
<1> QED
  BY <1>1, <1>3, <1>4, PTL DEF Spec

-----------------------------------------------------------------------------
(* What goes wrong for good.                                               *)

\* Once ahci_stop_command_system() is called on a port that is receiving it
\* never returns, since it takes FRE away only after FR has fallen.
THEOREM StopNeverEnds ==
  Spec => [][fr /\ fre /\ pc \in {"stop", "fr"} =>
               fr' /\ fre' /\ pc' \in {"stop", "fr"}]_vars
<1>1. ASSUME Next, fr, fre, pc \in {"stop", "fr"}
      PROVE  fr' /\ fre' /\ pc' \in {"stop", "fr"}
  <2>1. CASE Follow \/ Answer \/ Busy
    BY <1>1, <2>1 DEF Follow, Answer, Complete, Fail, Busy, driver
  <2>2. CASE Driver \/ \E n \in Counts : Read(n)
    <3>1. StopCommands
      BY <1>1, <2>2 DEF Driver, Probe, AwaitStop, StopReceiving, Rebase, Start,
           find_cmdslot, Setup, Spin, Issue, Await, Check, Read, Goto
    <3> QED
      BY <1>1, <3>1 DEF StopCommands, Goto
  <2> QED
    BY <1>1, <2>1, <2>2 DEF Next
<1> QED
  BY <1>1, PTL DEF Spec

\* A command that was issued to a port that works on none has not completed,
\* and nothing makes the port work again once the probe is over.
Reading == {"idle", "slot", "setup", "spin", "issue"} \cup Issued

Stalled == late => (halted \/ ~st) /\ pc \in Reading /\ moved = None

LEMMA StaysStalled ==
  ASSUME AInv, Stalled, Next
  PROVE  Stalled' /\ (late => late')
<1>1. {late, st, halted} \subseteq BOOLEAN
  BY DEF AInv, TypeOK
<1>2. CASE Issue
  <2>1. /\ pc' = "ci" /\ moved' = None /\ late' = (halted \/ ~st)
        /\ halted' = halted /\ st' = st
    BY <1>2 DEF Issue, Goto
  <2>2. late => halted \/ ~st
    BY DEF Stalled
  <2> QED
    BY <2>1, <2>2 DEF Stalled, Reading, Issued
<1>3. CASE ~Issue /\ ~late
  <2>1. late' = late
    BY <1>3 DEF Next, Follow, Answer, Complete, Fail, Busy, Driver, Probe,
         StopCommands, AwaitStop, StopReceiving, Rebase, Start, find_cmdslot,
         Setup, Spin, Await, Check, Read, history
  <2> QED
    BY <1>3, <2>1 DEF Stalled
<1>4. CASE ~Issue /\ late
  <2>1. (halted \/ ~st) /\ pc \in Reading /\ moved = None
    BY <1>4 DEF Stalled
  <2>2. CASE Follow \/ Busy
    BY <2>1, <2>2 DEF Follow, Busy, driver, history, Stalled
  <2>3. ~Answer
    BY <2>1 DEF Answer, Complete, Fail, Working
  <2>4. CASE Driver \/ \E n \in Counts : Read(n)
    <3>1. UNCHANGED <<st, halted, moved, late>> /\ pc' \in Reading
      BY <1>4, <2>1, <2>4 DEF Driver, Probe, StopCommands, AwaitStop,
           StopReceiving, Rebase, Start, find_cmdslot, Setup, Spin, Await,
           Check, Read, Goto, port, history, Reading, Issued
    <3> QED
      BY <2>1, <3>1 DEF Stalled
  <2> QED
    BY <2>2, <2>3, <2>4 DEF Next
<1> QED
  BY <1>2, <1>3, <1>4

\* Once a command has been issued to a port that has stopped on an error, or
\* that was never started, this read() and every later one fail.
THEOREM FailedForGood ==
  Spec => [][late => late' /\ ~(Goto("check", "idle") /\ result')]_vars
<1>1. Init => Stalled
  BY DEF Init, Stalled
<1>2. AInv /\ Stalled /\ [Next]_vars => Stalled'
  <2>1. ASSUME Stalled, UNCHANGED <<late, halted, st, pc, moved>>
        PROVE  Stalled'
    BY <2>1 DEF Stalled, Reading, Issued
  <2> QED
    BY <2>1, StaysStalled DEF vars, port, driver, history
<1>3. ASSUME AInv, Stalled, Next, late,
             [Goto("check", "idle") /\ result' =>
                moved # None /\ (count <= 16 => moved = count)]_vars
      PROVE  late' /\ ~(Goto("check", "idle") /\ result')
  <2>1. late'
    BY <1>3, StaysStalled
  <2>2. moved = None
    BY <1>3 DEF Stalled
  <2>3. Goto("check", "idle") => vars' # vars
    BY DEF Goto, vars, driver
  <2> QED
    BY <1>3, <2>1, <2>2, <2>3
<1>4. /\ AInv /\ Stalled /\ [Next]_vars
      /\ [Goto("check", "idle") /\ result' =>
            moved # None /\ (count <= 16 => moved = count)]_vars
      => [late => late' /\ ~(Goto("check", "idle") /\ result')]_vars
  BY <1>3
<1> QED
  BY <1>1, <1>2, <1>4, AhciInvariance, TrueIsRead, PTL DEF Spec, TrueMeansRead
====
