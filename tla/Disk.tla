-------------------------------- MODULE Disk --------------------------------
(***************************************************************************)
(* The master boot record: ata_pio.c, which moves sectors through the data *)
(* port word by word, and mbr.c above it.                                  *)
(*                                                                         *)
(* The drive is external.  It works on a command of its own accord, then   *)
(* asks for data or gives it (DRQ), or reports an error.  The standard     *)
(* leaves open what becomes of a byte written to the 16-bit data port, and *)
(* of a command written during a transfer: drives differ in takesBytes and *)
(* aborts.  At the port there may also be no drive, a bus that floats, or  *)
(* an ATAPI drive.                                                         *)
(*                                                                         *)
(* A sector has a word of code, one for each partition and the signature;  *)
(* a word is <<low byte, high byte>>.  Only sector 0 has contents here, of *)
(* the others it is known whether they were written.                       *)
(***************************************************************************)
EXTENDS Integers, Sequences

CONSTANTS
  Partitions, \* 4: entries of the partition table
  SysIds,     \* system ids that may be found on the drive
  Skip,       \* 4: words at which ata_pio_write() begins to take the buffer
  DriveSize,  \* sectors of the drive
  Room        \* blocks of 512 bytes that the heap has left

Byte == 0 .. 255

ASSUME DiskAssumption ==
  /\ Partitions \in 1 .. 4 /\ Room \in Nat
  /\ Skip \in 1 .. (Partitions + 2)
  /\ SysIds \subseteq Byte
  /\ DriveSize \in Nat /\ 0 < DriveSize /\ DriveSize <= 2147483647

Word == Byte \X Byte
Last == Partitions + 1
Words == 0 .. Last
Signature == <<85, 170>>

VARIABLES
  kind, takesBytes, aborts,    \* what is at the port
  dev,        \* "idle", "busy", "in", "out" or "error"
  job,        \* the command it works on and the sector
  left,       \* the words that it has given or taken
  sector0,    \* its sector 0
  written     \* the other sectors that it has stored

drive == <<kind, takesBytes, aborts, dev, job, left, sector0, written>>
model == <<kind, takesBytes, aborts>>

VARIABLES
  pc,         \* where the driver is; "idle" when it is not called
  i,          \* of the loops over a sector
  buf,        \* mbr_dat of retrieve_partitions()
  todo,       \* the sectors still to be written, and from what
  parts,      \* mbr.partitions
  answer,     \* what retrieve_partitions() returned last
  taken,      \* blocks of 512 bytes it has from the heap
  secCount    \* info.sec_count

mbr == <<parts, answer, taken, secCount>>
vars == <<drive, pc, i, buf, todo, mbr>>

-----------------------------------------------------------------------------
(* The drive. *)

\* Variant: a drive that has DRQ set is not ready.
ReadyWithoutData == kind = "ata" /\ dev \in {"idle", "error"}

\* What wait_ready() waits for: RDY without BSY.
Ready == kind = "ata" /\ dev # "busy"

\* What ata_pio_read() and ata_pio_write() wait for.
Drq == kind = "floating" \/ (kind = "ata" /\ dev \in {"in", "out"})

\* A command is written to the command port.
Command(c, lba) ==
  /\ IF kind = "ata" /\ (dev \in {"in", "out"} => aborts)
     THEN dev' = "busy" /\ job' = <<c, lba>> /\ left' = <<>>
     ELSE UNCHANGED <<dev, job, left>>
  /\ UNCHANGED <<model, sector0, written>>

Sector(lba) == [n \in Words |-> IF lba = 0 THEN sector0[n] ELSE <<0, 0>>]

Answer ==
  /\ dev = "busy"
  /\ \/ job[1] = "flush" /\ dev' = "idle" /\ UNCHANGED left
     \/ job[1] = "identify" /\ dev' \in {"in", "error"} /\ UNCHANGED left
     \/ /\ job[1] = "read" /\ job[2] < DriveSize
        /\ dev' = "in" /\ UNCHANGED left
     \/ /\ job[1] = "write" /\ job[2] < DriveSize
        /\ dev' = "out" /\ UNCHANGED left
     \/ job[1] \in {"read", "write"} /\ dev' = "error" /\ UNCHANGED left
  /\ UNCHANGED <<model, job, sector0, written, pc, i, buf, todo, mbr>>

\* What inw() reads from the data port, and what becomes of the drive.
WordRead ==
  IF kind = "floating" THEN <<255, 255>>
  ELSE IF kind = "ata" /\ dev = "in" THEN Sector(job[2])[Len(left)]
  ELSE <<0, 0>>

GiveWord ==
  /\ IF kind = "ata" /\ dev = "in"
     THEN /\ left' = Append(left, WordRead)
          /\ dev' = IF Len(left) = Last THEN "idle" ELSE "in"
     ELSE UNCHANGED <<left, dev>>
  /\ UNCHANGED <<model, job, sector0, written>>

\* A byte is written to the data port.  If the drive takes it for a word, the
\* other half is what it makes of it.
TakeByte(low) ==
  /\ IF kind = "ata" /\ dev = "out" /\ takesBytes
     THEN \E high \in {0, 170} :
            LET data == Append(left, <<low, high>>)
                full == Len(data) = Last + 1
            IN  /\ left' = data
                /\ dev' = IF full THEN "idle" ELSE "out"
                /\ sector0' = IF full /\ job[2] = 0
                              THEN [n \in Words |-> data[n + 1]] ELSE sector0
                /\ written' = IF full /\ job[2] # 0
                              THEN written \cup {job[2]} ELSE written
     ELSE UNCHANGED <<left, dev, sector0, written>>
  /\ UNCHANGED <<model, job>>

-----------------------------------------------------------------------------
(* ata_pio.c *)

Goto(from, to) == pc = from /\ pc' = to

\* ata_pio_install(): IDENTIFY, the status, two waits and the signature.
ata_pio_install ==
  /\ Goto("idle", "exists")
  /\ Command("identify", 0)
  /\ UNCHANGED <<i, buf, todo, mbr>>

Exists ==
  /\ \/ kind = "none" /\ Goto("exists", "idle")
     \/ kind # "none" /\ Goto("exists", "identified")
  /\ UNCHANGED <<drive, i, buf, todo, mbr>>

\* An ATAPI drive may or may not report ready, and fails the assertion.
Identified ==
  /\ \/ Ready /\ Goto("identified", "info")
     \/ kind = "atapi" /\ Goto("identified", "panic")
  /\ UNCHANGED <<drive, i, buf, todo, mbr>>

High(n) == n \div 65536
Low(n) == n % 65536

\* Words 60 and 61 of what the drive says are the low and the high half of its
\* size; they are put together the other way round.
SecCount(n) == (Low(n) * 65536 + High(n))

ReadInfo ==
  /\ Goto("info", "idle")
  /\ secCount' = IF dev = "in" THEN SecCount(DriveSize) ELSE 0
  /\ dev' = IF dev = "in" THEN "idle" ELSE dev
  /\ UNCHANGED <<model, job, left, sector0, written, i, buf, todo, parts,
                 answer, taken>>

\* out_sector(), and then the wait for DRQ, which looks at nothing else.
AwaitDrq ==
  /\ Drq
  /\ Goto("drqIn", "read") \/ Goto("drqOut", "write")
  /\ UNCHANGED <<drive, i, buf, todo, mbr>>

\* Variant: the word that was read is kept whole.
WholeWord(w) == w

\* A word of the drive goes through a variable of eight bits.
Kept(w) == <<w[1], 0>>

\* The loop of ata_pio_read().
ReadWord ==
  /\ IF i = Last THEN Goto("read", "look") ELSE pc = "read" /\ UNCHANGED pc
  /\ GiveWord
  /\ buf' = [buf EXCEPT ![i] = Kept(WordRead)]
  /\ i' = IF i = Last THEN 0 ELSE i + 1
  /\ UNCHANGED <<todo, mbr>>

\* What ata_pio_write() takes from a buffer for word n: the low byte of a word
\* further on, and at the end what lies behind the buffer.
LowBytes(source, n) ==
  IF source = <<>> \/ n + Skip > Last THEN {0, 85}
  ELSE {source[n + Skip + 1][1]}

\* The loop of ata_pio_write(): a byte to the data port, ...
WriteByte ==
  /\ Goto("write", "flush")
  /\ \E b \in LowBytes(Head(todo)[2], i) : TakeByte(b)
  /\ UNCHANGED <<i, buf, todo, mbr>>

\* ... then cache_flush(), which is a command and a wait ...
CacheFlush ==
  /\ Goto("flush", "ready")
  /\ Command("flush", 0)
  /\ UNCHANGED <<i, buf, todo, mbr>>

\* ... before the next byte, or the next sector that the caller writes.
wait_ready ==
  /\ Ready
  /\ IF i < Last
     THEN Goto("ready", "write") /\ i' = i + 1 /\ UNCHANGED todo
     ELSE /\ Goto("ready", IF Len(todo) > 1 THEN "next" ELSE "idle")
          /\ i' = 0 /\ todo' = Tail(todo)
  /\ UNCHANGED <<drive, buf, mbr>>

ata_pio_write ==
  /\ Goto("next", "drqOut")
  /\ Command("write", Head(todo)[1])
  /\ UNCHANGED <<i, buf, todo, mbr>>

-----------------------------------------------------------------------------
(* mbr.c *)

get_part_entry(n) == 446 + n * 16

\* Variables on the stack, of which only what lies behind them is written.
Stack == <<>>

\* mbr_write_part() takes the place of an entry in sector 0 for a sector.
mbr_write_part(loc) == <<<<loc + 8, Stack>>, <<loc + 12, Stack>>, <<loc, Stack>>>>

template_mbr ==
  [n \in 1 .. (Last + 1) |-> IF n = 1 THEN <<51, 192>>
                             ELSE IF n = Last + 1 THEN Signature ELSE <<0, 0>>]

Zeros == [n \in 1 .. (Last + 1) |-> <<0, 0>>]

\* The template, then each entry.
Parts ==
  [n \in 1 .. (1 + 3 * Partitions) |->
     IF n = 1 THEN <<0, template_mbr>>
     ELSE mbr_write_part(get_part_entry((n - 2) \div 3))[((n - 2) % 3) + 1]]

\* format_mbr() when it was confirmed, mbr_purge(), or one partition.
WriteMbr ==
  /\ Goto("idle", "next")
  /\ \/ todo' = Parts
     \/ todo' = <<<<0, Zeros>>>>
     \/ \E n \in 0 .. (Partitions - 1) : todo' = mbr_write_part(get_part_entry(n))
  /\ UNCHANGED <<drive, i, buf, mbr>>

\* parse_partition(): what an entry adds to what is known of a partition.  The
\* id is a signed char, which never equals 0x85.
parse_partition(part, id) ==
  IF id = 0 THEN [part EXCEPT !.error = @ \cup {"EMPTY_PARTITION"}]
  ELSE IF id \in {5, 15}
  THEN [part EXCEPT !.error = @ \cup {"FEATURE_NOT_EXIST"}]
  ELSE IF id \in {11, 12} THEN [part EXCEPT !.type = id]
  ELSE part

\* Variant: there is always room.
RetrieveAlways ==
  /\ Goto("idle", "drqIn") /\ taken' = taken + 1 /\ Command("read", 0)
  /\ UNCHANGED <<i, buf, todo, parts, answer, secCount>>

\* malloc() does not return if the heap has no room.
retrieve_partitions ==
  /\ IF taken = Room
     THEN Goto("idle", "panic") /\ UNCHANGED <<drive, taken>>
     ELSE Goto("idle", "drqIn") /\ taken' = taken + 1 /\ Command("read", 0)
  /\ UNCHANGED <<i, buf, todo, parts, answer, secCount>>

\* Without the signature the buffer is not given back.
Look ==
  /\ Goto("look", "idle")
  /\ IF buf[Last] # Signature
     THEN answer' = TRUE /\ UNCHANGED <<parts, taken>>
     ELSE /\ parts' = [n \in DOMAIN parts |-> parse_partition(parts[n], buf[n][1])]
          /\ taken' = taken - 1
          /\ answer' = FALSE
  /\ buf' = [n \in Words |-> <<0, 0>>]
  /\ UNCHANGED <<drive, i, todo, secCount>>

-----------------------------------------------------------------------------
\* mbr_init(), any drive, and whatever is on it.
Init ==
  /\ kind \in {"ata", "none", "floating", "atapi"}
  /\ takesBytes \in BOOLEAN /\ aborts \in BOOLEAN
  /\ dev = "idle" /\ job = <<"flush", 0>> /\ left = <<>>
  /\ \E ids \in [1 .. Partitions -> SysIds], s \in {Signature, <<0, 0>>} :
       sector0 = [n \in Words |-> IF n = 0 THEN <<51, 192>>
                                  ELSE IF n = Last THEN s ELSE <<ids[n], 7>>]
  /\ written = {}
  /\ pc = "idle" /\ i = 0 /\ todo = <<>>
  /\ buf = [n \in Words |-> <<0, 0>>]
  /\ parts = [n \in 1 .. Partitions |-> [error |-> {}, type |-> 0]]
  /\ answer = FALSE /\ taken = 0 /\ secCount = 0

Driver ==
  \/ Exists \/ Identified \/ ReadInfo \/ AwaitDrq \/ ReadWord
  \/ WriteByte \/ CacheFlush \/ wait_ready \/ ata_pio_write \/ Look

Next ==
  \/ Answer \/ Driver
  \/ ata_pio_install \/ WriteMbr \/ retrieve_partitions

\* The code runs on, and the drive works on its command.
Spec == Init /\ [][Next]_vars /\ WF_vars(Driver) /\ WF_vars(Answer)

-----------------------------------------------------------------------------
(* Properties *)

\* Types of the variables.
TypeOK ==
  /\ kind \in {"ata", "none", "floating", "atapi"}
  /\ {takesBytes, aborts, answer} \subseteq BOOLEAN
  /\ dev \in {"idle", "busy", "in", "out", "error"}
  /\ job \in {"flush", "identify", "read", "write"} \X Nat
  /\ left \in Seq(Word) /\ Len(left) <= Last + 1
  /\ sector0 \in [Words -> Word] /\ written \subseteq Nat
  /\ pc \in {"idle", "exists", "identified", "info", "drqIn", "read", "look",
             "next", "drqOut", "write", "flush", "ready", "panic"}
  /\ i \in Words /\ buf \in [Words -> Word]
  /\ taken \in 0 .. Room
  /\ secCount \in Nat

\* retrieve_partitions() finds no boot record on any drive, with or without
\* one, after any calls: the high byte of the signature is lost on the way.  So
\* the "MBR reading" of README.md:4 is not there.
\* What is known of the partitions stays what mbr_init() says, and each call
\* keeps its block for good, until the one after the last has no room.
NeverRecognised ==
  [][/\ Look => answer' = TRUE /\ parts' = parts /\ taken' = taken
     /\ pc' = "panic" /\ retrieve_partitions => taken = Room]_vars

\* Every call comes to an end, unless the drive is not an ATA drive or has
\* reported an error, which no loop that waits looks for.
CallsEnd ==
  pc # "idle" ~> pc \in {"idle", "panic"} \/ kind # "ata" \/ dev = "error"
=============================================================================
