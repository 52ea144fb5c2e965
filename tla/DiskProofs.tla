----------------------------- MODULE DiskProofs -----------------------------
(***************************************************************************)
(* Proofs about Disk.tla, for any size of the partition table, the drive   *)
(* and the heap.                                                           *)
(*                                                                         *)
(* That no boot record is ever recognised follows from HighLost alone; the *)
(* rest keeps the words that drive and driver exchange what they are, for  *)
(* which the list of what is still to be written has to be well formed.    *)
(***************************************************************************)
EXTENDS Disk, SequenceTheorems, TLAPS

\* What ata_pio_write() is given: a sector, or variables on the stack.
Sources == {Stack} \cup [1 .. (Last + 1) -> Word]

Writing == {"next", "drqOut", "write", "flush", "ready"}

\* There is something left to write as long as the driver writes.
WellFormed ==
  /\ todo \in Seq(Nat \X Sources)
  /\ pc \in Writing => todo # <<>>

\* A drive that transfers, or will, has not yet given or taken every word.
Transferring == dev \in {"busy", "in", "out"} => Len(left) <= Last

\* In a sector that ata_pio_read() has put into memory every high byte is 0.
HighLost == \A n \in Words : buf[n][2] = 0

DInv == TypeOK /\ WellFormed /\ Transferring /\ HighLost

-----------------------------------------------------------------------------
LEMMA Sizes ==
  /\ Partitions \in Nat /\ Partitions > 0 /\ Last = Partitions + 1
  /\ Last \in Nat /\ Last >= 2
  /\ Skip \in Nat /\ Skip > 0
  /\ DriveSize \in Nat /\ Room \in Nat
  /\ 0 \in Words /\ Last \in Words /\ Words \subseteq Nat
  /\ \A n \in Nat : n <= Last <=> n \in Words
<1>1. /\ Partitions \in Nat /\ Partitions > 0 /\ Skip \in Nat /\ Skip > 0
      /\ DriveSize \in Nat /\ Room \in Nat
  BY DiskAssumption
<1> QED
  BY <1>1 DEF Last, Words

LEMMA Bytes ==
  /\ 0 \in Byte /\ 7 \in Byte /\ 51 \in Byte /\ 85 \in Byte
  /\ 170 \in Byte /\ 192 \in Byte /\ 255 \in Byte
  /\ SysIds \subseteq Byte
BY DiskAssumption DEF Byte

LEMMA SomeWords ==
  /\ <<0, 0>> \in Word /\ <<51, 192>> \in Word /\ <<255, 255>> \in Word
  /\ Signature \in Word
  /\ \A b \in Byte : <<b, 0>> \in Word /\ <<b, 170>> \in Word /\ <<b, 7>> \in Word
  /\ \A w \in Word : w[1] \in Byte /\ w[2] \in Byte
BY Bytes DEF Word, Signature

\* What the callers of ata_pio_write() ask it to write.
LEMMA Templates ==
  /\ template_mbr \in Sources /\ Zeros \in Sources /\ Stack \in Sources
<1>1. template_mbr \in [1 .. (Last + 1) -> Word]
  BY SomeWords DEF template_mbr
<1>2. Zeros \in [1 .. (Last + 1) -> Word]
  BY SomeWords DEF Zeros
<1> QED
  BY <1>1, <1>2 DEF Sources

LEMMA EntryParts ==
  ASSUME NEW n \in Nat
  PROVE  LET t == mbr_write_part(get_part_entry(n))
         IN  /\ t \in Seq(Nat \X Sources) /\ t # <<>>
             /\ \A k \in 1 .. 3 : t[k] \in Nat \X Sources
<1> DEFINE loc == 446 + n * 16
<1>1. loc \in Nat /\ loc + 8 \in Nat /\ loc + 12 \in Nat
  OBVIOUS
<1>2. get_part_entry(n) = loc
  BY DEF get_part_entry
<1> HIDE DEF loc
<1>3. /\ <<loc + 8, Stack>> \in Nat \X Sources
      /\ <<loc + 12, Stack>> \in Nat \X Sources
      /\ <<loc, Stack>> \in Nat \X Sources
  BY <1>1, Templates
<1> QED
  BY <1>2, <1>3 DEF mbr_write_part

LEMMA AllParts == Parts \in Seq(Nat \X Sources) /\ Parts # <<>>
<1>1. 1 + 3 * Partitions \in Nat /\ 1 + 3 * Partitions > 0
  BY Sizes
<1>2. ASSUME NEW n \in 1 .. (1 + 3 * Partitions)
      PROVE  Parts[n] \in Nat \X Sources
  <2>1. CASE n = 1
    BY <2>1, Templates DEF Parts
  <2>2. CASE n # 1
    <3>1. (n - 2) \div 3 \in Nat /\ ((n - 2) % 3) + 1 \in 1 .. 3
      BY <1>1, <2>2
    <3> QED
      BY <2>2, <3>1, EntryParts DEF Parts
  <2> QED
    BY <2>1, <2>2
<1>3. Parts = [n \in 1 .. (1 + 3 * Partitions) |-> Parts[n]]
  BY DEF Parts
<1>4. Parts \in [1 .. (1 + 3 * Partitions) -> Nat \X Sources]
  BY <1>2, <1>3
<1>5. 1 \in DOMAIN Parts
  BY <1>1, <1>3
<1> QED
  BY <1>1, <1>4, <1>5

-----------------------------------------------------------------------------
(* The drive. *)

\* A command begins a transfer with no word moved, or is ignored.
LEMMA Commands ==
  ASSUME DInv, NEW c \in {"flush", "identify", "read", "write"}, NEW lba \in Nat,
         Command(c, lba)
  PROVE  /\ dev' \in {"idle", "busy", "in", "out", "error"}
         /\ job' \in {"flush", "identify", "read", "write"} \X Nat
         /\ left' \in Seq(Word) /\ Len(left') <= Last + 1
         /\ Transferring'
         /\ UNCHANGED <<kind, takesBytes, aborts, sector0, written>>
<1>1. UNCHANGED <<kind, takesBytes, aborts, sector0, written>>
  BY DEF Command, model
<1>2. \/ dev' = "busy" /\ job' = <<c, lba>> /\ left' = <<>>
      \/ UNCHANGED <<dev, job, left>>
  BY DEF Command
<1>3. CASE dev' = "busy" /\ job' = <<c, lba>> /\ left' = <<>>
  <2>1. left' \in Seq(Word) /\ Len(left') = 0
    BY <1>3
  <2> QED
    BY <1>1, <1>3, <2>1, Sizes DEF Transferring
<1>4. CASE UNCHANGED <<dev, job, left>>
  BY <1>1, <1>4 DEF DInv, TypeOK, Transferring
<1> QED
  BY <1>2, <1>3, <1>4

\* The word that the data port gives.
LEMMA WordIsRead ==
  ASSUME DInv
  PROVE  WordRead \in Word
<1>1. CASE kind = "floating"
  BY <1>1, SomeWords DEF WordRead
<1>2. CASE kind = "ata" /\ dev = "in"
  <2>1. Len(left) \in Words
    BY <1>2, Sizes, LenProperties DEF DInv, TypeOK, Transferring
  <2>2. Sector(job[2])[Len(left)] \in Word
    BY <2>1, SomeWords DEF Sector, DInv, TypeOK
  <2> QED
    BY <1>2, <2>2 DEF WordRead
<1>3. CASE kind # "floating" /\ ~(kind = "ata" /\ dev = "in")
  BY <1>3, SomeWords DEF WordRead
<1> QED
  BY <1>1, <1>2, <1>3

LEMMA Gives ==
  ASSUME DInv, GiveWord
  PROVE  /\ dev' \in {"idle", "busy", "in", "out", "error"}
         /\ left' \in Seq(Word) /\ Len(left') <= Last + 1
         /\ Transferring'
         /\ UNCHANGED <<kind, takesBytes, aborts, job, sector0, written>>
<1>1. UNCHANGED <<kind, takesBytes, aborts, job, sector0, written>>
  BY DEF GiveWord, model
<1>2. left \in Seq(Word) /\ Len(left) \in Nat /\ Last \in Nat
  BY Sizes, LenProperties DEF DInv, TypeOK
<1>3. CASE kind = "ata" /\ dev = "in"
  <2>1. left' = Append(left, WordRead)
        /\ dev' = IF Len(left) = Last THEN "idle" ELSE "in"
    BY <1>3 DEF GiveWord
  <2>2. left' \in Seq(Word) /\ Len(left') = Len(left) + 1
    BY <1>2, <2>1, WordIsRead, AppendProperties
  <2>3. Len(left) <= Last
    BY <1>3 DEF DInv, Transferring
  <2> QED
    BY <1>1, <1>2, <2>1, <2>2, <2>3 DEF Transferring
<1>4. CASE ~(kind = "ata" /\ dev = "in")
  BY <1>1, <1>4 DEF GiveWord, DInv, TypeOK, Transferring
<1> QED
  BY <1>3, <1>4

LEMMA Takes ==
  ASSUME DInv, NEW low \in Byte, TakeByte(low)
  PROVE  /\ dev' \in {"idle", "busy", "in", "out", "error"}
         /\ left' \in Seq(Word) /\ Len(left') <= Last + 1
         /\ sector0' \in [Words -> Word] /\ written' \subseteq Nat
         /\ Transferring'
         /\ UNCHANGED <<kind, takesBytes, aborts, job>>
<1>1. UNCHANGED <<kind, takesBytes, aborts, job>>
  BY DEF TakeByte, model
<1>2. left \in Seq(Word) /\ Len(left) \in Nat /\ Last \in Nat
  BY Sizes, LenProperties DEF DInv, TypeOK
<1>3. CASE kind = "ata" /\ dev = "out" /\ takesBytes
  <2> DEFINE data(high) == Append(left, <<low, high>>)
             full(high) == Len(data(high)) = Last + 1
  <2>1. PICK high \in {0, 170} :
          /\ left' = data(high)
          /\ dev' = IF full(high) THEN "idle" ELSE "out"
          /\ sector0' = IF full(high) /\ job[2] = 0
                        THEN [n \in Words |-> data(high)[n + 1]] ELSE sector0
          /\ written' = IF full(high) /\ job[2] # 0
                        THEN written \cup {job[2]} ELSE written
    BY <1>3 DEF TakeByte
  <2>2. <<low, high>> \in Word
    BY Bytes DEF Word
  <2>3. /\ data(high) \in Seq(Word) /\ Len(data(high)) = Len(left) + 1
    BY <1>2, <2>2, AppendProperties
  <2>4. Len(left) <= Last
    BY <1>3 DEF DInv, Transferring
  <2>5. full(high) => \A n \in Words : data(high)[n + 1] \in Word
    <3> SUFFICES ASSUME full(high), NEW n \in Words
                 PROVE  data(high)[n + 1] \in Word
      OBVIOUS
    <3>1. n + 1 \in 1 .. Len(data(high))
      BY <1>2 DEF Words
    <3> QED
      BY <2>3, <3>1, ElementOfSeq
  <2>6. job[2] \in Nat
    BY DEF DInv, TypeOK
  <2> HIDE DEF data, full
  <2>7. sector0' \in [Words -> Word]
    BY <2>1, <2>5 DEF DInv, TypeOK
  <2>8. written' \subseteq Nat
    BY <2>1, <2>6 DEF DInv, TypeOK
  <2>9. Transferring'
    BY <1>2, <2>1, <2>3, <2>4 DEF Transferring, full
  <2> QED
    BY <1>1, <1>2, <2>1, <2>3, <2>4, <2>7, <2>8, <2>9
<1>4. CASE ~(kind = "ata" /\ dev = "out" /\ takesBytes)
  BY <1>1, <1>4 DEF TakeByte, DInv, TypeOK, Transferring
<1> QED
  BY <1>3, <1>4

-----------------------------------------------------------------------------
(* The invariant. *)

LEMMA Start ==
  ASSUME Init
  PROVE  DInv
<1>1. sector0 \in [Words -> Word]
  <2>1. PICK ids \in [1 .. Partitions -> SysIds], s \in {Signature, <<0, 0>>} :
          sector0 = [n \in Words |-> IF n = 0 THEN <<51, 192>>
                                     ELSE IF n = Last THEN s ELSE <<ids[n], 7>>]
    BY DEF Init
  <2>2. ASSUME NEW n \in Words, n # 0, n # Last PROVE <<ids[n], 7>> \in Word
    <3>1. n \in 1 .. Partitions
      BY <2>2, Sizes DEF Words
    <3>2. ids[n] \in Byte
      BY <2>1, <3>1, Bytes
    <3> QED
      BY <3>2, SomeWords
  <2>3. <<51, 192>> \in Word /\ s \in Word
    BY <2>1, SomeWords
  <2>4. ASSUME NEW n \in Words
        PROVE  (IF n = 0 THEN <<51, 192>> ELSE IF n = Last THEN s ELSE <<ids[n], 7>>)
                 \in Word
    BY <2>2, <2>3
  <2> QED
    BY <2>1, <2>4, Zenon
<1>2. buf \in [Words -> Word] /\ HighLost
  BY SomeWords DEF Init, HighLost
<1>3. /\ left \in Seq(Word) /\ Len(left) = 0 /\ Len(left) <= Last + 1
      /\ todo \in Seq(Nat \X Sources)
  <2>1. left = <<>> /\ todo = <<>>
    BY DEF Init
  <2> QED
    BY <2>1, Sizes
<1>4. taken \in 0 .. Room /\ i \in Words /\ secCount \in Nat
  BY Sizes DEF Init
<1>5. TypeOK
  <2>1. job \in {"flush", "identify", "read", "write"} \X Nat
    BY DEF Init
  <2>2. {takesBytes, aborts, answer} \subseteq BOOLEAN /\ written \subseteq Nat
    BY DEF Init
  <2>3. pc = "idle" /\ dev = "idle"
    BY DEF Init
  <2>4. kind \in {"ata", "none", "floating", "atapi"}
    BY DEF Init
  <2> QED
    BY <1>1, <1>2, <1>3, <1>4, <2>1, <2>2, <2>3, <2>4, Sizes DEF TypeOK
<1> QED
  BY <1>2, <1>3, <1>5 DEF Init, DInv, WellFormed, Transferring, Writing

LEMMA Answers ==
  ASSUME DInv, Answer
  PROVE  DInv'
<1>1. UNCHANGED <<kind, takesBytes, aborts, job, left, sector0, written, pc, i,
                  buf, todo, parts, answer, taken, secCount>>
  BY DEF Answer, model, mbr
<1>2. dev' \in {"idle", "in", "out", "error"} /\ dev = "busy"
  BY DEF Answer
<1> QED
  BY <1>1, <1>2 DEF DInv, TypeOK, WellFormed, Transferring, HighLost

\* ata_pio_install(), and the waits that change nothing.
LEMMA Installs ==
  ASSUME DInv, ata_pio_install \/ Exists \/ Identified \/ AwaitDrq
  PROVE  DInv'
<1>1. UNCHANGED <<i, buf, todo, parts, answer, taken, secCount>>
  BY DEF ata_pio_install, Exists, Identified, AwaitDrq, mbr
<1>2. /\ pc' \in {"exists", "idle", "identified", "info", "panic", "read", "write"}
      /\ pc' \in Writing => pc \in Writing
  BY DEF ata_pio_install, Exists, Identified, AwaitDrq, Goto, Writing
<1>3. CASE ata_pio_install
  <2>1. Command("identify", 0)
    BY <1>3 DEF ata_pio_install
  <2> QED
    BY <1>1, <1>2, <2>1, Commands DEF DInv, TypeOK, WellFormed, HighLost
<1>4. CASE Exists \/ Identified \/ AwaitDrq
  <2>1. UNCHANGED drive
    BY <1>4 DEF Exists, Identified, AwaitDrq
  <2> QED
    BY <1>1, <1>2, <2>1 DEF drive, DInv, TypeOK, WellFormed, Transferring,
                            HighLost
<1> QED
  BY <1>3, <1>4

LEMMA ReadsInfo ==
  ASSUME DInv, ReadInfo
  PROVE  DInv'
<1>1. /\ pc' = "idle"
      /\ secCount' = IF dev = "in" THEN SecCount(DriveSize) ELSE 0
      /\ dev' = IF dev = "in" THEN "idle" ELSE dev
      /\ UNCHANGED <<kind, takesBytes, aborts, job, left, sector0, written, i,
                     buf, todo, parts, answer, taken>>
  BY DEF ReadInfo, Goto, model
<1>2. SecCount(DriveSize) \in Nat
  BY Sizes DEF SecCount, High, Low
<1> QED
  BY <1>1, <1>2 DEF DInv, TypeOK, WellFormed, Transferring, HighLost, Writing

\* A word loses its high byte on its way into memory.
LEMMA ReadsWord ==
  ASSUME DInv, ReadWord
  PROVE  DInv'
<1>1. /\ GiveWord
      /\ buf' = [buf EXCEPT ![i] = Kept(WordRead)]
      /\ i' = IF i = Last THEN 0 ELSE i + 1
      /\ pc' \in {"read", "look"}
      /\ UNCHANGED <<todo, parts, answer, taken, secCount>>
  BY DEF ReadWord, Goto, mbr
<1>2. Kept(WordRead) \in Word /\ Kept(WordRead)[2] = 0
  BY WordIsRead, SomeWords DEF Kept
<1>3. buf' \in [Words -> Word] /\ HighLost'
  BY <1>1, <1>2 DEF DInv, TypeOK, HighLost
<1>4. i' \in Words
  BY <1>1, Sizes DEF DInv, TypeOK, Words
<1> QED
  BY <1>1, <1>3, <1>4, Gives DEF DInv, TypeOK, WellFormed, Writing

LEMMA WritesByte ==
  ASSUME DInv, WriteByte
  PROVE  DInv'
<1>1. /\ pc = "write" /\ pc' = "flush"
      /\ UNCHANGED <<i, buf, todo, parts, answer, taken, secCount>>
  BY DEF WriteByte, Goto, mbr
<1>2. todo \in Seq(Nat \X Sources) /\ todo # <<>>
  BY <1>1 DEF DInv, WellFormed, Writing
<1>3. Head(todo)[2] \in Sources
  BY <1>2, HeadTailProperties
<1>4. PICK b \in LowBytes(Head(todo)[2], i) : TakeByte(b)
  BY DEF WriteByte
<1>5. b \in Byte
  <2> DEFINE source == Head(todo)[2]
  <2>1. CASE source = <<>> \/ i + Skip > Last
    BY <1>4, <2>1, Bytes DEF LowBytes
  <2>2. CASE ~(source = <<>> \/ i + Skip > Last)
    <3>1. source \in [1 .. (Last + 1) -> Word]
      BY <1>3, <2>2 DEF Sources, Stack
    <3>2. i + Skip + 1 \in 1 .. (Last + 1)
      <4>1. i \in Nat
        BY Sizes DEF DInv, TypeOK
      <4>2. i + Skip <= Last
        BY <2>2, <4>1, Sizes
      <4> QED
        BY <4>1, <4>2, Sizes
    <3>3. source[i + Skip + 1][1] \in Byte
      BY <3>1, <3>2, SomeWords
    <3> QED
      BY <1>4, <2>2, <3>3 DEF LowBytes
  <2> QED
    BY <2>1, <2>2
<1> QED
  BY <1>1, <1>2, <1>4, <1>5, Takes DEF DInv, TypeOK, WellFormed, HighLost

\* The commands of ata_pio_write(), the wait after a byte and the next sector.
LEMMA WritesOn ==
  ASSUME DInv, CacheFlush \/ wait_ready \/ ata_pio_write
  PROVE  DInv'
<1>1. UNCHANGED <<buf, parts, answer, taken, secCount>>
  BY DEF CacheFlush, wait_ready, ata_pio_write, mbr
<1>2. todo \in Seq(Nat \X Sources) /\ todo # <<>>
  BY DEF CacheFlush, wait_ready, ata_pio_write, Goto, DInv, WellFormed, Writing
<1>3. CASE CacheFlush
  <2>1. Command("flush", 0) /\ pc' = "ready" /\ UNCHANGED <<i, todo>>
    BY <1>3 DEF CacheFlush, Goto
  <2> QED
    BY <1>1, <1>2, <2>1, Commands DEF DInv, TypeOK, WellFormed, HighLost
<1>4. CASE ata_pio_write
  <2>1. /\ Command("write", Head(todo)[1]) /\ pc' = "drqOut"
        /\ UNCHANGED <<i, todo>>
    BY <1>4 DEF ata_pio_write, Goto
  <2>2. Head(todo)[1] \in Nat
    BY <1>2, HeadTailProperties
  <2> QED
    BY <1>1, <1>2, <2>1, <2>2, Commands DEF DInv, TypeOK, WellFormed, HighLost
<1>5. CASE wait_ready
  <2>1. UNCHANGED <<kind, takesBytes, aborts, dev, job, left, sector0, written>>
    BY <1>5 DEF wait_ready, drive
  <2>2. CASE i < Last
    <3>1. pc' = "write" /\ i' = i + 1 /\ todo' = todo
      BY <1>5, <2>2 DEF wait_ready, Goto
    <3>2. i' \in Words
      BY <2>2, <3>1, Sizes DEF DInv, TypeOK, Words
    <3> QED
      BY <1>1, <1>2, <2>1, <3>1, <3>2
      DEF DInv, TypeOK, WellFormed, Transferring, HighLost
  <2>3. CASE ~(i < Last)
    <3>1. /\ pc' = (IF Len(todo) > 1 THEN "next" ELSE "idle")
          /\ i' = 0 /\ todo' = Tail(todo)
      BY <1>5, <2>3 DEF wait_ready, Goto
    <3>2. /\ todo' \in Seq(Nat \X Sources)
          /\ Len(todo) > 1 => todo' # <<>>
      <4>1. /\ Tail(todo) \in Seq(Nat \X Sources)
            /\ Len(Tail(todo)) = Len(todo) - 1 /\ Len(todo) \in Nat
        BY <1>2, HeadTailProperties, LenProperties
      <4>2. Len(todo') = Len(todo) - 1 /\ todo' \in Seq(Nat \X Sources)
        BY <3>1, <4>1
      <4>3. todo' = <<>> => Len(todo') = 0
        OBVIOUS
      <4> QED
        BY <4>1, <4>2, <4>3
    <3>3. WellFormed'
      BY <3>1, <3>2 DEF WellFormed, Writing
    <3> QED
      BY <1>1, <2>1, <3>1, <3>3, Sizes DEF DInv, TypeOK, Transferring, HighLost
  <2> QED
    BY <2>2, <2>3
<1> QED
  BY <1>3, <1>4, <1>5

LEMMA Formats ==
  ASSUME DInv, WriteMbr
  PROVE  DInv'
<1>1. /\ pc' = "next"
      /\ UNCHANGED <<kind, takesBytes, aborts, dev, job, left, sector0, written,
                     i, buf, parts, answer, taken, secCount>>
  BY DEF WriteMbr, Goto, drive, mbr
<1>2. todo' \in Seq(Nat \X Sources) /\ todo' # <<>>
  <2>1. CASE todo' = Parts
    BY <2>1, AllParts
  <2>2. CASE todo' = <<<<0, Zeros>>>>
    <3>1. <<0, Zeros>> \in Nat \X Sources
      BY Templates
    <3> QED
      BY <2>2, <3>1
  <2>3. CASE \E n \in 0 .. (Partitions - 1) :
               todo' = mbr_write_part(get_part_entry(n))
    BY <2>3, EntryParts
  <2> QED
    BY <2>1, <2>2, <2>3 DEF WriteMbr
<1> QED
  BY <1>1, <1>2 DEF DInv, TypeOK, WellFormed, Transferring, HighLost

\* retrieve_partitions(): its block is taken, and never found to be good.
LEMMA Retrieves ==
  ASSUME DInv, retrieve_partitions
  PROVE  DInv' /\ (pc' = "panic" => taken = Room)
<1>1. UNCHANGED <<i, buf, todo, parts, answer, secCount>>
  BY DEF retrieve_partitions
<1>2. CASE taken = Room
  <2>1. pc' = "panic" /\ UNCHANGED <<drive, taken>>
    BY <1>2 DEF retrieve_partitions, Goto
  <2> QED
    BY <1>1, <1>2, <2>1
    DEF drive, DInv, TypeOK, WellFormed, Transferring, HighLost, Writing
<1>3. CASE taken # Room
  <2>1. pc' = "drqIn" /\ taken' = taken + 1 /\ Command("read", 0)
    BY <1>3 DEF retrieve_partitions, Goto
  <2>2. taken' \in 0 .. Room
    BY <1>3, <2>1, Sizes DEF DInv, TypeOK
  <2> QED
    BY <1>1, <2>1, <2>2, Commands DEF DInv, TypeOK, WellFormed, HighLost, Writing
<1> QED
  BY <1>2, <1>3

LEMMA Looks ==
  ASSUME DInv, Look
  PROVE  DInv' /\ answer' = TRUE /\ parts' = parts /\ taken' = taken
<1>1. buf[Last] # Signature
  <2>1. buf[Last][2] = 0
    BY Sizes DEF DInv, HighLost
  <2>2. Signature[2] # 0
    BY DEF Signature
  <2> QED
    BY <2>1, <2>2
<1>2. /\ pc' = "idle" /\ answer' = TRUE /\ UNCHANGED <<parts, taken>>
      /\ buf' = [n \in Words |-> <<0, 0>>]
      /\ UNCHANGED <<kind, takesBytes, aborts, dev, job, left, sector0, written,
                     i, todo, secCount>>
  BY <1>1 DEF Look, Goto, drive
<1>3. buf' \in [Words -> Word] /\ HighLost'
  BY <1>2, SomeWords DEF HighLost
<1> QED
  BY <1>2, <1>3 DEF DInv, TypeOK, WellFormed, Transferring, Writing

\* DInv is inductive: every other byte of what the driver has read is 0, and
\* the signature is looked for among those.
THEOREM DiskInvariance == Spec => []DInv
<1>1. Init => DInv
  BY Start
<1>2. DInv /\ [Next]_vars => DInv'
  <2> SUFFICES ASSUME DInv, [Next]_vars PROVE DInv'
    OBVIOUS
  <2>1. CASE Next
    BY <2>1, Answers, Installs, ReadsInfo, ReadsWord, WritesByte, WritesOn,
       Formats, Retrieves, Looks DEF Next, Driver
  <2>2. CASE UNCHANGED vars
    BY <2>2 DEF vars, drive, mbr, DInv, TypeOK, WellFormed, Transferring,
                HighLost
  <2> QED
    BY <2>1, <2>2
<1> QED
  BY <1>1, <1>2, PTL DEF Spec
-----------------------------------------------------------------------------
(* What it says. *)

\* The variables of the drive, of ata_pio.c and of mbr.c have their types:
\* what is read and written are words, and the heap's room is kept to.
THEOREM DiskTypes == Spec => []TypeOK
<1>1. DInv => TypeOK
  BY DEF DInv
<1> QED
  BY <1>1, DiskInvariance, PTL

\* Whatever is on the drive and whatever was called before,
\* retrieve_partitions() says that there is no boot record, learns nothing of
\* the partitions and keeps its block, until the heap has none left.
THEOREM NoneRecognised == Spec => NeverRecognised
<1>1. DInv /\ [Next]_vars =>
        [/\ Look => answer' = TRUE /\ parts' = parts /\ taken' = taken
         /\ pc' = "panic" /\ retrieve_partitions => taken = Room]_vars
  BY Looks, Retrieves
<1> QED
  BY <1>1, DiskInvariance, PTL DEF Spec, NeverRecognised

-----------------------------------------------------------------------------
(* How a call comes to its end.                                            *)

\* The driver waits for data only if it has asked for data, or to give some.
Asked ==
  kind = "ata" /\ pc \in {"drqIn", "drqOut"} =>
    dev # "idle" /\ (dev = "busy" => job[1] \in {"read", "write"})

LEMMA StaysAsked ==
  ASSUME Asked, Next
  PROVE  Asked'
<1>1. CASE Answer
  BY <1>1 DEF Answer, Asked, model
<1>2. CASE retrieve_partitions \/ ata_pio_write
  <2>1. PICK c \in {"read", "write"}, lba \in {0, Head(todo)[1]} :
          Command(c, lba) \/ pc' = "panic"
    BY <1>2 DEF retrieve_partitions, ata_pio_write, Goto
  <2>2. CASE pc' = "panic"
    BY <2>2 DEF Asked
  <2>3. CASE Command(c, lba)
    BY <2>3 DEF Command, Asked, model
  <2> QED
    BY <2>1, <2>2, <2>3
<1>3. CASE pc' \notin {"drqIn", "drqOut"}
  BY <1>3 DEF Asked
<1> QED
  BY <1>1, <1>2, <1>3
  DEF Next, Driver, ata_pio_install, WriteMbr, Exists, Identified, ReadInfo,
      AwaitDrq, ReadWord, WriteByte, CacheFlush, wait_ready, Look, Goto

\* ata_pio_read() and ata_pio_write() never wait for the data of a drive that
\* has nothing to do: it works on their command, has data, or has failed.
THEOREM NoIdleWait ==
  Spec => [](kind = "ata" /\ pc \in {"drqIn", "drqOut"} => dev # "idle")
<1>1. Init => Asked
  BY DEF Init, Asked
<1>2. Asked /\ [Next]_vars => Asked'
  BY StaysAsked DEF vars, drive, model, Asked
<1>3. Asked => (kind = "ata" /\ pc \in {"drqIn", "drqOut"} => dev # "idle")
  BY DEF Asked
<1> QED
  BY <1>1, <1>2, <1>3, PTL DEF Spec

\* How far a call is from its end, and a byte that is written from the next.
Phase(p) ==
  IF p \in {"exists", "next"} THEN 4
  ELSE IF p \in {"identified", "drqIn", "drqOut"} THEN 3
  ELSE IF p \in {"info", "read", "write", "flush", "ready"} THEN 2
  ELSE IF p = "look" THEN 1 ELSE 0

Rest(p) == IF p = "write" THEN 2 ELSE IF p = "flush" THEN 1 ELSE 0

\* Fewer sectors are to be written, or a later phase, word or byte is reached.
Nearer ==
  \/ Len(todo') < Len(todo)
  \/ /\ todo' = todo
     /\ \/ Phase(pc') < Phase(pc)
        \/ Phase(pc') = Phase(pc) /\ i < i'
        \/ Phase(pc') = Phase(pc) /\ i' = i /\ Rest(pc') < Rest(pc)

\* Every step of the driver brings the call nearer to its end: no loop of
\* ata_pio_read(), ata_pio_write() or mbr.c goes on without the drive.  With
\* NoIdleWait this is what CallsEnd rests on, fairness apart.
THEOREM CallsComeNearer == Spec => [][Driver => Nearer]_vars
<1>1. DInv /\ [Next]_vars => [Driver => Nearer]_vars
  <2> SUFFICES ASSUME DInv, Driver PROVE Nearer
    BY DEF Next
  <2>1. i \in Nat /\ Last \in Nat
    BY Sizes DEF DInv, TypeOK
  <2>2. CASE ReadWord
    BY <2>1, <2>2 DEF ReadWord, Goto, Nearer, Phase
  <2>3. CASE wait_ready
    <3>1. CASE i < Last
      BY <2>1, <2>3, <3>1 DEF wait_ready, Goto, Nearer, Phase
    <3>2. CASE ~(i < Last)
      <4>1. pc = "ready" /\ todo' = Tail(todo)
        BY <2>3, <3>2 DEF wait_ready, Goto
      <4>2. todo \in Seq(Nat \X Sources) /\ todo # <<>>
        BY <4>1 DEF DInv, WellFormed, Writing
      <4>3. Len(todo') < Len(todo)
        BY ONLY <4>1, <4>2
      <4> QED
        BY <4>3 DEF Nearer
    <3> QED
      BY <3>1, <3>2
  <2>4. CASE \/ Exists \/ Identified \/ ReadInfo \/ AwaitDrq \/ WriteByte
             \/ CacheFlush \/ ata_pio_write \/ Look
    BY <2>4 DEF Exists, Identified, ReadInfo, AwaitDrq, WriteByte, CacheFlush,
                ata_pio_write, Look, Goto, Nearer, Phase, Rest
  <2> QED
    BY <2>2, <2>3, <2>4 DEF Driver
<1> QED
  BY <1>1, DiskInvariance, PTL DEF Spec
====
