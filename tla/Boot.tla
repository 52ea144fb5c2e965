-------------------------------- MODULE Boot --------------------------------
(***************************************************************************)
(* What kmain() does before the shell: paging.c, the search of ahci.c for  *)
(* a controller on the PCI bus, the memory that the probe gives to its     *)
(* ports, and the numbers that are printed on the way.  The registers of a *)
(* port are in Ahci.tla, interrupts in Interrupts.tla.                     *)
(*                                                                         *)
(* Addresses are in KiB, of which there are 2^22.  Of the memory from 4    *)
(* MiB on, which paging.c and ahci.c both take for their own, it is        *)
(* recorded who has written to each block of 256 bytes last.  What the     *)
(* page directory and its tables say is left out: the processor never      *)
(* reads them, see Enable.                                                 *)
(***************************************************************************)
EXTENDS Numbers

CONSTANTS
  Places,     \* 256 buses of 32 devices: where the search looks
  Bars,       \* where firmware may put the registers of the controller
  OtherBars,  \* what other devices have in that register
  HeapBytes,  \* heap_end - heap_begin
  PortKinds   \* what may be at the 32 ports

Space == 4194304
MiB4  == 4096

Kinds == {"absent", "none", "sata", "other"}

ASSUME BootAssumption ==
  /\ Places \in Nat
  /\ Bars \subseteq (2 * MiB4) .. (Space - 1)
  /\ OtherBars \subseteq 0 .. (Space - 1)
  /\ HeapBytes \in Nat
  /\ PortKinds \subseteq [0 .. 31 -> Kinds]

VARIABLES
  pc,         \* where kmain() is
  config,     \* what is at each place of the PCI bus
  place,      \* the place that the search looks at
  bar5,       \* what it has found
  page_prev,  \* number of the next page table
  cr0,        \* the bits of CR0 that are set
  struck,     \* the bits that were set in memory at 0x80000001
  writer,     \* who has written to each block from 4 MiB on
  kinds,      \* what is at the ports
  i,          \* the port that the probe looks at
  clb,        \* the number whose list the first port has been given
  buffer,     \* tinfo.buffer, where text goes
  line        \* the numbers printed last

vars == <<pc, config, place, bar5, page_prev, cr0, struck, writer, kinds, i,
          clb, buffer, line>>

Goto(from, to) == pc = from /\ pc' = to

-----------------------------------------------------------------------------
(* Memory from 4 MiB on. *)

Blocks == 0 .. 1183

Nobody == -1
Paging == -2   \* and a port by its number

Write(who, blocks) ==
  writer' = [b \in Blocks |-> IF b \in blocks THEN who ELSE writer[b]]

\* page_inf.pdir is at 0x400000, with 64 entries in a block, and the tables
\* are at 0x404000.
Entry(id) == {id \div 64}
Table(n) == (64 + 16 * n) .. (79 + 16 * n)

\* What ahci_port_rebase() takes for a port number: a list of commands, an area
\* for what is received, and a table for each of 32 commands.
List(portno)     == (4 * portno) .. (4 * portno + 3)
Received(portno) == {128 + portno}

\* Variant: a table for half the commands.
HalfTables(portno) == (160 + 16 * portno) .. (160 + 16 * portno + 31)

Tables(portno) == (160 + 32 * portno) .. (160 + 32 * portno + 31)

Areas(portno) == List(portno) \cup Received(portno) \cup Tables(portno)

-----------------------------------------------------------------------------
(* paging.c *)

\* An address as an int.
Int32(kib) == (IF kib < Space \div 2 THEN kib ELSE kib - Space) * 1024

Text(num, base) == [num |-> num, base |-> base, text |-> itoa(num, base),
                    at |-> buffer]

Id(virt) == virt \div MiB4

\* What is printed of phys is where the loop has ended.
paging_map(virt, phys) ==
  /\ Write(Paging, Table(page_prev) \cup Entry(Id(virt)))
  /\ page_prev' = page_prev + 1
  /\ line' = <<Text(Int32(virt), 16), Text(Id(virt), 10),
               Text(Int32((phys + MiB4) % Space), 16)>>

\* memset() clears 1024 bytes, not entries.
paging_init ==
  /\ Goto("start", "low")
  /\ Write(Paging, 0 .. 3)
  /\ page_prev' = 0
  /\ UNCHANGED <<config, place, bar5, cr0, struck, kinds, i, clb, buffer,
                 line>>

MapLow ==
  /\ \/ Goto("low", "high") /\ paging_map(0, 0)
     \/ Goto("high", "enable") /\ paging_map(MiB4, MiB4)
  /\ UNCHANGED <<config, place, bar5, cr0, struck, kinds, i, clb, buffer>>

\* In the syntax of the assembler the second operand is the destination, and
\* without a $ it is an address: the bits of eax go to memory at 0x80000001,
\* and CR0 is given back what it had.
Enable ==
  /\ Goto("enable", "vga")
  /\ LET eax == cr0
     IN  struck' = struck \cup eax /\ cr0' = eax
  /\ UNCHANGED <<config, place, bar5, page_prev, writer, kinds, i, clb,
                 buffer, line>>

Screen == 736   \* 0xB8000

\* It is only here that text begins to go to the screen.
bvga_init ==
  /\ Goto("vga", "ram")
  /\ buffer' = Screen
  /\ UNCHANGED <<config, place, bar5, page_prev, cr0, struck, writer, kinds,
                 i, clb, line>>

-----------------------------------------------------------------------------
(* ahci.c, and what kmain() prints around it *)

Printed(numbers) == line' = [k \in 1 .. Len(numbers) |-> Text(numbers[k], 10)]

AvailableRam ==
  /\ Goto("ram", "search")
  /\ Printed(<<HeapBytes>>)
  /\ UNCHANGED <<config, place, bar5, page_prev, cr0, struck, writer, kinds,
                 i, clb, buffer>>

\* Variant: the vendor is looked at, and not the device.
check_vendor(device) == IF device.id = "none" THEN 0 ELSE device.bar

check_device(device) == IF device.id = "ahci" THEN device.bar ELSE 0

\* ahci_brute_force(): the first controller with an address, else 0.
Search ==
  /\ bar5' = IF place < Places THEN check_device(config[place]) ELSE 0
  /\ IF place < Places /\ bar5' = 0
     THEN pc = "search" /\ place' = place + 1 /\ UNCHANGED pc
     ELSE Goto("search", "map") /\ UNCHANGED place
  /\ UNCHANGED <<config, page_prev, cr0, struck, writer, kinds, i, clb,
                 buffer, line>>

\* KERN_VMBASE is a multiple of 2^32, so that nothing is left of it.
MapRegisters ==
  /\ Goto("map", "abar")
  /\ paging_map(bar5, bar5)
  /\ UNCHANGED <<config, place, bar5, cr0, struck, kinds, i, clb, buffer>>

\* ahci_probe_port() begins.  If there is no controller it takes the memory at
\* 0 for its registers, and finds there what it may.
AhciProbe ==
  /\ Goto("abar", "probe")
  /\ Printed(<<Int32(bar5), Int32(bar5)>>)
  /\ kinds' \in PortKinds
  /\ i' = 0
  /\ UNCHANGED <<config, place, bar5, page_prev, cr0, struck, writer, clb,
                 buffer>>

\* The loop over the ports.  AHCI_DEV_NULL is 0.
ProbePort ==
  /\ i < 32
  /\ \/ kinds[i] = "absent" /\ UNCHANGED line
     \/ kinds[i] = "none" /\ Printed(<<i, 0>>)
     \/ kinds[i] \in {"sata", "other"} /\ Printed(<<i>>)
  /\ IF kinds[i] = "sata"
     THEN Goto("probe", "rebase") /\ UNCHANGED i
     ELSE pc = "probe" /\ i' = i + 1 /\ UNCHANGED pc
  /\ UNCHANGED <<config, place, bar5, page_prev, cr0, struck, writer, kinds,
                 clb, buffer>>

\* ahci_port_rebase(), if it does not wait there for ever.  What it is passed
\* is the first port, abar->ports, with the number of this one.
Rebase ==
  /\ \/ /\ Goto("rebase", "probe")
        /\ Write(i, Areas(i)) /\ clb' = i
        /\ i' = i + 1
     \/ Goto("rebase", "hung") /\ UNCHANGED <<writer, clb, i>>
  /\ UNCHANGED <<config, place, bar5, page_prev, cr0, struck, kinds, buffer,
                 line>>

\* The version is 0.0.2.
Shell ==
  /\ i = 32
  /\ Goto("probe", "shell")
  /\ Printed(<<0, 0, 2>>)
  /\ UNCHANGED <<config, place, bar5, page_prev, cr0, struck, writer, kinds,
                 i, clb, buffer>>

-----------------------------------------------------------------------------
Devices == {[id |-> "none", bar |-> 0]}
             \cup [id : {"other"}, bar : OtherBars]
             \cup [id : {"ahci"}, bar : Bars \cup {0}]

NoPorts == [p \in 0 .. 31 |-> "absent"]

\* Any devices.  The boot loader leaves protection on and paging off.
Init ==
  /\ pc = "start"
  /\ config \in [0 .. (Places - 1) -> Devices]
  /\ place = 0 /\ bar5 = 0
  /\ page_prev = 0
  /\ cr0 = {"PE"} /\ struck = {}
  /\ writer = [b \in Blocks |-> Nobody]
  /\ kinds = NoPorts /\ i = 0 /\ clb = Nobody
  /\ buffer = 0 /\ line = <<>>

Next ==
  \/ paging_init \/ MapLow \/ Enable \/ bvga_init
  \/ AvailableRam \/ Search \/ MapRegisters
  \/ AhciProbe \/ ProbePort \/ Rebase \/ Shell

Spec == Init /\ [][Next]_vars

-----------------------------------------------------------------------------
(* Properties *)

\* Types of the variables.
TypeOK ==
  /\ pc \in {"start", "low", "high", "enable", "vga", "ram", "search", "map",
             "abar", "probe", "rebase", "shell", "hung"}
  /\ config \in [0 .. (Places - 1) -> Devices]
  /\ place \in 0 .. Places
  /\ bar5 \in Bars \cup {0}
  /\ page_prev \in 0 .. 3
  /\ cr0 \subseteq {"PE", "PG"} /\ struck \subseteq {"PE", "PG"}
  /\ writer \in [Blocks -> {Nobody, Paging} \cup 0 .. 31]
  /\ kinds \in PortKinds \cup {NoPorts}
  /\ i \in 0 .. 32 /\ clb \in {Nobody} \cup 0 .. 31
  /\ buffer \in {0, Screen}

\* The numbers that ahci_port_rebase() has been called with.
SetUp == {p \in 0 .. 31 : p < i /\ kinds[p] = "sata"}

\* An address is what the memory bus gets, so that controller and driver mean
\* the same by it: paging is never on.
Physical == "PG" \notin cr0

\* What the probe takes for the registers is the first controller that has an
\* address, or the memory at 0 if none has.
RegistersFound ==
  pc \in {"map", "abar", "probe", "rebase", "shell", "hung"} =>
    LET has == {p \in DOMAIN config :
                  config[p].id = "ahci" /\ config[p].bar # 0}
    IN  IF has = {} THEN bar5 = 0
        ELSE \E p \in has : (\A q \in has : p <= q) /\ bar5 = config[p].bar

\* The memory of a number is as it was left when it was set up, whatever other
\* numbers have been set up since.
AreasKept == \A p \in SetUp : \A b \in Areas(p) : writer[b] = p

\* The first port has that of the last number, wherever the drives are.
LastGiven ==
  IF SetUp = {} THEN clb = Nobody
  ELSE clb \in SetUp /\ \A p \in SetUp : p <= clb

\* What the probe makes of a controller and its drives, on any bus.
ProbeExact == Physical /\ RegistersFound /\ AreasKept /\ LastGiven

\* The numbers printed before bvga_init() has run are not on the screen.
Unseen == pc \in {"high", "enable", "vga", "ram"}

\* Decimal numbers can be read back by atoi(), unless there is no opposite.
\* The characters of a hexadecimal one add up to it; but those of a negative
\* one, as all addresses from 2 GiB on are, are not digits.  All of them are on
\* the screen but those of paging_init().
PrintedExact ==
  \A k \in 1 .. Len(line) :
    LET p == line[k]
    IN  /\ p.base = 10 => (atoi(p.text) = p.num <=> p.num # MinInt)
        /\ p.base = 16 => /\ HexValue(p.text) = p.num
                          /\ Legible(p.text) <=> p.num >= 0
        /\ p.at = Screen <=> ~Unseen

\* "Numbers are considered unsigned" in other bases than ten, itoa.c:34: what
\* is printed of an address consists of digits.
HexUnsigned ==
  \A k \in 1 .. Len(line) : line[k].base = 16 => Legible(line[k].text)
=============================================================================
