# Formal models of Pop Kernel

This directory holds TLA+ models of the kernel under `src/`: specifications
read off the C and assembly sources, TLC configurations that check them on
small instances, and proofs, checked by TLAPS, of what matters most for every
instance. `PROJECT.json` maps each definition to the lines it models.

Paths below are relative to `src/os` of the repository (`kernel/memory/mm.c` is
`src/os/kernel/memory/mm.c`), headers to `include/os`.

## The system

Pop Kernel is a single-tasking i686 kernel. `kmain()` sets up memory,
descriptor tables, interrupts, console and keyboard, looks for an AHCI
controller, and then runs a shell for ever. There is one flow of control, the
main program, and hardware interrupts that preempt it; there are no threads, no
user mode and no file system. It is compiled without optimisation
(`src/CMakeLists.txt`), so a flag shared with an interrupt handler is read from
memory each time.

| Component | State | Operations | What makes it correct |
|---|---|---|---|
| Heap, `kernel/memory/mm.c` | headers in memory, `last_alloc`, `memory_used` | `mm_init`, `malloc`, `free`, panic when full | the chain of headers stays walkable; allocations are disjoint, cleared, and kept |
| Interrupts, `kernel/drivers/irq.c`, `asm/irq.S`, `kernel/drivers/idt.c` | gates, `irq_routines`, the interrupt flag, frames on the stack; outside: the two 8259 controllers | `irq_install`, handler registration, stub, `irq_handler`, `irq_ack`, `iret` | handlers never overlap; each EOI ends the service of its own line |
| Keyboard, `kernel/drivers/keyboard.c` | `kinfo`: shift, one-key mailbox; outside: the byte at port 0x60 | `kbd_handler`, `getkey`, `keyboard_init` | every byte is read; the latest key is never lost; keys come once, in order, shifted as typed |
| Text console, `kernel/drivers/boot_vga.c` | column, row, screen memory, hardware cursor | `bvga_put`, `bvga_nl`, `bvga_clear`, `bvga_mov_cur`, ... | writes stay on the screen; cursor and position agree |
| printf, `libc/stdio/printf.c` | none | formats and prints | conversions |
| Line editor, `kernel/debug.c` | `buf`, `index` | `input` | screen, buffer and what was typed agree |
| Shell, `kernel/main.c` | `buf`, `args` | prompt, line, command | each command ends in the next prompt |
| Arguments, `kernel/args.c`, `kernel/memory/mem2d.c` | rows of characters from the heap | `split_to_args`, `clear_args`, `alloc_2d` | a command reads what was typed, whatever lines came before |
| Paging, `kernel/memory/paging.c` | page directory, next free table | `paging_init`, `paging_map` | none: it is never turned on |
| AHCI and PCI, `kernel/drivers/ahci.c` | port registers, command lists and tables | probe, rebase, `find_cmdslot`, `read` | a command goes to a free slot; every wait ends |
| ATA PIO and MBR, `kernel/drivers/ata_pio.c`, `mbr.c` | the drive, four partition records | read, write, format, retrieve | what is written is what is read |
| Clock, `kernel/drivers/cmos.c`, `kernel/time.c`, `kernel/timeout.c` | the RTC, a deadline | read, normalise, wait | a consistent time; deadlines are noticed |
| Numbers and strings, `libc` | none | `itoa`, `atoi`, ... | agree with their definition |
| Exceptions, `kernel/drivers/isr.c` | table of handlers | `isrs_install` | never installed: nothing calls it |

**How they interact.** Device lines reach the CPU through the controllers and
the stubs, which call `irq_handler()`, which calls the handler registered for
the line: only the keyboard registers one. The keyboard's handler and the main
program share `kinfo` without a lock. The main program is otherwise a stack of
calls: shell, line editor (`getkey()` below, console beside it), argument
splitter over heap rows, commands.

**What is hard.** Interrupts nest, since `irq_handler()` sets the interrupt
flag before its stub has returned. The mailbox is emptied and read in two steps
with interrupts on. A controller acknowledges by priority, not by line. Bytes
that arrive before a handler exists lose their edge. The heap trusts size
fields found in memory. A full screen clears itself by printing. Argument rows
rely on having been wiped after every line before. `PROJECT.json` lists these
and others as hazards, each at its line.

## The modules

```
Allocator.tla   <-- implemented by --  Heap.tla   MCHeap         HeapProofs
Interrupts.tla                                    MCInterrupts   KeyboardProofs
   ^ EXTENDS
Keyboard.tla                                      MCKeyboard     KeyboardProofs
Console.tla                                                      LineInputProofs
   ^ EXTENDS
LineInput.tla                                     MCLineInput    LineInputProofs
CommandLine.tla                                   MCCommandLine  CommandLineProofs
Numbers.tla
   ^ EXTENDS
Boot.tla                                          MCBoot         BootProofs
Ahci.tla                                          MCAhci         AhciProofs
Disk.tla                                          MCDisk         DiskProofs
Clock.tla                                         MCClock        TimeoutProofs
   ^ EXTENDS
Timeout.tla                                       MCTimeout      TimeoutProofs
```

**Heap** models `mm.c` on an array of four-byte words. The arguments of
`malloc` in the kernel (32, 128, 512) are multiples of four, so words lose
nothing. `Malloc(n)` enters the call; `Skip`, `Reuse`, `Extend` and `Panic` are
one iteration of its loop or its end each, with memset, header and counters in
the same step. Nothing else runs inside a call, as no interrupt handler
allocates, but the walk is kept visible because its pointer is what can go
wrong. `Write` is any caller storing into memory it holds; that stores stay
within what was asked for is the callers' side of the contract. `want`,
`blocks` and `shrunk` are history that no action's guard depends on, except
that callers free and write what they hold.

**Allocator** says what callers may rely on, without headers or search order.

**Interrupts** models the dispatch over an external pair of 8259s (edge
triggered, fully nested, everything unmasked, as `irq_remap` programs them).
`Deliver` is gate and stub, `Finish(ack)` the rest of `irq_handler` including a
handler that acknowledges or not, `Iret` the end of the stub. `leaked` is
history: service bits that no EOI will clear again.

**Keyboard** extends Interrupts with the 8042 (external: one byte at the port,
an edge when it is put there, the next only after a read) and with the handler
and `getkey()` in their memory accesses: two port reads, one store to the
mailbox, the test, the reset and the fetch of `getkey()`. The scan codes are
classes: keys, shifts, their releases, error codes, all others. `Load` also
keeps the history variables that say what a person has typed and whether at a
pace the one-key mailbox can follow.

**Console** is `boot_vga.c` without colours: position, screen, cursor.
`bvga_clear()` takes a step per character because it is a loop of `bvga_put()`,
which can call it.

**LineInput** is the shell's loop with `input()` on top of Console, and printf
as the characters it prints. A command is some output, or the clearing of the
screen with or without output, or the end of the loop.

**CommandLine** is `split_to_args`, the reading of the arguments and
`clear_args`, over rows laid out as the heap lays them out: a row, the gap
behind it, then the next header. What a line means is defined independently, by
counting quotes and separators, and the two are compared.

**Ahci** is the driver's life with one port: the probe, which stops, sets up
and starts a port for each SATA drive it finds but passes the first port each
time, then one `read()` after another. Each access to a register that the
controller may change meanwhile is a step. The controller is external and works
from the specification's side of those registers: engines that follow ST and
FRE in their own time, commands that complete in any order, a failure that
stops them all until ST is taken away. A command is known by the number of
sectors that its table asks for. `moved` and `late` are history.

**Boot** is what `kmain()` does before the shell besides interrupts and keyboard:
`paging_init`, the search for a controller, the mapping of its registers, the
probe of its 32 ports, and every number that is printed on the way. Addresses are
real ones, in KiB. Paging is never turned on. `paging.c:39`,
`or %eax, 0x80000001`, is in AT&T syntax (`src/CMakeLists.txt:12` has no `-masm=intel`), where the second
operand is the destination and a number without `$` an address: what is set are
bits of memory, and CR0 gets back what it had. The kernel that the repository
comes with has it so: `isodir/boot/os.bin`, at its root, holds `0f 20 c0 09 05 01 00 00 80 0f
22 c0` at 0x4365. So every address is a physical one, and of the page directory
and its tables only that they are written matters, and where: the memory from 4
MiB on, which `ahci.c` gives to ports as well. `writer` says of each block of 256
bytes of it who has written there last. `ahci_probe_port` calls
`ahci_port_rebase` with the first port and each drive's number; what the first
port has been given is `clb`. Whether the wait in it ends is left open here, as
the port's registers are in Ahci.

**Numbers** is `itoa` and `atoi` as functions on 32-bit integers, with C's
division. Boot uses them for the numbers it prints.

**Disk** is `ata_pio.c` and `mbr.c` over an external drive. The drive takes its
time, may fail a command, and differs from others in what the standard leaves
open and this driver relies on: whether a byte written to the 16-bit data port
counts for a word, and whether a command written in mid-transfer ends it. There
may also be no drive, a floating bus, or an ATAPI drive. `WriteMbr` is
any of `format_mbr`, `mbr_purge` and `mbr_write_part`, reduced to the sectors
they write one after the other. Nothing that is compiled calls any of this at
this commit but `mbr_init`; the commands that would are comments in `kmain`.

**Clock** is `cmos_rtc_gettime()`, called at any time, in any of the four
formats of the registers; the clock may be updated before any of the reads. The
loop that should read until nothing changes compares with a copy just made, so
it is passed at once and has no step of its own. Month and year go the way of
the day.

**Timeout** puts its callers on top: `timeout_start`, then `timeout_tick` and
`timeout_wait` in any order, at instants around the deadline, a minute, an hour
and a day; and the command `td` with the static buffer of `time_zero`. Each of
them is a call of Clock's `GetTime` between two steps of its own. `origin`,
`wide` and `spare` are history and a bound. Nothing that is compiled calls
`timeout.c`.

Where a fault leaves the model's world, the model stops and says so: `pc` is
`"smashed"` when `input()` writes past `buf` or `split_to_args()` past its
rows; `stray` is set when a character is written outside the screen memory.

## What the runs show

| Run | Instance | Distinct states | Shows |
|---|---|---|---|
| `heap` | 16 words, sizes 1 and 2, stored words 0 and 2, account modulo 7 | 38,087 | chain, disjointness, account, growth, termination, refinement |
| `interrupts` | lines 1, 6, 8, 9, 12, nesting 3 | 1,175,000 | exclusion, exact service bits |
| `keyboard` | lines 0 and 1, nesting 2, every class of scan code | 88,572 | no byte overlooked, latest key kept, paced typing exact, liveness |
| `keyboard_works` | the same | - | **violated**: see below |
| `line_input` | 4 by 2 screen, buffer of 9 | 545,000 | screen, cursor, buffer and line agree |
| `command_line` | 3 rows of 2 + 1, all lines up to 5 characters | 234,000 | arguments exact across lines |
| `ahci` | 3 slots, up to 2 drives, reads of 1, 16, 17 and 129 sectors | 5,788 | success is real, tables kept, every wait that may not end |
| `timeout` | real minutes, hours and days, 48 starts, periods of 1, 5 and 130 s, looks at 9 instants, 1 update, 4 formats | 2,943,000 | what a reading, a timeout and td come to |
| `clock_hours` | 12 seconds, 2 minutes, 24 hours, 2 days, 2 updates, 4 formats | - | **violated**: see below |
| `disk` | 2 partitions, sectors of 4 words, one block of heap, all drives | 882,000 | no boot record is recognised; which waits end |
| `boot` | 2 devices, 5 addresses of the registers, 15 ways to fill the ports | 51,487 | the probe and its memory, and what can be read of what is printed |
| `boot_hex` | the same | - | **violated**: see below |

*heap.* `HeapSound` has four parts. `ChainIntact` is the heart: each size field
leads to the next header, after any order of malloc, free, reuse and stores.
`WalkOnHeaders`, `HeldIsUsed` and `HoldersDisjoint` follow what callers see of
it. `PanicJustified` and `GrowOnlyIfFull` say that the heap neither gives up nor
grows while a free block would serve. `AccountExact` says in which histories
`memory_used` is right: as long as no block was reused for less than its size;
after that it drifts. `MallocEnds` and `ImplementsAllocator` speak of the
behaviour as a whole.

*interrupts.* `OneHandlerAtATime` is why `kinfo` needs no lock among handlers
although frames pile up. `InServiceExact` says which lines stay in service: the
one being handled and those that leaked. Lines 8 to 11 always leak, since
`irq_ack()` tells the slave only from 12 on; nothing is attached to them here
that the kernel would miss. Lines above and below the cascade, and both kinds
of slave line, are in the instance.

*keyboard.* `UnreadIsPending` and `ReadUnlessDeaf` say that the driver can stop
hearing the keyboard in two ways only: its handler returned without `irq_ack`
on an error code, or a byte came before `keyboard_init()`. `LatestNotLost` is
about the window between the two steps of `getkey()`: a key may be returned
twice there, never lost. `PacedExact` is the contract for someone who types
no faster than keys are taken. `MailboxEmptied` is the liveness of `getkey()`.

*keyboard_works* checks the feature the README lists (line 3), and fails: after
a byte 0 or 0xFF, which a keyboard sends on an overrun or an internal error,
`kbd_handler()` returns without `irq_ack(1)` (`keyboard.c:103`) and line 1 stays
in service for ever.

*line_input.* `ScreenFaithful` has four parts, and with `LineFaithful` holds
across row ends, backspaces over them, and the clearing of a full screen:
`EchoFaithful`, `CursorShown`, `BlankBehind`, which shows the cell that
`bvga_clear()` never reaches to be the only one that survives it, and
`NoNestedClear`, which is why that cell is left out: one more `bvga_put()` would
clear again. `OverrunsNamed` names the two ways anything else is written: rubbing
out characters whose echo was cleared away leaves the screen memory, and the
63rd character of a line, however it was edited, leaves the buffer. `AsksAgain`
is the liveness of the shell.

*command_line.* `SplitExact` compares with the meaning of the line, after any
lines before; `RowsWiped` is the invariant that makes it true; `SmashedByLine`
bounds the lines that break out of the rows.

*ahci.* `TrueMeansRead`: although CI and the error bit are read one after the
other, and a failed command may leave CI like a completed one, `true` is
returned only when this command has completed, and it was for the sectors asked
for as long as these fit one entry; beyond 16 sectors the loop over the entries
has used up `count` and less is asked for. `TablesKept`: no table of an issued
command is changed, by later reads, after failures or by the probe, unless a
read needs more entries than a table has. `CallsEnd` names the two ways to wait
for ever. One is a port whose receiving engine runs when it is stopped (`Hung`):
the loop waits for FR to fall before FRE is taken away. A second SATA drive
leads there. The other is a command issued after a failure, or before any
start: nothing restarts the port and the loop looks for an error bit that was
cleared. The number of slots is read wrongly from CAP, but on the one
controller that `check_device` accepts it leaves 15, and since calls wait for
their command, one is enough.

*timeout.* `QuietExact`: without an update during the reads the result is the
time, in each format, but for noon and midnight. `NeverBehind`, in the 24-hour
formats: with updates, the order of the reads, lowest first, makes the result at
least the time of the call's start; it may be ahead by up to the largest field
that turned over. `TimeoutTypeOK` adds that the result is always a possible
time. `ExpiresExactly` says when a timeout is over: `ADD_NEXT` divides by 59
where there are 60, so the deadline is late by a second for each minute carried
and a minute for each hour; `timeout_wait` sees it in one second only,
`timeout_tick` until midnight, and neither ever does when it lies beyond
midnight. `LastDigitStays`: `dec_to_str` writes in front of the buffer it is
given, so an hour or minute below ten appears with the last digit of whatever
larger number was shown last.

*clock_hours* checks the comment at `cmos.c:58`, "convert 12h clock to 24h if
necessary", and fails: 12 pm comes out as 0 and 12 am as 12.

*disk.* `NeverRecognised`: whatever is on the drive and whatever was written
before, `retrieve_partitions` finds no signature, since `ata_pio_read` keeps
eight bits of each word; it never gives back its block, and with the heap used
up that way it does not return. That contradicts the "MBR reading/writing" of
`README.md:4`, which nothing that is compiled relies on. What `parse_partition`
would make of an entry is in the model and is never reached. `CallsEnd`: a call ends in spite of the flush
after each byte, whichever way the drive takes that, unless the drive has
reported an error, for which the wait for DRQ does not look, or is no ATA drive.

*boot.* `ProbeExact` has four parts. `Physical`: paging is off, and addresses mean
the same to the driver and to the controller. `RegistersFound`: the registers are
those of the first controller that has an address; if there is none,
`ahci_brute_force` returns 0, which nothing looks at, and the probe takes the
memory at 0 for registers. `LastGiven`: whichever ports have drives, it is the
first port that is set up, with the memory of the last of their numbers.
`AreasKept`: since the first port goes from one number's memory to the next, what
is set up for a number may not touch what another had; lists, receive areas and
tables are laid side by side by shifts (`<< 10`, `<< 8`, `<< 13`) on top of the
page directory and the page tables, and two numbers never meet. `PrintedExact`:
decimal numbers can be read back by `atoi` but for the most negative one; the
characters of a hexadecimal one add up to it, but those of a negative one, as
addresses from 2 GiB on are, are made of negative remainders and are not digits
(1 below "0" is "/"); and every number is on the screen but those that
`paging_init` prints, before `bvga_init` has said where the screen is.

*boot_hex* checks the comment at `itoa.c:34-35`, "In standard itoa(), negative
numbers are handled only with base 10. Otherwise numbers are considered
unsigned.", and fails: the address of a controller at 2 GiB or above, where
firmware usually puts it, is printed by `paging_map` as characters that are no
digits.

**Bounds.** The heap instance holds up to four blocks of either size, with room
for one to be freed, reused smaller and leave a remainder, and for the end of
the heap to fall at every offset within a block. The modulus of 7 makes the
account wrap. Three nested frames show a second interrupt on top of a leaving
one and one more. A screen of two rows puts every row next to both ends, and
the buffer holds lines longer than a row and than a screen. Lines of five
characters overflow the table of rows, a row, and a row with its gap.
`MaxNest` stands for the stack: what happens beyond it is not modelled. Of the
three slots the driver uses two (`NCS` = 2), so a table can spill into one it
uses and one it does not; 17 sectors need a second entry and 129 a ninth. The clock has
its real lengths in `timeout`: starts at 12 minutes and at two seconds before
each hour, and periods that carry no, one and two minutes, an hour, or the day;
the looks fall before the deadline, at it, at each delay that can occur and a
day later. One update in all may fall into the calls. A sector of four words has
one of code, two entries and the signature, and `Skip` = 1 makes the writing
loop run off its buffer as the real one does. The addresses in `boot` lie in the
first, second and last GiB, at 2 GiB, where the number has no opposite, and in
the last 4 MiB; drives are at ports whose memory is next to each other's, at both
ends, at all 32 or at none, and the other ports are empty, absent or have
something else.

**Fairness.** A call that runs goes on running: weak fairness of `Step` in Heap
and LineInput, of `Handler` in Keyboard. What interrupts can hold up again and
again (the main program, the return from an interrupt, an interrupt waiting for
the flag) gets strong fairness, for the CPU executes whichever is innermost and
returns to the others. The AHCI
controller follows its control bits and answers commands that it works on
(`Follow`, `Answer`), and so does the ATA drive, without which no wait for
them ends; a step of the ATA driver is weakly fair, like the others. Whether the drive is
busy, other devices, callers and people get no fairness, and `timeout` and
`boot`, which check safety only, none at all. Main-program
progress also needs interrupts that do not come back to back for ever, which is
the hypothesis `[]<>(frames = <<>>)` of `MailboxEmptied`.

## What is proved

Every safety property that a passing run checks is also a theorem, for every
value of the constants that the assumptions admit.

| Module | Theorems | State |
|---|---|---|
| HeapProofs | `TypeCorrect`, `Sound`, `Disjoint`, `OutOfMemory`, `GrowthJustified`, `Accounted` | `TypeOK`, `HeapSound`, `HoldersDisjoint`, `PanicJustified`, `GrowOnlyIfFull`, `AccountExact` |
| | `Implements` | `Spec => ImplementsAllocator` |
| | `WalkGoesUp` | the variant behind `MallocEnds` |
| KeyboardProofs | `InterruptTypes`, `Exclusive`, `InService` | `IrqTypeOK`, `OneHandlerAtATime`, `InServiceExact` |
| | `KeyboardTypes`, `NothingOverlooked`, `LatestKept`, `TypedIsReturned` | `TypeOK`, `UnreadIsPending`, `LatestNotLost`, `PacedExact` |
| LineInputProofs | `LineInputTypes`, `ScreenShowsLine`, `LineHandedOver`, `OverrunsAreNamed` | `TypeOK`, `ScreenFaithful`, `LineFaithful`, `OverrunsNamed` |
| | `StepsComeNearer` | the variant behind `AsksAgain` |
| CommandLineProofs | `CommandLineTypes`, `SplitIsExact`, `RowsAreWiped`, `OnlyLinesSmash` | `TypeOK`, `SplitExact`, `RowsWiped`, `SmashedByLine` |
| BootProofs | `BootTypes`, `Probing`, `Printing` | `TypeOK`, `ProbeExact`, `PrintedExact` |
| AhciProofs | `AhciTypes`, `TrueIsRead`, `TablesStay` | `TypeOK`, `TrueMeansRead`, `TablesKept` |
| | `NoVainWait`, `StopNeverEnds`, `FailedForGood` | what `read` waits for, and that what `CallsEnd` excepts lasts |
| DiskProofs | `DiskTypes`, `NoneRecognised` | `TypeOK`, `NeverRecognised` |
| | `NoIdleWait`, `CallsComeNearer` | what the loops wait for, and the variant behind `CallsEnd` |
| TimeoutProofs | `TimeoutTypes`, `QuietIsExact`, `IsNeverBehind`, `LastDigitIsLeft`, `Expires` | `TimeoutTypeOK`, `QuietExact`, `NeverBehind`, `LastDigitStays`, `ExpiresExactly` |

Each module also states its inductive invariant as a theorem
(`Invariance`, `InterruptInvariance`, `KeyboardInvariance`, ...).

**Assumptions.** What the constants may be, and why the code is within it:

- *Heap*: there is room for the block `mm_init` asks for, sizes are positive, and
  a size with its header and gap is less than the counter's 2^32.
- *Interrupts, Keyboard*: lines are those of the two controllers but the cascade,
  and line 1 is among them; keys are not the bytes the driver tells apart.
- *Console, LineInput*: the screen has at least two rows and columns; the length
  of the buffer and twice the size of the screen fit the 32 bits of an unsigned
  (64 and 2000 in the kernel); the prompt is not empty, and prints no newline.
- *CommandLine*: there is at least one row, it has room for a character, and a
  gap behind it (32 rows of 32 and the four bytes behind a payload).
- *Boot*: the controller's registers begin at or above 8 MiB, and so above the
  memory that the probe writes to, and below 4 GiB; there are 32 ports. The boot
  loader leaves protection on and paging off, as the Multiboot standard says.
- *Ahci*: a read asks for 1 to 16 * 65535 sectors, beyond which the 16 bits that
  hold the number of entries (`ahci.c:158`) do not suffice; NCS is a field of
  five bits.
- *Disk*: one to four entries, as in an MBR; a drive of at least one sector; and
  `ata_pio_write` leaves out some of the first words of its buffer, four in the
  code (`Skip`).
- *Clock, Timeout*: a minute has 60 seconds, an hour 60 minutes; a timeout is of
  at most 196 seconds, which with the 59 that it may begin at fit the eight bits
  of `second`. Any number of updates may fall into a call.

**Arguments.** An invariant above is seldom inductive alone; what was missing:

*Heap.* That `Extend` may put a header at `last_alloc`, or `Free` clear one,
needs to know that payloads lie between headers, that holders and used blocks
correspond, that the walk has passed over every free block that would serve, and
that it stands on a header. `IInv` is the conjunction of these with the types. A
store by a caller is the interesting action, since it must not touch a header,
which follows from `HeldIsUsed` and the spacing of the chain. `HoldersDisjoint`
is a consequence rather than a part. `Accounted` counts words: blocks are apart, so a block
that comes into use or leaves it changes their number by its own length
(`IntervalCounts`), and the counter follows modulo its width (`PlusCounts`,
`MinusCounts`). The refinement maps `held` to `want` and the contents to memory
that is held; `Reuse` and `Extend` are `Allocate`, `Free` is `Release`, `Write`
is `Store`, `Panic` is `Exhausted` and the walk stutters.

*Interrupts.* An EOI clears the highest line in service, so `InServiceExact`
needs to know that the line being handled is that one: `CurrentFirst`. A line is
delivered only if it outranks all in service, and nothing is delivered while a
handler runs, which is `OneHandlerAtATime`; so the three are proved together.

*Keyboard.* Its steps are steps of Interrupts or leave it alone, so that `Inv`
carries over. `HandlerOn` ties the place in `kbd_handler` to the stack of frames,
`BootOrder` says what cannot have happened before `keyboard_init`, `Latest`
that what `getkey` goes back to waiting or returns with is the latest key, unless
the mailbox is full again, and `Paced` follows a byte
from its edge to the mailbox and from there to the caller.

*LineInput.* A backspace over the end of a row leaves the row and wraps the
unsigned column. What moves with the index is `Pos`, the position with that
column read as a signed number; `InRow` bounds it, `Editing` and `Asked` tie it
to the line and to where the prompt ended, `Wiping` to what `bvga_clear` has
written, `Blanks` to what that leaves behind the cursor, and `HandedOver` says that the
buffer is the line once `input` has returned.

*CommandLine.* A line's meaning is defined by counting quotes and separators in
it. `Parsed` says that the variables of `split_to_args` are those counts up to
where it reads, `Filled` that the rows hold what has been read of each argument,
`Counted` that the number returned is that of the line's arguments, and `Used`
and `Between` that no other rows hold anything, and none between lines.

*Boot.* `Order` says which tables are taken when, that nothing is set up before the
probe, and for whom a rebase is; `Searched` that there was no controller with an
address where the search has been. `AreasKept` then follows from `AreasApart`: the
memory of two numbers has no block in common. `PInv` says of every number on the
line that it was printed by `itoa`, and where to: to address 0 until `bvga_init`,
whose predecessors' numbers are still the last when it has run. That such a
number reads back is about `Numbers` alone. A text `Says` a number if its digits from the right add
up to it; `Digits` makes such a text of every integer by induction
(`DigitsSay`), and what `atoi` sums up of it from the left is that number again,
by induction over the characters read (`DecimalValues`, `DecimalReadBack`). A
digit made of a negative remainder is no digit of base 16 (`HexReadBack`). The
induction is that of the library's `WFMin` on the natural numbers, taken over
sets of them (`SetInduction`); that the recursive functions exist at all is
proved first, from functions on `0 .. n` that agree (`ApproximationsAgree`).

*Ahci.* No command but `read()`'s own is in its slot from the moment the slot was
found free (`Claimed`, `Written`), and a command leaves CI only when completed or
with the error bit set, which stays until the next `read()` (`Outcome`).
`FailedForGood` needs besides that once the probe is over nothing clears what a
failure leaves behind (`Stalled`).

*Disk.* `HighLost`: every second byte of what was read is 0. With `WellFormed`
and `Transferring`, which type what drive and driver exchange.

*Clock and Timeout.* The registers are read from the second to the day. `Ahead`
says, between two reads, that the result would not be behind if the rest were
taken from the clock as it stands; `Quiet` says what has been read decodes to the
start of the call, if nothing was updated. `Given`, `Started` and `DigitLeft` are
what the callers keep between calls. The lateness of a deadline is arithmetic
(`Normalized`): what dividing by 59 makes of up to 255 seconds.

**Termination.** The liveness properties themselves rest on fairness and
ENABLED, which are beyond the prover. What it proves is the part of the argument
that is about the code. In Heap each step of the walk goes up to another
header, and the heap does not change meanwhile, so it has as many steps as there
are blocks below `last_alloc`, at most. In LineInput every step of the program
lessens, in lexicographic order: the places on the way to `input`, the
characters to print, the calls of `bvga_clear`, and what they have left; that a
`bvga_clear` does not call another is what the invariant is needed for. In Disk
a step of the driver lessens the sectors to write, the phases of the call, the
words, and what is to be done for one; and where it waits, the drive is at work,
ready, or has failed (`NoIdleWait`, where a drive that ignores a command while it
has data is the case to think of). In Ahci the same holds of the wait for CI
(`NoVainWait`), whose loop polls what the controller changes and has no variant.
What is left to fairness is that a step which can be taken is taken, and that the
drive answers.

**Only model-checked.** `ReadUnlessDeaf` and `MailboxEmptied`, entirely; of the
other liveness properties the step from the theorems above to "eventually".

## What is not modelled

- Spurious interrupts and the depth of the stack.
- Colours, `bvga_set_pos` and the carriage return, which nothing prints; the
  floating-point conversion of `printf`, which nothing uses.
- What lies behind a buffer once it has been overrun, and what the text printed
  before `bvga_init()` does to the memory at address 0.
- What the entries of the page directory and its tables say, as the processor
  never reads them; what the or of `paging.c:39` hits in memory at 0x80000001; and
  what the probe writes to low memory when it takes that for a controller.
- Addresses in MBR entries, the month and year of the clock and their names.
- Exceptions: `isrs_install()` is never called. `libc/stdlib/malloc.c` is one
  comment; `sata.c.old` and `pci.c.old` are not compiled.
- GDT, IDT loading, port access, strings: straight-line code, modelled by what
  it does where it is used.

## Plan

Modelled and checked: Heap with its abstract specification, Interrupts, Keyboard,
Console and LineInput, CommandLine, Boot and Numbers, Ahci, Disk, Clock and
Timeout. Proved: the safety of all of them, and the variants of Heap, LineInput
and Disk. What is left:

1. Abstract specifications of the keyboard (a one-key mailbox) and of the
   arguments (a function of the line) as refinements, as Allocator is for Heap.
2. A variant for the loop of `getkey`, relative to the interrupts that come.
