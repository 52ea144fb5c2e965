----------------------------- MODULE BootProofs -----------------------------
(***************************************************************************)
(* Proofs about Boot.tla, for all devices on the bus, every address that   *)
(* the registers may have, and every choice of what is at the ports.       *)
(*                                                                         *)
(* BInv says which step of kmain() has done what: how many tables are      *)
(* taken, that no port is set up before the probe, and that the search has *)
(* found nothing where it has looked.                                      *)
(*                                                                         *)
(* What itoa() and atoi() compute is proved by induction over how far they *)
(* have written or read, the recursive functions being shown to exist.     *)
(***************************************************************************)
EXTENDS Boot, WellFoundedInduction, TLAPS

\* Tables are taken in order, and ports set up at the end, one by one.
Order ==
  /\ pc \in {"start", "low"} => page_prev = 0
  /\ pc = "high" => page_prev = 1
  /\ pc \in {"enable", "vga", "ram", "search", "map"} => page_prev = 2
  /\ pc \notin {"probe", "rebase", "shell", "hung"} => i = 0
  /\ pc = "rebase" => i < 32 /\ kinds[i] = "sata"

\* The search goes on as long as there was nothing.
Searched ==
  pc \notin {"map", "abar", "probe", "rebase", "shell", "hung"} =>
    \A p \in 0 .. (place - 1) : check_device(config[p]) = 0

BInv == TypeOK /\ Order /\ Searched /\ ProbeExact

-----------------------------------------------------------------------------
LEMMA Sizes ==
  Space = 4194304 /\ MiB4 = 4096
BY DEF Space, MiB4

LEMMA BarIsNumber ==
  ASSUME TypeOK
  PROVE  bar5 \in Int
<1>1. ASSUME NEW bar \in Bars PROVE bar \in Int
  <2> DEFINE low == 2 * MiB4
             high == Space - 1
  <2>1. low \in Int /\ high \in Int
    BY Sizes
  <2>2. bar \in low .. high
    BY BootAssumption, Zenon
  <2> HIDE DEF low, high
  <2> QED BY <2>1, <2>2
<1> QED BY <1>1 DEF TypeOK

LEMMA WriterTypes ==
  ASSUME NEW who \in {Paging} \cup 0 .. 31, NEW blocks, Write(who, blocks), TypeOK
  PROVE  writer' \in [Blocks -> {Nobody, Paging} \cup 0 .. 31]
BY DEF Write, TypeOK

LEMMA DeviceHas ==
  ASSUME NEW device \in Devices
  PROVE  /\ check_device(device) \in Bars \cup {0}
         /\ check_device(device) # 0 <=> device.id = "ahci" /\ device.bar # 0
         /\ check_device(device) # 0 => check_device(device) = device.bar
BY DEF Devices, check_device

\* The areas of two ports have no block in common.
LEMMA AreasApart ==
  ASSUME NEW p \in 0 .. 31, NEW q \in 0 .. 31, p # q
  PROVE  Areas(p) \cap Areas(q) = {}
BY DEF Areas, List, Received, Tables

LEMMA AreasInMemory ==
  ASSUME NEW p \in 0 .. 31
  PROVE  Areas(p) \subseteq Blocks
BY DEF Areas, List, Received, Tables, Blocks

LEMMA NoneSetUp ==
  ASSUME i = 0
  PROVE  SetUp = {}
BY DEF SetUp

-----------------------------------------------------------------------------
LEMMA Starts ==
  Init => BInv
<1> SUFFICES ASSUME Init PROVE BInv
  OBVIOUS
<1> USE DEF Init
<1>1. TypeOK
  BY BootAssumption DEF TypeOK
<1>2. Order
  BY DEF Order
<1>3. Searched
  BY DEF Searched
<1>4. SetUp = {}
  BY NoneSetUp, Zenon
<1>5. Physical /\ RegistersFound
  BY DEF Physical, RegistersFound
<1>6. AreasKept /\ LastGiven
  BY <1>4 DEF AreasKept, LastGiven
<1> QED BY <1>1, <1>2, <1>3, <1>5, <1>6 DEF BInv, ProbeExact

\* What paging_map() does to the types.
LEMMA MapTypes ==
  ASSUME TypeOK, NEW virt, NEW phys, paging_map(virt, phys), page_prev < 3
  PROVE  /\ page_prev' \in 0 .. 3
         /\ writer' \in [Blocks -> {Nobody, Paging} \cup 0 .. 31]
<1>1. page_prev' = page_prev + 1 /\ page_prev \in 0 .. 3
  BY DEF paging_map, TypeOK
<1>2. Write(Paging, Table(page_prev) \cup Entry(Id(virt)))
  BY DEF paging_map
<1> QED BY <1>1, <1>2, WriterTypes

LEMMA TypesKept ==
  ASSUME BInv, [Next]_vars
  PROVE  TypeOK'
<1>0. TypeOK /\ Order
  BY DEF BInv
<1>1. CASE paging_init
  <2>1. writer' \in [Blocks -> {Nobody, Paging} \cup 0 .. 31]
    BY <1>0, <1>1, WriterTypes DEF paging_init
  <2> QED BY <1>0, <1>1, <2>1 DEF paging_init, Goto, TypeOK
<1>2. CASE MapLow
  <2>1. page_prev < 3
    BY <1>0, <1>2 DEF MapLow, Goto, Order
  <2>2. /\ page_prev' \in 0 .. 3
        /\ writer' \in [Blocks -> {Nobody, Paging} \cup 0 .. 31]
    BY <1>0, <1>2, <2>1, MapTypes DEF MapLow
  <2> QED BY <1>0, <1>2, <2>2 DEF MapLow, Goto, TypeOK
<1>3. CASE Enable
  BY <1>0, <1>3 DEF Enable, Goto, TypeOK
<1>4. CASE bvga_init
  BY <1>0, <1>4 DEF bvga_init, Goto, TypeOK
<1>5. CASE AvailableRam
  BY <1>0, <1>5 DEF AvailableRam, Goto, TypeOK
<1>6. CASE Search
  <2>1. place < Places => config[place] \in Devices
    BY <1>0, BootAssumption DEF TypeOK
  <2>2. bar5' \in Bars \cup {0}
    BY <1>6, <2>1, DeviceHas DEF Search
  <2>3. place' \in 0 .. Places /\ pc' \in {"search", "map"}
    <3>1. place \in 0 .. Places /\ Places \in Nat
      BY <1>0, BootAssumption DEF TypeOK
    <3>2. \/ place < Places /\ place' = place + 1 /\ pc' = "search"
          \/ place' = place /\ pc' = "map"
      BY <1>6 DEF Search, Goto
    <3> QED BY <3>1, <3>2
  <2> QED BY <1>0, <1>6, <2>2, <2>3 DEF Search, TypeOK
<1>7. CASE MapRegisters
  <2>1. page_prev < 3
    BY <1>0, <1>7 DEF MapRegisters, Goto, Order
  <2>2. /\ page_prev' \in 0 .. 3
        /\ writer' \in [Blocks -> {Nobody, Paging} \cup 0 .. 31]
    BY <1>0, <1>7, <2>1, MapTypes DEF MapRegisters
  <2> QED BY <1>0, <1>7, <2>2 DEF MapRegisters, Goto, TypeOK
<1>8. CASE AhciProbe
  BY <1>0, <1>8 DEF AhciProbe, Goto, TypeOK
<1>9. CASE ProbePort
  <2>1. i' \in 0 .. 32 /\ pc' \in {"probe", "rebase"}
    <3>1. i \in 0 .. 31
      BY <1>0, <1>9 DEF ProbePort, TypeOK
    <3>2. \/ pc' = "rebase" /\ i' = i
          \/ pc' = "probe" /\ i' = i + 1
      BY <1>9 DEF ProbePort, Goto
    <3> QED BY <3>1, <3>2
  <2> QED BY <1>0, <1>9, <2>1 DEF ProbePort, TypeOK
<1>10. CASE Rebase
  <2>1. i \in 0 .. 31
    BY <1>0, <1>10 DEF Rebase, Goto, Order, TypeOK
  <2>2. /\ i' \in 0 .. 32 /\ pc' \in {"probe", "hung"}
        /\ clb' \in {Nobody} \cup 0 .. 31
        /\ writer' \in [Blocks -> {Nobody, Paging} \cup 0 .. 31]
    <3>1. CASE Write(i, Areas(i)) /\ i' = i + 1 /\ clb' = i /\ pc' = "probe"
      <4>1. writer' \in [Blocks -> {Nobody, Paging} \cup 0 .. 31]
        BY <1>0, <2>1, <3>1, WriterTypes
      <4> QED BY <2>1, <3>1, <4>1
    <3>2. CASE UNCHANGED <<writer, clb, i>> /\ pc' = "hung"
      BY <1>0, <3>2 DEF TypeOK
    <3> QED BY <1>10, <3>1, <3>2 DEF Rebase, Goto
  <2> QED BY <1>0, <1>10, <2>2 DEF Rebase, TypeOK
<1>11. CASE Shell
  BY <1>0, <1>11 DEF Shell, Goto, TypeOK
<1>12. CASE UNCHANGED vars
  BY <1>0, <1>12 DEF vars, TypeOK
<1> QED BY <1>1, <1>2, <1>3, <1>4, <1>5, <1>6, <1>7, <1>8, <1>9, <1>10, <1>11,
           <1>12 DEF Next

LEMMA OrderKept ==
  ASSUME BInv, [Next]_vars
  PROVE  Order'
<1>0. Order /\ page_prev \in 0 .. 3 /\ i \in 0 .. 32
  BY DEF BInv, TypeOK
<1>1. CASE paging_init
  BY <1>0, <1>1 DEF paging_init, Goto, Order
<1>2. CASE MapLow
  BY <1>0, <1>2 DEF MapLow, paging_map, Goto, Order
<1>3. CASE Enable
  BY <1>0, <1>3 DEF Enable, Goto, Order
<1>4. CASE bvga_init
  BY <1>0, <1>4 DEF bvga_init, Goto, Order
<1>5. CASE AvailableRam
  BY <1>0, <1>5 DEF AvailableRam, Goto, Order
<1>6. CASE Search
  <2>1. pc = "search" /\ pc' \in {"search", "map"} /\ UNCHANGED <<page_prev, i>>
    BY <1>6 DEF Search, Goto
  <2> QED BY <1>0, <2>1 DEF Order
<1>7. CASE MapRegisters
  BY <1>0, <1>7 DEF MapRegisters, paging_map, Goto, Order
<1>8. CASE AhciProbe
  BY <1>0, <1>8 DEF AhciProbe, Goto, Order
<1>9. CASE ProbePort
  BY <1>0, <1>9 DEF ProbePort, Goto, Order
<1>10. CASE Rebase
  BY <1>0, <1>10 DEF Rebase, Goto, Order
<1>11. CASE Shell
  BY <1>0, <1>11 DEF Shell, Goto, Order
<1>12. CASE UNCHANGED vars
  BY <1>0, <1>12 DEF vars, Order
<1> QED BY <1>1, <1>2, <1>3, <1>4, <1>5, <1>6, <1>7, <1>8, <1>9, <1>10, <1>11,
           <1>12 DEF Next

After == {"map", "abar", "probe", "rebase", "shell", "hung"}

\* A step of the search: nothing here, or the first controller, or the end.
LEMMA SearchStep ==
  ASSUME BInv, Search
  PROVE  Searched' /\ RegistersFound'
<1>0. TypeOK /\ Searched /\ Places \in Nat
  BY BootAssumption DEF BInv
<1>1. /\ pc = "search" /\ config' = config
      /\ DOMAIN config = 0 .. (Places - 1) /\ place \in 0 .. Places
  BY <1>0 DEF Search, Goto, TypeOK
<1>2. \A p \in 0 .. (place - 1) : check_device(config[p]) = 0
  BY <1>0, <1>1 DEF Searched
<1>3. \A p \in 0 .. (Places - 1) : config[p] \in Devices
  BY <1>0 DEF TypeOK
<1>4. CASE place < Places /\ bar5' = 0
  <2>1. pc' = "search" /\ place' = place + 1 /\ check_device(config[place]) = 0
    BY <1>1, <1>4 DEF Search
  <2>2. \A p \in 0 .. (place' - 1) : check_device(config'[p]) = 0
    BY <1>1, <1>2, <2>1
  <2> QED BY <2>1, <2>2 DEF Searched, RegistersFound
<1>5. CASE place < Places /\ bar5' # 0
  <2>1. pc' = "map" /\ bar5' = check_device(config[place])
    BY <1>5 DEF Search, Goto
  <2>2. /\ place \in 0 .. (Places - 1)
        /\ config[place].id = "ahci" /\ config[place].bar # 0
        /\ bar5' = config[place].bar
    <3>1. place \in 0 .. (Places - 1)
      BY <1>0, <1>1, <1>5
    <3>2. check_device(config[place]) # 0
      BY <1>5, <2>1
    <3>3. config[place] \in Devices
      BY <1>3, <3>1
    <3> QED BY <2>1, <3>1, <3>2, <3>3, DeviceHas, Zenon
  <2>3. ASSUME NEW q \in DOMAIN config, config[q].id = "ahci", config[q].bar # 0
        PROVE  place <= q
    <3>1. check_device(config[q]) # 0
      BY <1>1, <1>3, <2>3, DeviceHas
    <3> QED BY <1>1, <1>2, <3>1
  <2> DEFINE has == {p \in DOMAIN config : config[p].id = "ahci" /\ config[p].bar # 0}
  <2>4. place \in has /\ \A q \in has : place <= q
    BY <1>1, <2>2, <2>3
  <2>5. RegistersFound'
    BY <1>1, <2>1, <2>2, <2>4 DEF RegistersFound
  <2> QED BY <2>1, <2>5 DEF Searched
<1>6. CASE ~(place < Places)
  <2>1. pc' = "map" /\ bar5' = 0 /\ place = Places
    BY <1>0, <1>1, <1>6 DEF Search, Goto
  <2>2. ASSUME NEW p \in DOMAIN config
        PROVE  ~(config[p].id = "ahci" /\ config[p].bar # 0)
    <3>1. check_device(config[p]) = 0
      BY <1>1, <1>2, <2>1, <2>2
    <3> QED BY <1>1, <1>3, <3>1, DeviceHas
  <2>3. RegistersFound'
    BY <1>1, <2>1, <2>2 DEF RegistersFound
  <2> QED BY <2>1, <2>3 DEF Searched
<1> QED BY <1>4, <1>5, <1>6

LEMMA FoundKept ==
  ASSUME BInv, [Next]_vars
  PROVE  Searched' /\ RegistersFound'
<1>0. Searched /\ RegistersFound
  BY DEF BInv, ProbeExact
<1>1. CASE Search
  BY <1>1, SearchStep
<1>2. ASSUME UNCHANGED <<config, place, bar5>>, pc \in After <=> pc' \in After
      PROVE  Searched' /\ RegistersFound'
  BY <1>0, <1>2 DEF Searched, RegistersFound, After
<1>3. CASE paging_init
  BY <1>2, <1>3 DEF paging_init, Goto, After
<1>4. CASE MapLow
  BY <1>2, <1>4 DEF MapLow, Goto, After
<1>5. CASE Enable
  BY <1>2, <1>5 DEF Enable, Goto, After
<1>6. CASE bvga_init
  BY <1>2, <1>6 DEF bvga_init, Goto, After
<1>7. CASE AvailableRam
  BY <1>2, <1>7 DEF AvailableRam, Goto, After
<1>8. CASE MapRegisters
  BY <1>2, <1>8 DEF MapRegisters, Goto, After
<1>9. CASE AhciProbe
  BY <1>2, <1>9 DEF AhciProbe, Goto, After
<1>10. CASE ProbePort
  BY <1>2, <1>10 DEF ProbePort, Goto, After
<1>11. CASE Rebase
  BY <1>2, <1>11 DEF Rebase, Goto, After
<1>12. CASE Shell
  BY <1>2, <1>12 DEF Shell, Goto, After
<1>13. CASE UNCHANGED vars
  BY <1>2, <1>13 DEF vars
<1> QED BY <1>1, <1>3, <1>4, <1>5, <1>6, <1>7, <1>8, <1>9, <1>10, <1>11, <1>12,
           <1>13 DEF Next

\* CR0 gets back what it had.
LEMMA PhysicalKept ==
  ASSUME BInv, [Next]_vars
  PROVE  Physical'
<1>1. Physical
  BY DEF BInv, ProbeExact
<1>2. cr0' = cr0
  BY DEF Next, paging_init, MapLow, Enable, bvga_init, AvailableRam, Search,
         MapRegisters, AhciProbe, ProbePort, Rebase, Shell, vars
<1> QED BY <1>1, <1>2 DEF Physical

\* Setting up the next number.
LEMMA RebaseKeeps ==
  ASSUME BInv, Rebase
  PROVE  AreasKept' /\ LastGiven'
<1>0. /\ AreasKept /\ LastGiven /\ i \in 0 .. 31 /\ kinds' = kinds
      /\ kinds[i] = "sata"
  BY DEF BInv, ProbeExact, Rebase, Goto, Order, TypeOK
<1>1. CASE Write(i, Areas(i)) /\ clb' = i /\ i' = i + 1
  <2>1. SetUp' = SetUp \cup {i} /\ \A p \in SetUp : p \in 0 .. 31 /\ p < i
    BY <1>0, <1>1 DEF SetUp
  <2>2. ASSUME NEW p \in SetUp', NEW b \in Areas(p)
        PROVE  writer'[b] = p
    <3>1. p \in 0 .. 31 /\ b \in Blocks
      BY <1>0, <2>1, AreasInMemory
    <3>2. writer'[b] = IF b \in Areas(i) THEN i ELSE writer[b]
      BY <1>1, <3>1 DEF Write
    <3>3. CASE p = i
      BY <3>2, <3>3
    <3>4. CASE p # i
      <4>1. b \notin Areas(i)
        BY <1>0, <3>1, <3>4, AreasApart
      <4>2. p \in SetUp
        BY <2>1, <3>4
      <4> QED BY <1>0, <3>2, <4>1, <4>2 DEF AreasKept
    <3> QED BY <3>3, <3>4
  <2>3. AreasKept'
    BY <2>2 DEF AreasKept
  <2>4. LastGiven'
    BY <1>0, <1>1, <2>1 DEF LastGiven
  <2> QED BY <2>3, <2>4
<1>2. CASE UNCHANGED <<writer, clb, i>>
  BY <1>0, <1>2 DEF AreasKept, LastGiven, SetUp
<1> QED BY <1>1, <1>2 DEF Rebase

LEMMA GivenKept ==
  ASSUME BInv, [Next]_vars
  PROVE  AreasKept' /\ LastGiven'
<1>0. AreasKept /\ LastGiven /\ Order /\ i \in 0 .. 32
  BY DEF BInv, ProbeExact, TypeOK
<1>1. CASE Rebase
  BY <1>1, RebaseKeeps
<1>2. ASSUME i = 0, i' = 0, clb' = clb
      PROVE  AreasKept' /\ LastGiven'
  <2>1. SetUp = {} /\ SetUp' = {}
    BY <1>2 DEF SetUp
  <2> QED BY <1>0, <1>2, <2>1 DEF AreasKept, LastGiven
<1>3. ASSUME UNCHANGED <<writer, kinds, i, clb>>
      PROVE  AreasKept' /\ LastGiven'
  BY <1>0, <1>3 DEF AreasKept, LastGiven, SetUp
<1>4. CASE paging_init \/ MapLow \/ MapRegisters \/ AhciProbe
  <2>1. i = 0 /\ i' = 0 /\ clb' = clb
    BY <1>0, <1>4 DEF paging_init, MapLow, MapRegisters, AhciProbe, Goto, Order
  <2> QED BY <1>2, <2>1
<1>5. CASE Enable \/ bvga_init \/ AvailableRam \/ Search \/ Shell
  BY <1>3, <1>5 DEF Enable, bvga_init, AvailableRam, Search, Shell
<1>6. CASE ProbePort
  <2>1. /\ UNCHANGED <<writer, kinds, clb>>
        /\ i' = i \/ (i' = i + 1 /\ kinds[i] # "sata")
    BY <1>6 DEF ProbePort
  <2>2. SetUp' = SetUp
    BY <1>0, <2>1 DEF SetUp
  <2> QED BY <1>0, <2>1, <2>2 DEF AreasKept, LastGiven
<1>7. CASE UNCHANGED vars
  BY <1>3, <1>7 DEF vars
<1> QED BY <1>1, <1>4, <1>5, <1>6, <1>7 DEF Next

LEMMA BInvKept ==
  ASSUME BInv, [Next]_vars
  PROVE  BInv'
BY TypesKept, OrderKept, FoundKept, PhysicalKept, GivenKept DEF BInv, ProbeExact

-----------------------------------------------------------------------------
(* Numbers as texts.  The recursive functions of Numbers.tla are shown to  *)
(* exist, then what they come to, by induction over sets of numbers.       *)

\* What is true of 0, and of n + 1 if of n, is true of all numbers.
LEMMA SetInduction ==
  ASSUME NEW S, 0 \in S, \A n \in Nat : n \in S => n + 1 \in S
  PROVE  \A n \in Nat : n \in S
<1> DEFINE T == Nat \ S
<1>1. SUFFICES ASSUME T # {} PROVE FALSE
  OBVIOUS
<1>2. \E x \in T : \A y \in T : ~ (<<y, x>> \in OpToRel(<, Nat))
  <2>1. T \subseteq Nat
    OBVIOUS
  <2> HIDE DEF T
  <2> QED BY <1>1, <2>1, NatLessThanWellFounded, WFMin, Zenon
<1>3. PICK x \in T : \A y \in T : ~ (<<y, x>> \in OpToRel(<, Nat))
  BY <1>2, Zenon
<1>4. x \in Nat /\ x - 1 \in T
  OBVIOUS
<1>5. <<x - 1, x>> \in OpToRel(<, Nat)
  BY <1>4 DEF OpToRel
<1> QED BY <1>3, <1>4, <1>5

Bases == {10, 16}
Magnitude(num) == IF num < 0 THEN -num ELSE num

LEMMA Dividing ==
  ASSUME NEW base \in Bases, NEW num \in Int
  PROVE  /\ Quotient(num, base) \in Int /\ Remainder(num, base) \in Int
         /\ num = base * Quotient(num, base) + Remainder(num, base)
         /\ num = 0 => Quotient(num, base) = 0
         /\ num > 0 => /\ Quotient(num, base) \in 0 .. (num - 1)
                       /\ Remainder(num, base) \in 0 .. (base - 1)
         /\ num < 0 => /\ Quotient(num, base) \in (num + 1) .. 0
                       /\ Remainder(num, base) \in (1 - base) .. 0
<1>1. CASE base = 10
  BY <1>1 DEF Quotient, Remainder
<1>2. CASE base = 16
  BY <1>2 DEF Quotient, Remainder
<1> QED BY <1>1, <1>2 DEF Bases

\* The next digit is appended to those of the quotient.
Extended(g, num, base) ==
  IF num = 0 THEN <<>>
  ELSE Append(g[Quotient(num, base)], Digit(Remainder(num, base)))

Expansions(base, n) ==
  {g \in [Int -> Seq(Int)] : \A num \in (-n) .. n : g[num] = Extended(g, num, base)}

LEMMA DigitIsNumber ==
  ASSUME NEW base \in Bases, NEW num \in Int
  PROVE  Digit(Remainder(num, base)) \in Int
BY Dividing DEF Digit

LEMMA ExtendedType ==
  ASSUME NEW base \in Bases, NEW g \in [Int -> Seq(Int)], NEW num \in Int
  PROVE  Extended(g, num, base) \in Seq(Int)
<1>1. g[Quotient(num, base)] \in Seq(Int) /\ Digit(Remainder(num, base)) \in Int
  BY Dividing, DigitIsNumber
<1> QED BY <1>1 DEF Extended

LEMMA Approximations ==
  ASSUME NEW base \in Bases
  PROVE  \A n \in Nat : Expansions(base, n) # {}
<1> DEFINE S == {n \in Nat : Expansions(base, n) # {}}
<1>1. 0 \in S
  <2>1. [num \in Int |-> <<>>] \in Expansions(base, 0)
    BY DEF Expansions, Extended
  <2> QED BY <2>1
<1>2. ASSUME NEW n \in Nat, n \in S
      PROVE  n + 1 \in S
  <2>1. PICK g \in Expansions(base, n) : TRUE
    BY <1>2
  <2>2. /\ g \in [Int -> Seq(Int)]
        /\ \A num \in (-n) .. n : g[num] = Extended(g, num, base)
    BY <2>1 DEF Expansions
  <2> DEFINE h == [num \in Int |-> Extended(g, num, base)]
  <2>3. h \in [Int -> Seq(Int)]
    BY <2>2, ExtendedType
  <2>4. \A num \in (-n) .. n : h[num] = g[num]
    BY <2>2
  <2>5. ASSUME NEW num \in (-(n + 1)) .. (n + 1)
        PROVE  h[num] = Extended(h, num, base)
    <3>1. num \in Int /\ (num # 0 => Quotient(num, base) \in (-n) .. n)
      BY Dividing
    <3>2. h[num] = Extended(g, num, base)
      BY <3>1
    <3>3. num # 0 => h[Quotient(num, base)] = g[Quotient(num, base)]
      BY <3>1, <2>4
    <3> HIDE DEF h
    <3> QED BY <3>2, <3>3 DEF Extended
  <2>6. h \in Expansions(base, n + 1)
    <3> HIDE DEF h
    <3> QED BY <2>3, <2>5 DEF Expansions
  <2> QED BY <2>6
<1> HIDE DEF S
<1>3. \A n \in Nat : n \in S
  BY <1>1, <1>2, SetInduction, Zenon
<1> QED BY <1>3 DEF S

LEMMA ApproximationsAgree ==
  ASSUME NEW base \in Bases, NEW m \in Nat, NEW n \in Nat, m <= n,
         NEW g \in Expansions(base, m), NEW h \in Expansions(base, n)
  PROVE  \A num \in (-m) .. m : g[num] = h[num]
<1> DEFINE S == {k \in Nat : k <= m => \A num \in (-k) .. k : g[num] = h[num]}
<1>1. /\ \A num \in (-m) .. m : g[num] = Extended(g, num, base)
      /\ \A num \in (-m) .. m : h[num] = Extended(h, num, base)
  <2>1. \A num \in (-m) .. m : num \in (-n) .. n
    OBVIOUS
  <2>2. \A num \in (-n) .. n : h[num] = Extended(h, num, base)
    BY Zenon DEF Expansions
  <2>3. \A num \in (-m) .. m : g[num] = Extended(g, num, base)
    BY Zenon DEF Expansions
  <2> QED BY <2>1, <2>2, <2>3, Zenon
<1>2. 0 \in S
  <2>1. g[0] = <<>> /\ h[0] = <<>>
    BY <1>1 DEF Extended
  <2> QED BY <2>1
<1>3. ASSUME NEW k \in Nat, k \in S
      PROVE  k + 1 \in S
  <2>1. ASSUME k + 1 <= m, NEW num \in (-(k + 1)) .. (k + 1)
        PROVE  g[num] = h[num]
    <3>1. num \in (-m) .. m /\ num \in Int
      BY <2>1
    <3>2. num # 0 => g[Quotient(num, base)] = h[Quotient(num, base)]
      <4>1. num # 0 => Quotient(num, base) \in (-k) .. k
        BY <3>1, Dividing
      <4> QED BY <4>1, <1>3, <2>1
    <3>3. g[num] = Extended(g, num, base) /\ h[num] = Extended(h, num, base)
      BY <1>1, <3>1
    <3> QED BY <3>2, <3>3 DEF Extended
  <2> QED BY <2>1
<1> HIDE DEF S
<1>4. \A k \in Nat : k \in S
  BY <1>2, <1>3, SetInduction, Zenon
<1>5. m \in S
  BY <1>4
<1> QED BY <1>5 DEF S

DigitsFunction(base) ==
  CHOOSE D : D = [num \in Int |->
    IF num = 0 THEN <<>>
    ELSE Append(D[Quotient(num, base)], Digit(Remainder(num, base)))]

\* The definition of Digits does define a function.
LEMMA DigitsDefined ==
  ASSUME NEW base \in Bases
  PROVE  /\ DigitsFunction(base) \in [Int -> Seq(Int)]
         /\ \A num \in Int :
              DigitsFunction(base)[num] = Extended(DigitsFunction(base), num, base)
<1> DEFINE G(n) == CHOOSE g : g \in Expansions(base, n)
           f    == [num \in Int |-> G(Magnitude(num))[num]]
           D    == DigitsFunction(base)
<1>1. ASSUME NEW n \in Nat
      PROVE  G(n) \in Expansions(base, n)
  BY Approximations, Zenon
<1>2. f \in [Int -> Seq(Int)]
  <2>1. ASSUME NEW num \in Int
        PROVE  G(Magnitude(num))[num] \in Seq(Int)
    <3>1. Magnitude(num) \in Nat
      BY DEF Magnitude
    <3> HIDE DEF G
    <3>2. G(Magnitude(num)) \in [Int -> Seq(Int)]
      BY <3>1, <1>1 DEF Expansions
    <3> QED BY <3>2
  <2> HIDE DEF G
  <2> QED BY <2>1
<1>3. ASSUME NEW num \in Int
      PROVE  f[num] = Extended(f, num, base)
  <2> DEFINE m == Magnitude(Quotient(num, base))
             n == Magnitude(num)
  <2>1. /\ m \in Nat /\ n \in Nat /\ m <= n /\ num \in (-n) .. n
        /\ Quotient(num, base) \in (-m) .. m /\ Quotient(num, base) \in Int
    BY Dividing DEF Magnitude
  <2>2. /\ f[num] = G(n)[num]
        /\ f[Quotient(num, base)] = G(m)[Quotient(num, base)]
    BY <2>1
  <2> HIDE DEF f, G, m, n
  <2>3. G(n)[num] = Extended(G(n), num, base)
    BY <2>1, <1>1 DEF Expansions
  <2>4. G(m)[Quotient(num, base)] = G(n)[Quotient(num, base)]
    <3>1. G(m) \in Expansions(base, m) /\ G(n) \in Expansions(base, n)
      BY <2>1, <1>1, Zenon
    <3> QED BY <3>1, <2>1, ApproximationsAgree, Zenon
  <2> QED BY <2>2, <2>3, <2>4 DEF Extended
<1>4. D = [num \in Int |->
        IF num = 0 THEN <<>>
        ELSE Append(D[Quotient(num, base)], Digit(Remainder(num, base)))]
  <2>1. f = [num \in Int |-> Extended(f, num, base)]
    <3> HIDE DEF f
    <3>2. DOMAIN f = Int /\ f = [num \in Int |-> f[num]]
      BY <1>2
    <3> QED BY <1>3, <3>2
  <2>2. \E g : g = [num \in Int |->
        IF num = 0 THEN <<>>
        ELSE Append(g[Quotient(num, base)], Digit(Remainder(num, base)))]
    <3> HIDE DEF f
    <3>1. f = [num \in Int |->
        IF num = 0 THEN <<>>
        ELSE Append(f[Quotient(num, base)], Digit(Remainder(num, base)))]
      BY <2>1, Zenon DEF Extended
    <3> QED BY <3>1, Zenon
  <2> QED BY <2>2, Zenon DEF DigitsFunction
<1> HIDE DEF D
<1>5. \A num \in Int : D[num] = Extended(D, num, base)
  BY <1>4 DEF Extended
<1>6. D \in [Int -> Seq(Int)]
  <2> DEFINE S == {n \in Nat : \A num \in (-n) .. n : D[num] \in Seq(Int)}
  <2>1. 0 \in S
    <3>1. D[0] = <<>>
      BY <1>5 DEF Extended
    <3>2. \A num \in (-0) .. 0 : num = 0
      OBVIOUS
    <3>3. <<>> \in Seq(Int) /\ 0 \in Nat
      OBVIOUS
    <3> QED BY <3>1, <3>2, <3>3, Zenon
  <2>2. ASSUME NEW n \in Nat, n \in S
        PROVE  n + 1 \in S
    <3>1. ASSUME NEW num \in (-(n + 1)) .. (n + 1)
          PROVE  D[num] \in Seq(Int)
      <4>1. num \in Int /\ (num # 0 => Quotient(num, base) \in (-n) .. n)
        BY Dividing
      <4>2. num # 0 => D[Quotient(num, base)] \in Seq(Int)
        BY <4>1, <2>2
      <4>3. D[num] = Extended(D, num, base) /\ Digit(Remainder(num, base)) \in Int
        BY <4>1, <1>5, DigitIsNumber
      <4> QED BY <4>2, <4>3 DEF Extended
    <3> QED BY <3>1
  <2> HIDE DEF S
  <2>3. \A n \in Nat : n \in S
    BY <2>1, <2>2, SetInduction, Zenon
  <2>4. ASSUME NEW num \in Int
        PROVE  D[num] \in Seq(Int)
    <3>1. Magnitude(num) \in Nat /\ num \in (-Magnitude(num)) .. Magnitude(num)
      BY DEF Magnitude
    <3> QED BY <3>1, <2>3 DEF S
  <2>5. DOMAIN D = Int /\ D = [num \in Int |-> D[num]]
    BY <1>4
  <2> QED BY <2>4, <2>5
<1> QED BY <1>5, <1>6 DEF D

LEMMA DigitsEquation ==
  ASSUME NEW base \in Bases, NEW num \in Int
  PROVE  /\ Digits(num, base) \in Seq(Int)
         /\ num = 0 => Digits(num, base) = <<>>
         /\ num # 0 =>
              Digits(num, base) = Append(Digits(Quotient(num, base), base),
                                         Digit(Remainder(num, base)))
<1>1. \A n \in Int : Digits(n, base) = DigitsFunction(base)[n]
  BY Zenon DEF Digits, DigitsFunction
<1>2. Quotient(num, base) \in Int
  BY Dividing
<1> QED BY <1>1, <1>2, DigitsDefined DEF Extended

-----------------------------------------------------------------------------
(* What a text of digits says. *)

DigitValue(c) == IF c <= 57 THEN c - 48 ELSE c - 87

\* The values of the first characters of a text, as they are read.
Readings(text, base) ==
  {s \in [0 .. Len(text) -> Int] :
     /\ s[0] = 0
     /\ \A k \in 1 .. Len(text) : s[k] = base * s[k - 1] + DigitValue(text[k])}

Says(text, base, num) == \E s \in Readings(text, base) : s[Len(text)] = num

DigitChars(base) == IF base = 10 THEN 48 .. 57 ELSE HexDigits

LEMMA DigitValues ==
  ASSUME NEW base \in Bases, NEW num \in Int
  PROVE  LET c == Digit(Remainder(num, base))
         IN  /\ DigitValue(c) = Remainder(num, base)
             /\ base = 10 => c <= 57
             /\ num > 0 => c \in DigitChars(base)
             /\ num < 0 => c \in 33 .. 48
             /\ num < 0 /\ Quotient(num, base) = 0 => c \in 33 .. 47
<1> DEFINE r == Remainder(num, base)
<1>1. /\ r \in Int
      /\ num = base * Quotient(num, base) + r /\ Quotient(num, base) \in Int
      /\ num = 0 => Quotient(num, base) = 0
      /\ num > 0 => r \in 0 .. (base - 1)
      /\ num < 0 => r \in (1 - base) .. 0
  BY Dividing
<1> HIDE DEF r
<1>2. /\ num = 0 => r = 0
      /\ num < 0 /\ Quotient(num, base) = 0 => r < 0
  <2> DEFINE q == Quotient(num, base)
  <2>1. q \in Int /\ num = base * q + r
    BY <1>1, Zenon
  <2> HIDE DEF q
  <2>2. CASE base = 10
    <3>1. num = 10 * q + r
      BY ONLY <2>1, <2>2, Zenon
    <3>2. q = 0 => num = r
      BY ONLY <1>1, <2>1, <3>1
    <3> QED BY ONLY <1>1, <3>2, num \in Int DEF q
  <2>3. CASE base = 16
    <3>1. num = 16 * q + r
      BY ONLY <2>1, <2>3, Zenon
    <3>2. q = 0 => num = r
      BY ONLY <1>1, <2>1, <3>1
    <3> QED BY ONLY <1>1, <3>2, num \in Int DEF q
  <2> QED BY <2>2, <2>3, Zenon DEF Bases
<1> DEFINE c == Digit(r)
<1>3. r \in -15 .. 15 /\ (base = 10 => r \in -9 .. 9)
  BY <1>1, <1>2 DEF Bases
<1>4. /\ DigitValue(c) = r
      /\ r <= 9 => c = r + 48
      /\ r > 9 => c = r + 87
  BY <1>3 DEF Digit, DigitValue
<1> HIDE DEF c
<1>5. base = 10 => c <= 57
  BY <1>3, <1>4
<1>6. num > 0 => c \in DigitChars(base)
  <2>1. CASE base = 10
    BY <1>1, <1>3, <1>4, <2>1 DEF DigitChars
  <2>2. CASE base # 10
    BY <1>1, <1>3, <1>4, <2>2 DEF DigitChars, HexDigits
  <2> QED BY <2>1, <2>2
<1>7. /\ num < 0 => c \in 33 .. 48
      /\ num < 0 /\ Quotient(num, base) = 0 => c \in 33 .. 47
  BY <1>1, <1>2, <1>3, <1>4 DEF Bases
<1> QED BY <1>4, <1>5, <1>6, <1>7, Zenon DEF c, r

\* One more character.
LEMMA SaysMore ==
  ASSUME NEW text \in Seq(Int), NEW c \in Int, NEW base \in Bases, NEW num \in Int,
         Says(text, base, num)
  PROVE  Says(Append(text, c), base, base * num + DigitValue(c))
<1> DEFINE t == Append(text, c)
           v == base * num + DigitValue(c)
<1>1. PICK s \in Readings(text, base) : s[Len(text)] = num
  BY DEF Says
<1>2. /\ s \in [0 .. Len(text) -> Int] /\ s[0] = 0
      /\ \A k \in 1 .. Len(text) : s[k] = base * s[k - 1] + DigitValue(text[k])
  BY DEF Readings
<1>3. /\ t \in Seq(Int) /\ Len(t) = Len(text) + 1 /\ Len(text) \in Nat
      /\ t[Len(text) + 1] = c
      /\ \A k \in 1 .. Len(text) : t[k] = text[k]
  OBVIOUS
<1>4. v \in Int
  BY DEF DigitValue, Bases
<1> HIDE DEF t, v
<1> DEFINE r == [k \in 0 .. Len(t) |-> IF k <= Len(text) THEN s[k] ELSE v]
<1>5. r \in [0 .. Len(t) -> Int]
  BY <1>2, <1>3, <1>4
<1>6. r[0] = 0 /\ r[Len(t)] = v /\ r[Len(text)] = num
  BY <1>1, <1>2, <1>3
<1>7. ASSUME NEW k \in 1 .. Len(t)
      PROVE  r[k] = base * r[k - 1] + DigitValue(t[k])
  <2>1. CASE k <= Len(text)
    <3>1. r[k] = s[k] /\ r[k - 1] = s[k - 1] /\ t[k] = text[k] /\ k \in 1 .. Len(text)
      BY <2>1, <1>3
    <3> HIDE DEF r
    <3> QED BY <3>1, <1>2
  <2>2. CASE k > Len(text)
    <3>1. k = Len(text) + 1 /\ k = Len(t) /\ k - 1 = Len(text)
      BY <2>2, <1>3
    <3> HIDE DEF r
    <3> QED BY <3>1, <1>3, <1>6 DEF v
  <2> QED BY <2>1, <2>2, <1>3
<1> HIDE DEF r
<1>8. r \in Readings(t, base)
  BY <1>5, <1>6, <1>7, Zenon DEF Readings
<1> QED BY <1>6, <1>8, Zenon DEF Says, t, v

\* The digits of a number say it, if negative digits count as such.
LEMMA DigitsSay ==
  ASSUME NEW base \in Bases, NEW num \in Int
  PROVE  Says(Digits(num, base), base, num)
<1> DEFINE S == {n \in Nat : \A j \in (-n) .. n : Says(Digits(j, base), base, j)}
<1>1. Says(Digits(0, base), base, 0)
  <2>1. Digits(0, base) = <<>> /\ Len(<<>>) = 0
    BY DigitsEquation
  <2>2. [k \in 0 .. 0 |-> 0] \in Readings(<<>>, base)
    BY DEF Readings
  <2>3. Says(<<>>, base, 0)
    BY <2>2 DEF Says
  <2> QED BY <2>1, <2>3, Zenon
<1>2. 0 \in S
  <2>1. \A j \in (-0) .. 0 : j = 0
    OBVIOUS
  <2> QED BY <1>1, <2>1
<1>3. ASSUME NEW n \in Nat, n \in S
      PROVE  n + 1 \in S
  <2>1. ASSUME NEW j \in (-(n + 1)) .. (n + 1)
        PROVE  Says(Digits(j, base), base, j)
    <3> DEFINE q == Quotient(j, base)
               c == Digit(Remainder(j, base))
    <3>1. CASE j = 0
      BY <3>1, <1>1
    <3>2. CASE j # 0
      <4>1. /\ j \in Int /\ q \in (-n) .. n /\ q \in Int /\ c \in Int
            /\ j = base * q + DigitValue(c)
        <5>1. j \in Int /\ n \in Nat
          OBVIOUS
        <5>2. /\ q \in Int /\ j = base * q + Remainder(j, base)
              /\ j > 0 => q \in 0 .. (j - 1)
              /\ j < 0 => q \in (j + 1) .. 0
          BY <5>1, Dividing, Zenon
        <5>3. c \in Int
          BY <5>1, DigitIsNumber
        <5>4. DigitValue(c) = Remainder(j, base)
          BY <5>1, DigitValues, Zenon
        <5>5. j = base * q + DigitValue(c)
          BY <5>2, <5>4, Zenon
        <5> HIDE DEF q, c
        <5>6. q \in (-n) .. n
          BY ONLY <5>1, <5>2, <3>2, j \in (-(n + 1)) .. (n + 1)
        <5> QED BY <5>1, <5>2, <5>3, <5>5, <5>6, Zenon
      <4>2. /\ Digits(j, base) = Append(Digits(q, base), c)
            /\ Digits(q, base) \in Seq(Int)
        BY <4>1, <3>2, DigitsEquation
      <4>3. Says(Digits(q, base), base, q)
        BY <4>1, <1>3
      <4> HIDE DEF q, c
      <4>4. Says(Append(Digits(q, base), c), base, base * q + DigitValue(c))
        BY <4>1, <4>2, <4>3, SaysMore, Zenon
      <4> QED BY <4>1, <4>2, <4>4, Zenon
    <3> QED BY <3>1, <3>2
  <2> QED BY <2>1
<1> HIDE DEF S
<1>4. \A n \in Nat : n \in S
  BY <1>2, <1>3, SetInduction, Zenon
<1>5. Magnitude(num) \in S /\ num \in (-Magnitude(num)) .. Magnitude(num)
  BY <1>4 DEF Magnitude
<1> QED BY <1>5 DEF S

\* The characters: digits if the number is positive, and else no digit first.
GoodDigits(num, base) ==
  LET text == Digits(num, base)
  IN  /\ num # 0 => Len(text) > 0
      /\ num >= 0 => \A k \in 1 .. Len(text) : text[k] \in DigitChars(base)
      /\ num < 0 => text[1] \in 33 .. 47
      /\ base = 10 => \A k \in 1 .. Len(text) : text[k] <= 57

LEMMA DigitsGood ==
  ASSUME NEW base \in Bases, NEW num \in Int
  PROVE  GoodDigits(num, base)
<1> DEFINE S == {n \in Nat : \A j \in (-n) .. n : GoodDigits(j, base)}
<1>1. GoodDigits(0, base)
  <2>1. Digits(0, base) = <<>> /\ Len(<<>>) = 0
    BY DigitsEquation
  <2> QED BY <2>1 DEF GoodDigits
<1>2. 0 \in S
  <2>1. \A j \in (-0) .. 0 : j = 0
    OBVIOUS
  <2> QED BY <1>1, <2>1
<1>3. ASSUME NEW n \in Nat, n \in S
      PROVE  n + 1 \in S
  <2>1. ASSUME NEW j \in (-(n + 1)) .. (n + 1)
        PROVE  GoodDigits(j, base)
    <3> DEFINE q == Quotient(j, base)
               c == Digit(Remainder(j, base))
               t == Digits(q, base)
    <3>1. CASE j = 0
      BY <3>1, <1>1
    <3>2. CASE j # 0
      <4>1. /\ j \in Int /\ q \in (-n) .. n /\ q \in Int /\ c \in Int
            /\ j > 0 => q >= 0
            /\ j < 0 => q <= 0
        BY <3>2, Dividing, DigitIsNumber
      <4>2. /\ base = 10 => c <= 57
            /\ j > 0 => c \in DigitChars(base)
            /\ j < 0 /\ q = 0 => c \in 33 .. 47
        BY <4>1, DigitValues
      <4>3. /\ Digits(j, base) = Append(t, c)
            /\ t \in Seq(Int)
            /\ q = 0 => t = <<>>
        BY <4>1, <3>2, DigitsEquation
      <4>4. GoodDigits(q, base)
        BY <4>1, <1>3
      <4>5. /\ q # 0 => Len(t) > 0
            /\ q >= 0 => \A k \in 1 .. Len(t) : t[k] \in DigitChars(base)
            /\ q < 0 => t[1] \in 33 .. 47
            /\ base = 10 => \A k \in 1 .. Len(t) : t[k] <= 57
        BY <4>4 DEF GoodDigits
      <4> HIDE DEF q, c, t
      <4> DEFINE u == Append(t, c)
      <4>6. /\ Len(u) = Len(t) + 1 /\ Len(t) \in Nat /\ u[Len(u)] = c
            /\ \A k \in 1 .. Len(t) : u[k] = t[k]
            /\ \A k \in 1 .. Len(u) : k \in 1 .. Len(t) \/ k = Len(u)
        BY <4>1, <4>3
      <4>7. q = 0 => Len(t) = 0
        BY <4>3
      <4> HIDE DEF u
      <4>8. j < 0 => u[1] \in 33 .. 47
        <5>1. CASE q = 0
          BY <5>1, <4>2, <4>6, <4>7
        <5>2. CASE q # 0
          <6>1. j < 0 => t[1] \in 33 .. 47 /\ Len(t) > 0
            BY <5>2, <4>1, <4>5
          <6>2. Len(t) > 0 => u[1] = t[1]
            BY <4>6
          <6> QED BY <6>1, <6>2
        <5> QED BY <5>1, <5>2
      <4>9. j >= 0 => \A k \in 1 .. Len(u) : u[k] \in DigitChars(base)
        BY <3>2, <4>1, <4>2, <4>5, <4>6
      <4>10. base = 10 => \A k \in 1 .. Len(u) : u[k] <= 57
        BY <4>2, <4>5, <4>6
      <4> QED BY <4>3, <4>6, <4>8, <4>9, <4>10 DEF GoodDigits, u
    <3> QED BY <3>1, <3>2
  <2> QED BY <2>1
<1> HIDE DEF S
<1>4. \A n \in Nat : n \in S
  BY <1>2, <1>3, SetInduction, Zenon
<1>5. Magnitude(num) \in S /\ num \in (-Magnitude(num)) .. Magnitude(num)
  BY <1>4 DEF Magnitude
<1> QED BY <1>5 DEF S

-----------------------------------------------------------------------------
(* Reading a text back. *)

IsFirstNot(chars, text, k, n) ==
  /\ n \in k .. (Len(text) + 1)
  /\ n = Len(text) + 1 \/ text[n] \notin chars
  /\ \A j \in k .. (n - 1) : text[j] \in chars

LEMMA FirstNotIs ==
  ASSUME NEW chars, NEW text \in Seq(Int), NEW k \in Nat, NEW n,
         IsFirstNot(chars, text, k, n)
  PROVE  FirstNot(chars, text, k) = n
<1> DEFINE P(m) == IsFirstNot(chars, text, k, m)
<1>1. P(n)
  OBVIOUS
<1>2. ASSUME NEW m, P(m)
      PROVE  m = n
  <2>1. Len(text) \in Nat /\ m \in Int /\ n \in Int
    BY <1>2 DEF IsFirstNot
  <2>2. ~ (m < n)
    BY <2>1, <1>2 DEF IsFirstNot
  <2>3. ~ (n < m)
    BY <2>1, <1>2 DEF IsFirstNot
  <2> QED BY <2>1, <2>2, <2>3
<1>3. FirstNot(chars, text, k) = CHOOSE m : P(m)
  BY Zenon DEF FirstNot, IsFirstNot
<1> HIDE DEF P
<1> QED BY <1>1, <1>2, <1>3, Zenon

LEMMA FirstHere ==
  ASSUME NEW text \in Seq(Int), Len(text) > 0, text[1] \notin isspace
  PROVE  FirstNot(isspace, text, 1) = 1
<1>1. IsFirstNot(isspace, text, 1, 1)
  <2>1. 1 \in 1 .. (Len(text) + 1)
    OBVIOUS
  <2>2. \A j \in 1 .. (1 - 1) : text[j] \in isspace
    OBVIOUS
  <2> QED BY <2>1, <2>2, Zenon DEF IsFirstNot
<1>2. 1 \in Nat
  OBVIOUS
<1> QED BY <1>1, <1>2, FirstNotIs, Zenon

\* The parts of atoi().
SumFunction(text, first) ==
  CHOOSE Result : Result = [k \in 0 .. Len(text) |->
    IF k < first THEN 0 ELSE 10 * Result[k - 1] + (text[k] - 48)]

SignPlace(text)    == FirstNot(isspace, text, 1)
HasSign(text) == SignPlace(text) <= Len(text) /\ text[SignPlace(text)] \in {45, 43}
FirstDigit(text)    == IF HasSign(text) THEN SignPlace(text) + 1 ELSE SignPlace(text)
DigitsEnd(text)      == FirstNot(48 .. 57, text, FirstDigit(text))

LEMMA AtoiParts ==
  ASSUME NEW text
  PROVE  atoi(text) =
           IF HasSign(text) /\ text[SignPlace(text)] = 45
           THEN -SumFunction(text, FirstDigit(text))[DigitsEnd(text) - 1]
           ELSE SumFunction(text, FirstDigit(text))[DigitsEnd(text) - 1]
BY Zenon DEF atoi, SumFunction, SignPlace, HasSign, FirstDigit, DigitsEnd

\* What they may add up to from a place on.
Sums(text, first) ==
  {r \in [0 .. Len(text) -> Int] : \A k \in 0 .. Len(text) :
     r[k] = IF k < first THEN 0 ELSE 10 * r[k - 1] + (text[k] - 48)}

LEMMA SumsFrom ==
  ASSUME NEW text \in Seq(Int), NEW first \in Nat \ {0}, NEW r \in Sums(text, first)
  PROVE  \A k \in 0 .. Len(text) : SumFunction(text, first)[k] = r[k]
<1> DEFINE f == SumFunction(text, first)
<1>0. /\ r \in [0 .. Len(text) -> Int]
      /\ \A k \in 0 .. Len(text) :
           r[k] = IF k < first THEN 0 ELSE 10 * r[k - 1] + (text[k] - 48)
  BY Zenon DEF Sums
<1>1. r = [k \in 0 .. Len(text) |->
             IF k < first THEN 0 ELSE 10 * r[k - 1] + (text[k] - 48)]
  BY <1>0
<1>2. f = [k \in 0 .. Len(text) |->
             IF k < first THEN 0 ELSE 10 * f[k - 1] + (text[k] - 48)]
  BY <1>1, Zenon DEF SumFunction
<1> HIDE DEF f
<1> DEFINE S == {n \in Nat : n <= Len(text) => f[n] = r[n]}
<1>3. Len(text) \in Nat
  OBVIOUS
<1>4. 0 \in S
  <2>1. 0 \in 0 .. Len(text) /\ 0 < first
    BY <1>3
  <2>2. f[0] = 0 /\ r[0] = 0
    BY <1>0, <1>2, <2>1
  <2> QED BY <2>2
<1>5. ASSUME NEW n \in Nat, n \in S
      PROVE  n + 1 \in S
  <2>1. ASSUME n + 1 <= Len(text)
        PROVE  f[n + 1] = r[n + 1]
    <3>1. n + 1 \in 0 .. Len(text) /\ n \in 0 .. Len(text) /\ (n + 1) - 1 = n
      BY <2>1, <1>3
    <3>2. f[n] = r[n]
      BY <1>5, <3>1
    <3>3. f[n + 1] = IF n + 1 < first THEN 0 ELSE 10 * f[n] + (text[n + 1] - 48)
      BY <1>2, <3>1
    <3>4. r[n + 1] = IF n + 1 < first THEN 0 ELSE 10 * r[n] + (text[n + 1] - 48)
      BY <1>0, <3>1
    <3> QED BY <3>2, <3>3, <3>4, Zenon
  <2> QED BY <2>1
<1> HIDE DEF S
<1>6. \A n \in Nat : n \in S
  BY <1>4, <1>5, SetInduction, Zenon
<1> QED BY <1>3, <1>6 DEF S, f

LEMMA DecimalValues ==
  \A c \in Int : c <= 57 => DigitValue(c) = c - 48
BY DEF DigitValue

\* A text whose characters are digits, or below.
Decimal(text) == \A k \in 1 .. Len(text) : text[k] <= 57

LEMMA DecimalReadings ==
  ASSUME NEW text \in Seq(Int), Decimal(text), NEW s \in Readings(text, 10)
  PROVE  /\ s \in [0 .. Len(text) -> Int] /\ s[0] = 0 /\ Len(text) \in Nat
         /\ \A k \in 1 .. Len(text) : s[k] = 10 * s[k - 1] + (text[k] - 48)
<1>1. /\ s \in [0 .. Len(text) -> Int] /\ s[0] = 0
      /\ \A k \in 1 .. Len(text) : s[k] = 10 * s[k - 1] + DigitValue(text[k])
  BY Zenon DEF Readings
<1>2. ASSUME NEW k \in 1 .. Len(text)
      PROVE  DigitValue(text[k]) = text[k] - 48
  <2>1. text[k] \in Int
    OBVIOUS
  <2>2. text[k] <= 57
    BY Zenon DEF Decimal
  <2> QED BY ONLY <2>1, <2>2, DecimalValues, Zenon
<1>3. Len(text) \in Nat
  OBVIOUS
<1> QED BY ONLY <1>1, <1>2, <1>3, Zenon

\* The sums of a text are what is read of its characters,
LEMMA PlainSums ==
  ASSUME NEW text \in Seq(Int), Decimal(text), NEW s \in Readings(text, 10)
  PROVE  s \in Sums(text, 1)
<1>1. /\ s \in [0 .. Len(text) -> Int] /\ s[0] = 0 /\ Len(text) \in Nat
      /\ \A k \in 1 .. Len(text) : s[k] = 10 * s[k - 1] + (text[k] - 48)
  BY DecimalReadings, Zenon
<1>2. ASSUME NEW k \in 0 .. Len(text)
      PROVE  s[k] = IF k < 1 THEN 0 ELSE 10 * s[k - 1] + (text[k] - 48)
  <2>1. CASE k < 1
    BY <1>1, <2>1
  <2>2. CASE ~(k < 1)
    <3>1. k \in 1 .. Len(text)
      BY ONLY <1>1, <2>2, k \in 0 .. Len(text)
    <3> QED BY ONLY <1>1, <2>2, <3>1, Zenon
  <2> QED BY ONLY <2>1, <2>2
<1> QED BY ONLY <1>1, <1>2, Zenon DEF Sums

\* also behind a sign.
LEMMA SignedSums ==
  ASSUME NEW text \in Seq(Int), Decimal(text), NEW s \in Readings(text, 10),
         NEW t \in Seq(Int), Len(t) = Len(text) + 1,
         \A k \in 2 .. Len(t) : t[k] = text[k - 1]
  PROVE  [k \in 0 .. Len(t) |-> IF k < 2 THEN 0 ELSE s[k - 1]] \in Sums(t, 2)
<1> DEFINE r == [k \in 0 .. Len(t) |-> IF k < 2 THEN 0 ELSE s[k - 1]]
<1>1. /\ s \in [0 .. Len(text) -> Int] /\ s[0] = 0 /\ Len(text) \in Nat
      /\ \A k \in 1 .. Len(text) : s[k] = 10 * s[k - 1] + (text[k] - 48)
  BY DecimalReadings, Zenon
<1>2. ASSUME NEW k \in 2 .. Len(t)
      PROVE  /\ k \in 0 .. Len(t) /\ k - 1 \in 0 .. Len(t) /\ ~(k < 2)
             /\ k - 1 \in 1 .. Len(text) /\ k - 1 \in 0 .. Len(text)
             /\ (k = 2 => (k - 1) - 1 = 0) /\ (k # 2 => ~(k - 1 < 2))
  BY ONLY <1>1, Len(t) = Len(text) + 1, k \in 2 .. Len(t)
<1>3. ASSUME NEW k \in 0 .. Len(t)
      PROVE  k < 2 \/ k \in 2 .. Len(t)
  BY ONLY <1>1, Len(t) = Len(text) + 1, k \in 0 .. Len(t)
<1>4. ASSUME NEW k \in 0 .. Len(t)
      PROVE  r[k] = IF k < 2 THEN 0 ELSE s[k - 1]
  BY Zenon
<1>5. DOMAIN r = 0 .. Len(t) /\ r = [k \in 0 .. Len(t) |-> r[k]]
  BY Zenon
<1> HIDE DEF r
<1>6. ASSUME NEW k \in 0 .. Len(t)
      PROVE  r[k] \in Int
  <2>1. CASE k < 2
    <3>1. r[k] = 0 /\ 0 \in Int
      BY <1>4, <2>1
    <3> QED BY ONLY <3>1
  <2>2. CASE ~(k < 2)
    <3>1. k - 1 \in 0 .. Len(text)
      BY ONLY <1>2, <1>3, <2>2, k \in 0 .. Len(t), Zenon
    <3>2. r[k] = s[k - 1]
      BY <1>4, <2>2, Zenon
    <3> QED BY ONLY <1>1, <3>1, <3>2
  <2> QED BY ONLY <2>1, <2>2
<1>7. ASSUME NEW k \in 0 .. Len(t)
      PROVE  r[k] = IF k < 2 THEN 0 ELSE 10 * r[k - 1] + (t[k] - 48)
  <2>1. CASE k < 2
    BY ONLY <1>4, <2>1, k \in 0 .. Len(t), Zenon
  <2>2. CASE ~(k < 2)
    <3>1. k \in 2 .. Len(t)
      BY ONLY <1>3, <2>2, k \in 0 .. Len(t), Zenon
    <3>2. r[k] = s[k - 1] /\ t[k] = text[k - 1]
      BY <1>4, <2>2, <3>1, Zenon
    <3>3. r[k - 1] = s[(k - 1) - 1]
      <4>1. CASE k = 2
        <5>1. k - 1 < 2
          BY <4>1
        <5> QED BY ONLY <1>1, <1>2, <1>4, <3>1, <4>1, <5>1, Zenon
      <4>2. CASE k # 2
        BY ONLY <1>2, <1>4, <3>1, <4>2, Zenon
      <4> QED BY ONLY <4>1, <4>2
    <3>4. s[k - 1] = 10 * s[(k - 1) - 1] + (text[k - 1] - 48)
      BY ONLY <1>1, <1>2, <3>1, Zenon
    <3> QED BY ONLY <2>2, <3>2, <3>3, <3>4, Zenon
  <2> QED BY ONLY <2>1, <2>2
<1>8. r \in [0 .. Len(t) -> Int]
  BY ONLY <1>5, <1>6
<1>9. r \in Sums(t, 2)
  BY ONLY <1>7, <1>8, Zenon DEF Sums
<1> QED BY <1>9 DEF r

\* A text of digits only.
LEMMA AtoiUnsigned ==
  ASSUME NEW text \in Seq(Int), Len(text) > 0,
         \A k \in 1 .. Len(text) : text[k] \in 48 .. 57,
         NEW num \in Int, Says(text, 10, num)
  PROVE  atoi(text) = num
<1>1. PICK s \in Readings(text, 10) : s[Len(text)] = num
  BY Zenon DEF Says
<1>2. (\A c \in 48 .. 57 : c <= 57 /\ c \notin isspace /\ c \notin {45, 43})
  BY ONLY TRUE DEF isspace
<1>3. Len(text) \in Nat /\ Len(text) > 0
  OBVIOUS
<1>4. /\ 1 \in 1 .. Len(text) /\ Len(text) + 1 \in 1 .. (Len(text) + 1)
      /\ (Len(text) + 1) - 1 = Len(text) /\ Len(text) \in 0 .. Len(text)
      /\ 1 \in Nat /\ 1 \in Nat \ {0}
  BY ONLY <1>3
<1>5. Decimal(text) /\ text[1] \notin isspace /\ text[1] \notin {45, 43}
  BY <1>2, <1>4, Zenon DEF Decimal
<1>6. SignPlace(text) = 1
  BY <1>5, FirstHere, Zenon DEF SignPlace
<1>7. FirstNot(48 .. 57, text, 1) = Len(text) + 1
  <2>1. IsFirstNot(48 .. 57, text, 1, Len(text) + 1)
    BY <1>4, Zenon DEF IsFirstNot
  <2> QED BY <1>4, <2>1, FirstNotIs, Zenon
<1>8. ~HasSign(text) /\ FirstDigit(text) = 1 /\ DigitsEnd(text) = Len(text) + 1
  BY ONLY <1>5, <1>6, <1>7, Zenon DEF HasSign, FirstDigit, DigitsEnd
<1>9. atoi(text) = SumFunction(text, 1)[(Len(text) + 1) - 1]
  BY ONLY <1>8, AtoiParts, Zenon
<1>10. \A k \in 0 .. Len(text) : SumFunction(text, 1)[k] = s[k]
  <2>1. s \in Sums(text, 1)
    BY <1>5, PlainSums, Zenon
  <2> QED BY <1>4, <2>1, SumsFrom, Zenon
<1> QED BY ONLY <1>1, <1>4, <1>9, <1>10, Zenon

\* A text after a minus sign, of digits up to some place.
LEMMA AtoiSigned ==
  ASSUME NEW text \in Seq(Int), Decimal(text),
         NEW s \in Readings(text, 10), NEW n \in 0 .. Len(text),
         IsFirstNot(48 .. 57, text, 1, n + 1)
  PROVE  atoi(<<45>> \o text) = -s[n]
<1> DEFINE t == <<45>> \o text
<1>1. /\ t \in Seq(Int) /\ Len(t) = Len(text) + 1 /\ Len(text) \in Nat
      /\ t[1] = 45
      /\ \A k \in 2 .. Len(t) : t[k] = text[k - 1]
  OBVIOUS
<1> HIDE DEF t
<1>2. /\ n \in Nat /\ n + 1 = (n + 2) - 1 /\ n + 1 \in 0 .. Len(t)
      /\ n + 2 \in 2 .. (Len(t) + 1) /\ (n + 1) - 1 = n
      /\ n + 1 = Len(text) + 1 => n + 2 = Len(t) + 1
      /\ n + 1 # Len(text) + 1 => n + 2 \in 2 .. Len(t)
      /\ \A j \in 2 .. (n + 1) : j \in 2 .. Len(t) /\ j - 1 \in 1 .. n
      /\ 2 \in Nat \ {0} /\ 2 \in Nat
      /\ 1 <= Len(t) /\ Len(t) > 0 /\ 1 + 1 = 2
  BY ONLY <1>1, n \in 0 .. Len(text)
<1>3. SignPlace(t) = 1
  <2>1. 45 \notin isspace
    BY ONLY TRUE DEF isspace
  <2> QED BY ONLY <1>1, <1>2, <2>1, FirstHere, Zenon DEF SignPlace
<1>4. FirstNot(48 .. 57, t, 2) = n + 2
  <2>1. /\ n + 1 = Len(text) + 1 \/ text[n + 1] \notin 48 .. 57
        /\ \A j \in 1 .. n : text[j] \in 48 .. 57
    BY <1>2, Zenon DEF IsFirstNot
  <2>2. n + 2 = Len(t) + 1 \/ t[n + 2] \notin 48 .. 57
    <3>1. ASSUME n + 1 # Len(text) + 1
          PROVE  t[n + 2] = text[n + 1]
      BY ONLY <1>1, <1>2, <3>1, Zenon
    <3> QED BY ONLY <1>2, <2>1, <3>1, Zenon
  <2>3. ASSUME NEW j \in 2 .. (n + 1)
        PROVE  t[j] \in 48 .. 57
    <3>1. j \in 2 .. Len(t) /\ j - 1 \in 1 .. n
      BY <1>2, Zenon
    <3> QED BY ONLY <1>1, <2>1, <3>1, Zenon
  <2>4. IsFirstNot(48 .. 57, t, 2, n + 2)
    <3>1. n + 2 \in 2 .. (Len(t) + 1)
      BY <1>2, Zenon
    <3>2. \A j \in 2 .. ((n + 2) - 1) : t[j] \in 48 .. 57
      <4>1. (n + 2) - 1 = n + 1
        BY <1>2, Zenon
      <4> QED BY ONLY <2>3, <4>1, Zenon
    <3> QED BY ONLY <2>2, <3>1, <3>2, Zenon DEF IsFirstNot
  <2>5. t \in Seq(Int) /\ 2 \in Nat
    BY ONLY <1>1, <1>2
  <2> QED BY ONLY <2>4, <2>5, FirstNotIs, Zenon
<1>5. HasSign(t) /\ t[SignPlace(t)] = 45 /\ FirstDigit(t) = 2 /\ DigitsEnd(t) = n + 2
  BY ONLY <1>1, <1>2, <1>3, <1>4, Zenon DEF HasSign, FirstDigit, DigitsEnd
<1>6. atoi(t) = -SumFunction(t, 2)[(n + 2) - 1]
  BY ONLY <1>5, AtoiParts, Zenon
<1> DEFINE r == [k \in 0 .. Len(t) |-> IF k < 2 THEN 0 ELSE s[k - 1]]
<1>7. r \in Sums(t, 2)
  BY <1>1, SignedSums, Zenon
<1>8. r[n + 1] = s[n]
  <2>1. r[n + 1] = IF n + 1 < 2 THEN 0 ELSE s[(n + 1) - 1]
    BY <1>2, Zenon
  <2>2. s[0] = 0
    BY DecimalReadings, Zenon
  <2>3. n = 0 \/ ~(n + 1 < 2)
    BY ONLY <1>2
  <2> HIDE DEF r
  <2>4. n = 0 => n + 1 < 2
    BY ONLY TRUE
  <2> QED BY ONLY <1>2, <2>1, <2>2, <2>3, <2>4, Zenon
<1> HIDE DEF r
<1>9. \A k \in 0 .. Len(t) : SumFunction(t, 2)[k] = r[k]
  BY ONLY <1>1, <1>2, <1>7, SumsFrom, Zenon
<1>10. SumFunction(t, 2)[(n + 2) - 1] = s[n]
  BY ONLY <1>2, <1>8, <1>9, Zenon
<1> QED BY ONLY <1>6, <1>10, Zenon DEF t

\* A decimal number is read back, unless it has no opposite.
LEMMA DecimalReadBack ==
  ASSUME NEW num \in Int
  PROVE  atoi(itoa(num, 10)) = num <=> num # MinInt
<1>0. 10 \in Bases /\ MinInt \in Int /\ MinInt < 0
  BY SMT DEF Bases, MinInt
<1>1. CASE num = 0
  <2> DEFINE t == <<48>>
  <2>1. itoa(num, 10) = t
    BY <1>1 DEF itoa
  <2>2. t \in Seq(Int) /\ Len(t) = 1 /\ t[1] = 48
    OBVIOUS
  <2> HIDE DEF t
  <2>3. Says(t, 10, 0)
    <3>1. [k \in 0 .. 1 |-> 0] \in Readings(t, 10)
      BY <2>2 DEF Readings, DigitValue
    <3> QED BY <2>2, <3>1 DEF Says
  <2>4. Len(t) > 0 /\ \A k \in 1 .. Len(t) : t[k] \in 48 .. 57
    BY <2>2
  <2>5. atoi(t) = 0
    <3>1. 0 \in Int
      OBVIOUS
    <3> QED BY <2>2, <2>3, <2>4, <3>1, AtoiUnsigned, Zenon
  <2> QED BY <1>0, <1>1, <2>1, <2>5
<1>2. CASE num > 0
  <2> DEFINE t == Digits(num, 10)
  <2>1. itoa(num, 10) = t
    BY <1>2 DEF itoa
  <2>2. t \in Seq(Int) /\ Says(t, 10, num)
    BY <1>0, DigitsEquation, DigitsSay, Zenon
  <2>3. Len(t) > 0 /\ \A k \in 1 .. Len(t) : t[k] \in 48 .. 57
    <3>1. GoodDigits(num, 10)
      BY <1>0, DigitsGood, Zenon
    <3> QED BY <1>2, <3>1 DEF GoodDigits, DigitChars
  <2> HIDE DEF t
  <2>4. atoi(t) = num
    BY <2>2, <2>3, AtoiUnsigned, Zenon
  <2> QED BY <1>0, <1>2, <2>1, <2>4
<1>3. CASE num < 0
  <2> DEFINE m == Negated(num)
             t == Digits(m, 10)
  <2>1. itoa(num, 10) = <<45>> \o t
    BY <1>3 DEF itoa
  <2>2. m \in Int /\ m # 0 /\ (num = MinInt => m = num) /\ (num # MinInt => m = -num)
    BY <1>0, <1>3 DEF Negated
  <2> HIDE DEF m
  <2>3. t \in Seq(Int) /\ Says(t, 10, m)
    BY <1>0, <2>2, DigitsEquation, DigitsSay, Zenon
  <2>4. GoodDigits(m, 10)
    BY <1>0, <2>2, DigitsGood, Zenon
  <2>5. /\ Len(t) > 0 /\ Len(t) \in Nat
        /\ Decimal(t)
        /\ m > 0 => \A k \in 1 .. Len(t) : t[k] \in 48 .. 57
        /\ m < 0 => t[1] \in 33 .. 47
    BY <2>2, <2>3, <2>4 DEF GoodDigits, DigitChars, Decimal
  <2>6. PICK s \in Readings(t, 10) : s[Len(t)] = m
    BY <2>3, Zenon DEF Says
  <2>7. s[0] = 0
    BY Zenon DEF Readings
  <2> HIDE DEF t
  <2>8. CASE num = MinInt
    <3>1. 0 \in 0 .. Len(t) /\ IsFirstNot(48 .. 57, t, 1, 0 + 1)
      <4>1. t[1] \in 33 .. 47 /\ 0 + 1 = 1
        BY <1>3, <2>2, <2>5, <2>8
      <4>2. t[1] \notin 48 .. 57
        BY <4>1
      <4>3. /\ 0 \in 0 .. Len(t) /\ 1 \in 1 .. (Len(t) + 1)
            /\ \A j \in 1 .. (1 - 1) : t[j] \in 48 .. 57
        BY <2>5
      <4> QED BY ONLY <4>1, <4>2, <4>3, Zenon DEF IsFirstNot
    <3>2. atoi(<<45>> \o t) = -s[0]
      BY <2>3, <2>5, <3>1, AtoiSigned, Zenon
    <3>3. 0 # num
      BY <1>3
    <3>4. (\A j \in Int : -j = 0 - j) /\ 0 \in Int /\ 0 - 0 = 0
      OBVIOUS
    <3>5. -s[0] = 0
      BY <2>7, <3>4, Zenon
    <3> QED BY <2>1, <2>8, <3>2, <3>3, <3>5, Zenon
  <2>9. CASE num # MinInt
    <3>1. Len(t) \in 0 .. Len(t) /\ IsFirstNot(48 .. 57, t, 1, Len(t) + 1)
      <4>1. m > 0
        BY <1>3, <2>2, <2>9
      <4>2. /\ Len(t) \in 0 .. Len(t) /\ Len(t) + 1 \in 1 .. (Len(t) + 1)
            /\ (Len(t) + 1) - 1 = Len(t)
        BY <2>5
      <4> QED BY ONLY <2>5, <4>1, <4>2, Zenon DEF IsFirstNot
    <3>2. atoi(<<45>> \o t) = -s[Len(t)]
      BY <2>3, <2>5, <3>1, AtoiSigned, Zenon
    <3>3. -m = num
      BY <2>2, <2>9
    <3> QED BY <2>1, <2>6, <2>9, <3>2, <3>3
  <2> QED BY <2>8, <2>9
<1> QED BY <1>1, <1>2, <1>3

\* The sum of HexValue.
HexFunction(text) ==
  CHOOSE Sum : Sum = [k \in 0 .. Len(text) |->
    IF k = 0 THEN 0
    ELSE 16 * Sum[k - 1] + (IF text[k] <= 57 THEN text[k] - 48 ELSE text[k] - 87)]

LEMMA HexValueIs ==
  ASSUME NEW text
  PROVE  HexValue(text) = HexFunction(text)[Len(text)]
BY Zenon DEF HexValue, HexFunction

LEMMA HexSums ==
  ASSUME NEW text \in Seq(Int), NEW s \in Readings(text, 16)
  PROVE  HexFunction(text)[Len(text)] = s[Len(text)]
<1> DEFINE f == HexFunction(text)
<1>1. /\ s \in [0 .. Len(text) -> Int] /\ s[0] = 0
      /\ \A k \in 1 .. Len(text) : s[k] = 16 * s[k - 1] + DigitValue(text[k])
  BY Zenon DEF Readings
<1>2. Len(text) \in Nat
  OBVIOUS
<1>3. s = [k \in 0 .. Len(text) |->
             IF k = 0 THEN 0 ELSE 16 * s[k - 1] + DigitValue(text[k])]
  BY <1>1, <1>2
<1>4. f = [k \in 0 .. Len(text) |->
             IF k = 0 THEN 0 ELSE 16 * f[k - 1] + DigitValue(text[k])]
  BY <1>3, Zenon DEF HexFunction, DigitValue
<1> HIDE DEF f
<1> DEFINE S == {n \in Nat : n <= Len(text) => f[n] = s[n]}
<1>5. 0 \in S
  BY <1>1, <1>2, <1>4
<1>6. ASSUME NEW n \in Nat, n \in S
      PROVE  n + 1 \in S
  <2>1. ASSUME n + 1 <= Len(text)
        PROVE  f[n + 1] = s[n + 1]
    <3>1. n + 1 \in 0 .. Len(text) /\ n + 1 \in 1 .. Len(text) /\ (n + 1) - 1 = n
      BY <2>1, <1>2
    <3>2. f[n] = s[n]
      BY <1>6, <2>1, <1>2
    <3>3. f[n + 1] = 16 * f[n] + DigitValue(text[n + 1])
      BY <1>4, <3>1
    <3>4. s[n + 1] = 16 * s[n] + DigitValue(text[n + 1])
      BY <1>1, <3>1
    <3> QED BY <3>2, <3>3, <3>4, Zenon
  <2> QED BY <2>1
<1> HIDE DEF S
<1>7. \A n \in Nat : n \in S
  BY <1>5, <1>6, SetInduction, Zenon
<1> QED BY <1>2, <1>7 DEF S, f

\* The characters of a hexadecimal number add up to it, and they are digits
\* unless it is negative, whose first character is none.
LEMMA HexReadBack ==
  ASSUME NEW num \in Int
  PROVE  /\ HexValue(itoa(num, 16)) = num
         /\ Legible(itoa(num, 16)) <=> num >= 0
<1>0. 16 \in Bases
  BY DEF Bases
<1>1. CASE num = 0
  <2> DEFINE t == <<48>>
  <2>1. itoa(num, 16) = t
    BY <1>1 DEF itoa
  <2>2. t \in Seq(Int) /\ Len(t) = 1 /\ t[1] = 48
    OBVIOUS
  <2> HIDE DEF t
  <2>3. [k \in 0 .. 1 |-> 0] \in Readings(t, 16)
    BY <2>2 DEF Readings, DigitValue
  <2>4. HexValue(t) = [k \in 0 .. 1 |-> 0][Len(t)]
    BY <2>2, <2>3, HexSums, HexValueIs, Zenon
  <2>5. Legible(t)
    BY <2>2 DEF Legible, HexDigits
  <2> QED BY <1>1, <2>1, <2>2, <2>4, <2>5
<1>2. CASE num # 0
  <2> DEFINE t == Digits(num, 16)
  <2>1. itoa(num, 16) = t
    <3>1. 16 # 10
      OBVIOUS
    <3> QED BY <1>2, <3>1, Zenon DEF itoa
  <2>2. t \in Seq(Int) /\ Says(t, 16, num)
    BY <1>0, DigitsEquation, DigitsSay, Zenon
  <2>3. GoodDigits(num, 16)
    BY <1>0, DigitsGood, Zenon
  <2>4. /\ Len(t) > 0 /\ Len(t) \in Nat
        /\ num >= 0 => \A k \in 1 .. Len(t) : t[k] \in HexDigits
        /\ num < 0 => t[1] \in 33 .. 47
    BY <1>2, <2>2, <2>3 DEF GoodDigits, DigitChars
  <2>5. PICK s \in Readings(t, 16) : s[Len(t)] = num
    BY <2>2, Zenon DEF Says
  <2> HIDE DEF t
  <2>6. HexValue(t) = num
    <3>1. HexFunction(t)[Len(t)] = s[Len(t)]
      BY <2>2, HexSums, Zenon
    <3> QED BY <2>5, <3>1, HexValueIs, Zenon
  <2>7. num >= 0 => Legible(t)
    BY <2>4, Zenon DEF Legible
  <2>8. num < 0 => ~Legible(t)
    <3>1. num < 0 => t[1] \notin HexDigits
      <4>1. \A c \in 33 .. 47 : c \notin HexDigits
        BY DEF HexDigits
      <4> QED BY <2>4, <4>1, Zenon
    <3>2. 1 \in 1 .. Len(t)
      BY <2>4
    <3> QED BY <3>1, <3>2, Zenon DEF Legible
  <2>9. num >= 0 \/ num < 0
    OBVIOUS
  <2>10. num >= 0 => ~(num < 0)
    OBVIOUS
  <2>11. Legible(t) <=> num >= 0
    BY <2>7, <2>8, <2>9, <2>10, Zenon
  <2> QED BY <2>1, <2>6, <2>11, Zenon
<1> QED BY <1>1, <1>2

-----------------------------------------------------------------------------
(* What has been printed. *)

Early == {"start", "low", "high", "enable", "vga"}

\* Where text goes that was printed last.
ShownAt == IF Unseen THEN 0 ELSE Screen

\* A number, its text, and where that is.
Shows(p, buf) ==
  /\ p.base \in Bases /\ p.num \in Int /\ p.text = itoa(p.num, p.base)
  /\ p.at = buf

\* What bvga_init() finds printed is not on the screen, and stays the last for
\* a while.
PInv ==
  /\ buffer = IF pc \in Early THEN 0 ELSE Screen
  /\ pc \in {"start", "low"} => line = <<>>
  /\ \A k \in 1 .. Len(line) : Shows(line[k], ShownAt)

LEMMA TextShows ==
  ASSUME NEW num \in Int, NEW base \in Bases
  PROVE  Shows(Text(num, base), buffer)
BY DEF Shows, Text

LEMMA IntTypes ==
  ASSUME NEW kib \in Int
  PROVE  Int32(kib) \in Int /\ Id(kib) \in Int /\ (kib + MiB4) % Space \in Int
BY Sizes, SMT DEF Int32, Id

\* The numbers of paging_map().
LEMMA MapPrints ==
  ASSUME NEW virt \in Int, NEW phys \in Int, paging_map(virt, phys)
  PROVE  \A k \in 1 .. Len(line') : Shows(line'[k], buffer)
<1> DEFINE a == Text(Int32(virt), 16)
           b == Text(Id(virt), 10)
           c == Text(Int32((phys + MiB4) % Space), 16)
<1>1. line' = <<a, b, c>>
  BY Zenon DEF paging_map
<1>2. 10 \in Bases /\ 16 \in Bases
  BY DEF Bases
<1>3. Shows(a, buffer) /\ Shows(b, buffer) /\ Shows(c, buffer)
  <2>1. /\ Int32(virt) \in Int /\ Id(virt) \in Int
        /\ Int32((phys + MiB4) % Space) \in Int
    BY IntTypes
  <2> QED BY <1>2, <2>1, TextShows, Zenon
<1> HIDE DEF a, b, c
<1> QED BY <1>1, <1>3

\* Other numbers.
LEMMA PrintShows ==
  ASSUME NEW numbers \in Seq(Int), Printed(numbers)
  PROVE  \A k \in 1 .. Len(line') : Shows(line'[k], buffer)
<1>1. line' = [k \in 1 .. Len(numbers) |-> Text(numbers[k], 10)]
  BY Zenon DEF Printed
<1>2. 10 \in Bases
  BY DEF Bases
<1>3. Len(numbers) \in Nat /\ \A k \in 1 .. Len(numbers) : numbers[k] \in Int
  OBVIOUS
<1>4. \A k \in 1 .. Len(numbers) : Shows(Text(numbers[k], 10), buffer)
  BY <1>2, <1>3, TextShows, Zenon
<1> DEFINE T(k) == Text(numbers[k], 10)
<1> HIDE DEF T
<1>5. line' = [k \in 1 .. Len(numbers) |-> T(k)]
  BY <1>1, Zenon DEF T
<1>6. Len(line') = Len(numbers)
  BY <1>3, <1>5
<1>7. \A k \in 1 .. Len(numbers) : line'[k] = T(k)
  BY <1>5, Zenon
<1> QED BY <1>4, <1>6, <1>7, Zenon DEF T

LEMMA PrintsNoMore ==
  ASSUME PInv, line' = line, Unseen' <=> Unseen,
         buffer' = IF pc' \in Early THEN 0 ELSE Screen,
         pc' \in {"start", "low"} => pc \in {"start", "low"}
  PROVE  PInv'
<1>1. ShownAt' = ShownAt
  BY Zenon DEF ShownAt
<1>2. pc' \in {"start", "low"} => line' = <<>>
  BY Zenon DEF PInv
<1>3. \A k \in 1 .. Len(line') : Shows(line'[k], ShownAt')
  BY <1>1, Zenon DEF PInv
<1> QED BY <1>2, <1>3, Zenon DEF PInv

\* Text is printed where the buffer is, by a step after which it is seen.
LEMMA PrintsOnScreen ==
  ASSUME PInv, buffer' = buffer, pc \notin Early, pc' \notin Early, ~Unseen',
         \A k \in 1 .. Len(line') : Shows(line'[k], buffer)
  PROVE  PInv'
<1>1. buffer = Screen /\ ShownAt' = Screen /\ buffer' = Screen
  BY Zenon DEF PInv, ShownAt
<1>2. pc' \notin {"start", "low"}
  BY DEF Early
<1>3. \A k \in 1 .. Len(line') : Shows(line'[k], ShownAt')
  BY <1>1, Zenon
<1> QED BY <1>1, <1>2, <1>3, Zenon DEF PInv

LEMMA PInvKept ==
  ASSUME BInv, PInv, [Next]_vars
  PROVE  PInv'
<1>0. /\ buffer = IF pc \in Early THEN 0 ELSE Screen
      /\ i \in 0 .. 32 /\ bar5 \in Int
  BY BarIsNumber DEF PInv, BInv, TypeOK
<1>1. CASE paging_init
  <2>1. pc = "start" /\ pc' = "low" /\ line' = line /\ buffer' = buffer
    BY <1>1 DEF paging_init, Goto
  <2>2. /\ Unseen' <=> Unseen
        /\ buffer' = IF pc' \in Early THEN 0 ELSE Screen
    BY <1>0, <2>1 DEF Unseen, Early
  <2> QED BY <2>1, <2>2, PrintsNoMore
<1>2. CASE MapLow
  <2>1. buffer' = buffer /\ pc \in {"low", "high"} /\ pc' \in {"high", "enable"}
    BY <1>2, Zenon DEF MapLow, Goto
  <2>2. \A k \in 1 .. Len(line') : Shows(line'[k], buffer)
    <3>1. 0 \in Int /\ MiB4 \in Int
      BY Sizes
    <3>2. paging_map(0, 0) \/ paging_map(MiB4, MiB4)
      BY <1>2, Zenon DEF MapLow
    <3> QED BY <3>1, <3>2, MapPrints, Zenon
  <2>3. /\ buffer = 0 /\ buffer' = 0 /\ ShownAt' = 0
        /\ pc' \in Early /\ pc' \notin {"start", "low"}
    BY <1>0, <2>1 DEF Early, Unseen, ShownAt
  <2> QED BY <2>2, <2>3, Zenon DEF PInv
<1>3. CASE Enable
  <2>1. pc = "enable" /\ pc' = "vga" /\ UNCHANGED <<line, buffer>>
    BY <1>3 DEF Enable, Goto
  <2>2. /\ Unseen' <=> Unseen
        /\ buffer' = IF pc' \in Early THEN 0 ELSE Screen
    BY <1>0, <2>1 DEF Unseen, Early
  <2> QED BY <2>1, <2>2, PrintsNoMore
<1>4. CASE bvga_init
  <2>1. pc = "vga" /\ pc' = "ram" /\ line' = line /\ buffer' = Screen
    BY <1>4 DEF bvga_init, Goto
  <2>2. /\ Unseen' <=> Unseen
        /\ buffer' = IF pc' \in Early THEN 0 ELSE Screen
    BY <2>1 DEF Unseen, Early
  <2> QED BY <2>1, <2>2, PrintsNoMore
<1>5. CASE AvailableRam
  <2>1. pc = "ram" /\ pc' = "search" /\ buffer' = buffer /\ Printed(<<HeapBytes>>)
    BY <1>5 DEF AvailableRam, Goto
  <2>2. <<HeapBytes>> \in Seq(Int)
    BY BootAssumption
  <2>3. \A k \in 1 .. Len(line') : Shows(line'[k], buffer)
    BY <2>1, <2>2, PrintShows, Zenon
  <2>4. pc \notin Early /\ pc' \notin Early /\ ~Unseen'
    BY <2>1 DEF Early, Unseen
  <2> QED BY <2>1, <2>3, <2>4, PrintsOnScreen, Zenon
<1>6. CASE Search
  <2>1. pc = "search" /\ pc' \in {"search", "map"} /\ UNCHANGED <<line, buffer>>
    BY <1>6 DEF Search, Goto
  <2>2. /\ Unseen' <=> Unseen
        /\ buffer' = IF pc' \in Early THEN 0 ELSE Screen
    BY <1>0, <2>1 DEF Unseen, Early
  <2> QED BY <2>1, <2>2, PrintsNoMore
<1>7. CASE MapRegisters
  <2>1. pc = "map" /\ pc' = "abar" /\ buffer' = buffer /\ paging_map(bar5, bar5)
    BY <1>7 DEF MapRegisters, Goto
  <2>2. \A k \in 1 .. Len(line') : Shows(line'[k], buffer)
    BY <1>0, <2>1, MapPrints, Zenon
  <2>3. pc \notin Early /\ pc' \notin Early /\ ~Unseen'
    BY <2>1 DEF Early, Unseen
  <2> QED BY <2>1, <2>2, <2>3, PrintsOnScreen, Zenon
<1>8. CASE AhciProbe
  <2>1. /\ pc = "abar" /\ pc' = "probe" /\ buffer' = buffer
        /\ Printed(<<Int32(bar5), Int32(bar5)>>)
    BY <1>8 DEF AhciProbe, Goto
  <2>2. <<Int32(bar5), Int32(bar5)>> \in Seq(Int)
    <3>1. Int32(bar5) \in Int
      BY <1>0, IntTypes
    <3> QED BY <3>1
  <2>3. \A k \in 1 .. Len(line') : Shows(line'[k], buffer)
    BY <2>1, <2>2, PrintShows, Zenon
  <2>4. pc \notin Early /\ pc' \notin Early /\ ~Unseen'
    BY <2>1 DEF Early, Unseen
  <2> QED BY <2>1, <2>3, <2>4, PrintsOnScreen, Zenon
<1>9. CASE ProbePort
  <2>1. /\ pc = "probe" /\ pc' \in {"probe", "rebase"} /\ buffer' = buffer
        /\ line' = line \/ Printed(<<i, 0>>) \/ Printed(<<i>>)
    BY <1>9 DEF ProbePort, Goto
  <2>2. /\ pc \notin Early /\ pc' \notin Early /\ ~Unseen' /\ ~Unseen
        /\ pc' \notin {"start", "low"}
    BY <2>1 DEF Early, Unseen
  <2>3. CASE line' = line
    BY <1>0, <2>1, <2>2, <2>3, PrintsNoMore
  <2>4. CASE Printed(<<i, 0>>) \/ Printed(<<i>>)
    <3>1. <<i, 0>> \in Seq(Int) /\ <<i>> \in Seq(Int)
      BY <1>0
    <3>2. \A k \in 1 .. Len(line') : Shows(line'[k], buffer)
      BY <2>4, <3>1, PrintShows, Zenon
    <3> QED BY <2>1, <2>2, <3>2, PrintsOnScreen, Zenon
  <2> QED BY <2>1, <2>3, <2>4
<1>10. CASE Rebase
  <2>1. pc = "rebase" /\ pc' \in {"probe", "hung"} /\ UNCHANGED <<line, buffer>>
    BY <1>10 DEF Rebase, Goto
  <2>2. /\ Unseen' <=> Unseen
        /\ buffer' = IF pc' \in Early THEN 0 ELSE Screen
    BY <1>0, <2>1 DEF Unseen, Early
  <2> QED BY <2>1, <2>2, PrintsNoMore
<1>11. CASE Shell
  <2>1. pc = "probe" /\ pc' = "shell" /\ buffer' = buffer /\ Printed(<<0, 0, 2>>)
    BY <1>11 DEF Shell, Goto
  <2>2. <<0, 0, 2>> \in Seq(Int)
    OBVIOUS
  <2>3. \A k \in 1 .. Len(line') : Shows(line'[k], buffer)
    BY <2>1, <2>2, PrintShows, Zenon
  <2>4. pc \notin Early /\ pc' \notin Early /\ ~Unseen'
    BY <2>1 DEF Early, Unseen
  <2> QED BY <2>1, <2>3, <2>4, PrintsOnScreen, Zenon
<1>12. CASE UNCHANGED vars
  <2>1. pc' = pc /\ UNCHANGED <<line, buffer>>
    BY <1>12 DEF vars
  <2>2. /\ Unseen' <=> Unseen
        /\ buffer' = IF pc' \in Early THEN 0 ELSE Screen
    BY <1>0, <2>1 DEF Unseen
  <2> QED BY <2>1, <2>2, PrintsNoMore
<1> QED BY <1>1, <1>2, <1>3, <1>4, <1>5, <1>6, <1>7, <1>8, <1>9, <1>10, <1>11,
           <1>12 DEF Next

-----------------------------------------------------------------------------
(* The theorems. *)

\* BInv is inductive.
THEOREM BootInvariance ==
  Spec => []BInv
BY Starts, BInvKept, PTL DEF Spec

\* The variables keep their types: no more than three tables are ever taken,
\* and the registers are where a controller has them, or nowhere.
THEOREM BootTypes ==
  Spec => []TypeOK
<1>1. BInv => TypeOK
  BY DEF BInv
<1> QED
  BY BootInvariance, <1>1, PTL

\* Whatever is on the bus and at the ports: paging is never on, the registers
\* are those of the first controller that has an address, the first port has the
\* memory of the last number with a drive, and no number's memory is written to
\* when another is set up.
THEOREM Probing ==
  Spec => []ProbeExact
<1>1. BInv => ProbeExact
  BY DEF BInv
<1> QED
  BY BootInvariance, <1>1, PTL

\* The characters of every number that is printed stand for it, whatever it
\* is: decimal ones are read back by atoi(), but for the one that has no
\* opposite; hexadecimal ones add up to it, and are digits unless it is
\* negative.  The numbers of paging_init() alone are not on the screen.
THEOREM Printing ==
  Spec => []PrintedExact
<1>1. Init => PInv
  BY DEF Init, PInv, Early
<1>2. BInv /\ PInv /\ [Next]_vars => PInv'
  BY PInvKept
<1>3. PInv => PrintedExact
  <2> SUFFICES ASSUME PInv, NEW k \in 1 .. Len(line)
               PROVE  /\ line[k].base = 10 =>
                           (atoi(line[k].text) = line[k].num <=> line[k].num # MinInt)
                      /\ line[k].base = 16 =>
                           /\ HexValue(line[k].text) = line[k].num
                           /\ Legible(line[k].text) <=> line[k].num >= 0
                      /\ line[k].at = Screen <=> ~Unseen
    BY Zenon DEF PrintedExact
  <2> DEFINE p == line[k]
  <2>1. Shows(p, ShownAt)
    BY Zenon DEF PInv
  <2>2. p.num \in Int /\ p.text = itoa(p.num, p.base) /\ p.base \in Bases
    BY <2>1, Zenon DEF Shows
  <2>3. p.base = 10 => (atoi(p.text) = p.num <=> p.num # MinInt)
    BY <2>2, DecimalReadBack, Zenon
  <2>4. p.base = 16 => /\ HexValue(p.text) = p.num
                       /\ Legible(p.text) <=> p.num >= 0
    BY <2>2, HexReadBack, Zenon
  <2>5. p.at = Screen <=> ~Unseen
    <3>1. Screen # 0
      BY DEF Screen
    <3> QED BY <2>1, <3>1, Zenon DEF Shows, ShownAt
  <2> QED BY <2>3, <2>4, <2>5, Zenon
<1> QED
  BY BootInvariance, <1>1, <1>2, <1>3, PTL DEF Spec
=============================================================================
