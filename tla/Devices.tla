------------------------------ MODULE Devices ------------------------------
(***************************************************************************)
(* The simulator's devices: the registry (src/src/simif.c) and the devices *)
(* that tsim can put in it, prealloc and sparse memory, the serial port,   *)
(* the LED display and the text display (src/src/devices/).                *)
(*                                                                         *)
(* A device is its kind and its cookie; the cookie is the number of the    *)
(* slot the device was registered in, which qsort moves it away from.  The *)
(* words the devices hold are one function, store, from a cookie and an    *)
(* address to a word.  For a sparse memory it has just the pages that have *)
(* been allocated.  What is drawn is left out.                             *)
(***************************************************************************)
EXTENDS Integers, Sequences, FiniteSets, Functions

CONSTANTS Limit,       \* number of addresses
          RAM_BASE, RAM_END, SERIAL_BASE, SDLLED_BASE, SDLVGA_BASE,
          VgaLength,   \* addresses of the text display
          Cells,       \* characters it has
          PageWords,   \* words in a page of sparse memory
          LedValues,   \* number of values an LED register shows
          PumpCycles,  \* an SDL device polls once in so many cycles
          Slots,       \* slots devices_setup allocates
          Word, RamFill, SparseFill

Address == 0 .. Limit - 1

(* The devices: their first and last address, and whether they want cycles. *)

ram_add_device       == [bounds |-> <<RAM_BASE, RAM_END>>, cycle |-> FALSE]
sparseram_add_device == [bounds |-> <<RAM_BASE, RAM_END>>, cycle |-> FALSE]
serial_add_device    == [bounds |-> <<SERIAL_BASE, SERIAL_BASE + 1>>, cycle |-> FALSE]
sdlled_add_device    == [bounds |-> <<SDLLED_BASE, SDLLED_BASE + 1>>, cycle |-> TRUE]
sdlvga_add_device    == [bounds |-> <<SDLVGA_BASE, SDLVGA_BASE + VgaLength - 1>>, cycle |-> TRUE]

Device == [prealloc |-> ram_add_device, sparse |-> sparseram_add_device,
           serial |-> serial_add_device, sdlled |-> sdlled_add_device,
           sdlvga |-> sdlvga_add_device]

Kinds     == DOMAIN Device
Base(k)   == Device[k].bounds[1]
Top(k)   == Device[k].bounds[2]
Span(k)   == Base(k) .. Top(k)
Sdl       == {k \in Kinds : Device[k].cycle}

\* The bases lie less than half of the address space apart, and devices that
\* overlap, the two memories, cover the same addresses.
ASSUME BoundsAssumption ==
  /\ Limit \in Nat /\ Limit % 2 = 0
  /\ \A k \in Kinds :
       Base(k) \in Nat /\ Base(k) <= Top(k) /\ Top(k) \in Address /\ 2 * Base(k) < Limit
  /\ \A j, k \in Kinds : Span(j) = Span(k) \/ Span(j) \cap Span(k) = {}

ASSUME SizeAssumption ==
  /\ {VgaLength, PageWords, PumpCycles, Slots, LedValues} \subseteq Nat \ {0}
  /\ Cells \in 0 .. VgaLength
  /\ Word \subseteq Nat /\ {0, RamFill, SparseFill} \subseteq Word
  /\ \A w \in Word : w % LedValues \in Word

VARIABLES devices,      \* s->machine.devices, as far as devices_count
          devices_max,  \* s->machine.devices_max
          live,         \* cookies that have been initialised and not finished
          store,        \* <<cookie, address>> |-> word
          input,        \* characters left on stdin
          events,       \* the queue of SDL
          cycles        \* cookie of an SDL device |-> its cycle count

deviceVars == <<devices, devices_max, live, store, input, events, cycles>>

-----------------------------------------------------------------------------
(* The registry. *)

devices_setup ==
  /\ devices = <<>> /\ devices_max = Slots
  /\ live = {} /\ store = <<>> /\ cycles = <<>>

\* Twice the slots when none is left.
Capacity == IF Len(devices) >= devices_max THEN 2 * devices_max ELSE devices_max

\* next_device, and the device's own add_device.
add_device(kind) ==
  /\ devices_max' = Capacity
  /\ devices' = Append(devices, [kind |-> kind, cookie |-> Len(devices) + 1])
  /\ UNCHANGED <<live, store, input, events, cycles>>

\* A difference of two unsigned words, as a signed one.
compare_devices_by_base(a, b) ==
  LET d == (Base(a.kind) - Base(b.kind)) % Limit
  IN  IF 2 * d >= Limit THEN d - Limit ELSE d

\* Mutant of Sorted: the devices stay as they were registered.
Unsorted == {devices}

\* The orders qsort may leave the devices in.
Sorted ==
  {ds \in {[i \in DOMAIN devices |-> devices[p[i]]] :
             p \in Bijection(DOMAIN devices, DOMAIN devices)} :
     \A i, j \in DOMAIN ds : i < j => compare_devices_by_base(ds[i], ds[j]) <= 0}

find_device_by_addr(addr, d) ==
  CASE addr > Top(d.kind) -> 1
    [] addr < Base(d.kind) -> -1
    [] OTHER -> 0

\* bsearch over the devices from r[1] + 1 to r[2], where f has what it finds
\* in a part of them.
Probe(ds, addr, f, r) ==
  LET mid == (r[1] + r[2]) \div 2
      c   == find_device_by_addr(addr, ds[mid + 1])
  IN  IF r[1] >= r[2] THEN 0
      ELSE CASE c = 0 -> mid + 1
             [] c < 0 -> f[<<r[1], mid>>]
             [] c > 0 -> f[<<mid + 1, r[2]>>]

bsearch(ds, addr) ==
  LET look[r \in (0 .. Len(ds)) \X (0 .. Len(ds))] == Probe(ds, addr, look, r)
  IN  look[<<0, Len(ds)>>]

\* The place of a device that handles addr, or 0.
Find(addr) == bsearch(devices, addr)

Owner(addr) == devices[Find(addr)]

-----------------------------------------------------------------------------
(* What each device holds, to begin with and after an operation. *)

Filled(cookie, addrs, w) == [c \in {cookie} \X addrs |-> w]
Extend(f, g) == [c \in DOMAIN f \cup DOMAIN g |-> IF c \in DOMAIN f THEN f[c] ELSE g[c]]
Page(addr)   == {a \in Address : a \div PageWords = addr \div PageWords}

ram_init(c)           == Filled(c, Span("prealloc"), RamFill)
ram_write(c, addr, w) == [store EXCEPT ![<<c, addr>>] = w]

sparseram_init(c)     == <<>>

\* Mutant of sparseram_page: the page is allocated again on each access.
sparseram_anew(c, addr) == Extend(Filled(c, Page(addr), SparseFill), store)

\* A page is allocated on a write and on a read.
sparseram_page(c, addr)     == Extend(store, Filled(c, Page(addr), SparseFill))
sparseram_write(c, addr, w) == [sparseram_page(c, addr) EXCEPT ![<<c, addr>>] = w]

sdlled_init(c)        == Filled(c, Span("sdlled"), 0)
sdlled_read(c, addr)  == store[<<c, addr>>] % LedValues

\* The cells of the text display; the rest of its addresses is nothing.
VgaCells              == SDLVGA_BASE .. SDLVGA_BASE + Cells - 1
sdlvga_init(c)        == Filled(c, VgaCells, 0)
sdlvga_write(c, addr, w) == IF addr \in VgaCells THEN ram_write(c, addr, w) ELSE store

\* Mutant of serial_read: every read takes a character.
serial_read_any(kind) == input - 1

\* getchar; at the end of the input the operation fails instead.
serial_read(kind) == IF kind = "serial" THEN input - 1 ELSE input

Fresh(d) ==
  CASE d.kind = "prealloc" -> ram_init(d.cookie)
    [] d.kind = "sparse"   -> sparseram_init(d.cookie)
    [] d.kind = "sdlled"   -> sdlled_init(d.cookie)
    [] d.kind = "sdlvga"   -> sdlvga_init(d.cookie)
    [] d.kind = "serial"   -> <<>>

AllFresh(ds) ==
  LET parts == {Fresh(ds[i]) : i \in DOMAIN ds}
  IN  [c \in UNION {DOMAIN f : f \in parts} |-> (CHOOSE f \in parts : c \in DOMAIN f)[c]]

Cookies(kinds) == {devices[i].cookie : i \in {j \in DOMAIN devices : devices[j].kind \in kinds}}

\* devices_finalise: qsort, and every device's init.
devices_finalise ==
  /\ devices' \in Sorted
  /\ live' = Cookies(Kinds)
  /\ store' = AllFresh(devices)
  /\ cycles' = [c \in Cookies(Sdl) |-> 0]
  /\ UNCHANGED <<devices_max, input, events>>

devices_teardown == live' = {} /\ store' = <<>>

-----------------------------------------------------------------------------
(* dispatch_op: whether it fails, and what it leaves.  A serial port at    *)
(* the end of its input is the only device that refuses an operation.      *)

WriteFails(addr) == Find(addr) = 0
ReadFails(addr)  == Find(addr) # 0 => Owner(addr).kind = "serial" /\ input = 0

AfterWrite(addr, w) ==
  LET d == Owner(addr)
  IN  CASE d.kind \in {"prealloc", "sdlled"} -> ram_write(d.cookie, addr, w)
        [] d.kind = "sparse" -> sparseram_write(d.cookie, addr, w)
        [] d.kind = "sdlvga" -> sdlvga_write(d.cookie, addr, w)
        [] d.kind = "serial" -> store

AfterRead(addr) ==
  LET d == Owner(addr) IN IF d.kind = "sparse" THEN sparseram_page(d.cookie, addr) ELSE store

InputAfterRead(addr) == serial_read(Owner(addr).kind)

\* The addresses whose device keeps what is written.
Keeps(addr) ==
  LET k == Owner(addr).kind IN k # "serial" /\ (k = "sdlvga" => addr \in VgaCells)

\* What a read gives there.
Value(addr) ==
  LET d == Owner(addr)
  IN  IF d.kind = "sdlled" THEN sdlled_read(d.cookie, addr) ELSE AfterRead(addr)[<<d.cookie, addr>>]

-----------------------------------------------------------------------------
(* devices_dispatch_cycle: each SDL device counts, and polls one event     *)
(* when its count says so.  To quit is to leave the program.               *)

Polling == {c \in DOMAIN cycles : cycles[c] = 0}

Polled == LET n == Cardinality(Polling)
          IN  SubSeq(events, 1, IF n < Len(events) THEN n ELSE Len(events))

Quits == "quit" \in Range(Polled)

\* Mutant of devices_dispatch_cycle: the count is compared, not its remainder.
CycleOnce ==
  /\ cycles' = [c \in DOMAIN cycles |-> 1]
  /\ events' = SubSeq(events, Len(Polled) + 1, Len(events))

devices_dispatch_cycle ==
  /\ cycles' = [c \in DOMAIN cycles |-> (cycles[c] + 1) % PumpCycles]
  /\ events' = SubSeq(events, Len(Polled) + 1, Len(events))

=============================================================================
