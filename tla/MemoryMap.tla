------------------------------- MODULE MemoryMap -------------------------------
(***************************************************************************)
(* The guest physical memory map (src/machine/memory.go) as the VMM builds *)
(* and uses it at start-up:                                                *)
(*  - attach: each device's Attach calls MemoryMap.Reserve (BIOS, APIC,    *)
(*    ACPI, user memory), in the order the devices are configured; the     *)
(*    first error ends the VMM (CreateDevices fails, main calls Die);      *)
(*  - boot: the Linux loader (src/linux) calls Load/Allocate in a fixed    *)
(*    order for the command line, initrd, GDT, page tables and boot page;  *)
(*    an error again ends the VMM.                                         *)
(* Addresses are kvm.Pointer (uint64): they are scaled down to AddrBits    *)
(* bits and all address arithmetic is modulo 2^AddrBits, as it is modulo   *)
(* 2^64 in the code.  One Allocate probe (one iteration of its loop, with  *)
(* the Map call it makes) is one step.                                     *)
(***************************************************************************)
EXTENDS Naturals, Sequences, FiniteSets, TLC

CONSTANTS
  AddrBits,      \* width of a guest physical address
  PageSize,      \* kvm.PageSize, scaled
  Configs,       \* device configurations: each a set of Reserve calls
                 \* [start, size, type]
  Loads,         \* the loader's calls in order: [sizes, top]
  NoCall         \* model value: no Allocate in progress

Space == 2 ^ AddrBits
Addr == 0 .. Space - 1

(* MemoryType; user and ACPI regions carry a backing buffer (user).        *)
Types == {"reserved", "user", "acpi", "special"}
Backed == {"user", "acpi"}

ASSUME /\ AddrBits \in Nat \ {0}
       /\ PageSize \in 1 .. Space
       /\ \A r \in UNION Configs : r.start \in Addr /\ r.size \in Addr
                                  /\ r.type \in Types
       /\ \A i \in DOMAIN Loads : Loads[i].sizes \subseteq Addr
                                  /\ Loads[i].top \in BOOLEAN

VARIABLES
  regions,   \* the MemoryMap: a sequence of typed regions, each with the
             \* sub-allocation ledger `allocated` (offset -> size) and
             \* whether its kernel mapping succeeded
  pending,   \* Reserve calls not yet made
  next,      \* index in Loads of the loader's next call
  call,      \* the Allocate loop in progress, or NoCall
  returned,  \* history: the [addr, size] chunks Allocate returned, in order
  phase      \* "attach", "boot", "booted", "dead" (error) or "panicked"

vars == <<regions, pending, next, call, returned, phase>>

-----------------------------------------------------------------------------
(* kvm.Pointer.After and subtraction, in uint64 arithmetic.                *)
After(p, len) == (p + len) % Space
OffsetFrom(p, base) == (p + Space - base) % Space

End(r) == After(r.start, r.size)

(* MemoryRegion.Overlaps: does [start, start+size) overlap r?  It tests    *)
(* only whether either end of r falls inside the probe.                    *)
Overlaps(r, start, size) ==
  \/ r.start >= start /\ r.start < After(start, size)
  \/ End(r) > start /\ End(r) <= After(start, size)

(* MemoryRegion.Contains.                                                  *)
Contains(r, start, size) ==
  r.start <= start /\ End(r) >= After(start, size)

(* MemoryMap.Conflicts: some region Overlaps the probe.                    *)
Conflicts(start, size) ==
  \E i \in DOMAIN regions : Overlaps(regions[i], start, size)

(* MemoryMap.Add after its Conflicts check: append and sort.Sort by start. *)
Add(r) == SortSeq(Append(regions, r), LAMBDA a, b : a.start < b.start)

(* MemoryMap.Max: the end of the last region in start order.               *)
Max == IF regions = <<>> THEN 0 ELSE End(regions[Len(regions)])

(* Mutant: the region search of Map ignores the region's type.             *)
FirstContainingUntyped(t, addr, size) ==
  LET I == {i \in DOMAIN regions : Contains(regions[i], addr, size)}
  IN IF I = {} THEN 0 ELSE CHOOSE i \in I : \A j \in I : i <= j

(* Map's search: the first region in order that Contains the probe and has *)
(* the requested type, or 0 (MemoryNotFound).                              *)
FirstContaining(t, addr, size) ==
  LET I == {i \in DOMAIN regions : Contains(regions[i], addr, size)
                                   /\ regions[i].type = t}
  IN IF I = {} THEN 0 ELSE CHOOSE i \in I : \A j \in I : i <= j

(* Mutant: the ledger check without its first clause (a probe starting     *)
(* inside an earlier claim).                                               *)
ClaimedFromBelow(r, off, size) ==
  \E o \in DOMAIN r.allocated :
     After(off, size) >= o /\ off < o

(* Map's ledger check: the probe starts inside a claim, or starts before   *)
(* one and reaches it (>=: a probe ending exactly at a claim is refused).  *)
Claimed(r, off, size) ==
  \E o \in DOMAIN r.allocated :
     \/ off >= o /\ off < After(o, r.allocated[o])
     \/ After(off, size) >= o /\ off < o

(* Mutant: the claim recorded at the guest address, not at the offset.     *)
MapClaimAbsolute(addr, size) ==
  LET i == FirstContaining("user", addr, size)
  IN IF i = 0 THEN [status |-> "notfound", regions |-> regions]
     ELSE LET r   == regions[i]
              off == OffsetFrom(addr, r.start)
          IN IF Claimed(r, off, size)
               THEN [status |-> "conflict", regions |-> regions]
               ELSE [status  |-> IF r.type \notin Backed THEN "nil"
                                 ELSE IF off <= After(off, size)
                                         /\ After(off, size) <= r.size
                                      THEN "ok" ELSE "panic",
                     regions |-> [regions EXCEPT ![i].allocated =
                                    (addr :> size) @@ r.allocated]]

(* Map(MemoryTypeUser, addr, size, true), Allocate being its only caller:  *)
(* find the region, refuse a claimed probe, record the claim at its offset *)
(* (a map assignment: it replaces an entry at the same offset), and return *)
(* nil for a region without a buffer or region.user[off : off+size], which *)
(* panics when the bounds exceed the buffer (its length is the size).      *)
MapClaim(addr, size) ==
  LET i == FirstContaining("user", addr, size)
  IN IF i = 0 THEN [status |-> "notfound", regions |-> regions]
     ELSE LET r   == regions[i]
              off == OffsetFrom(addr, r.start)
          IN IF Claimed(r, off, size)
               THEN [status |-> "conflict", regions |-> regions]
               ELSE [status  |-> IF r.type \notin Backed THEN "nil"
                                 ELSE IF off <= After(off, size)
                                         /\ After(off, size) <= r.size
                                      THEN "ok" ELSE "panic",
                     regions |-> [regions EXCEPT ![i].allocated =
                                    (off :> size) @@ r.allocated]]

(* Mutant: the probe cursor moved with signed arithmetic.                  *)
StepUnwrapped(cur, top) ==
  IF top THEN cur - PageSize ELSE cur + PageSize

(* Allocate's loop step: end -= PageSize from the top, start += PageSize   *)
(* from the bottom, both uint64.                                           *)
Step(cur, top) ==
  IF top THEN OffsetFrom(cur, PageSize) ELSE After(cur, PageSize)

(* Allocate's loop condition: end >= start from the top, start <= end from *)
(* the bottom.                                                             *)
InLoop(c) == IF c.top THEN c.cur >= c.lo ELSE c.cur <= c.hi

-----------------------------------------------------------------------------
(* MemoryMap.Reserve for one device: alignment check, Add (Conflicts, then *)
(* insert in sorted order), then the kind's kernel mapping.  Add has       *)
(* already inserted the region when the mapping runs, and a failed mapping *)
(* leaves it there.  Reserved memory needs no mapping; the user/ACPI       *)
(* ioctl and the special (identity map, TSS) calls can fail.  Any error    *)
(* ends the VMM.                                                           *)
Reserve(rv) ==
  /\ phase = "attach"
  /\ rv \in pending
  /\ pending' = pending \ {rv}
  /\ IF rv.start % PageSize # 0 \/ rv.size % PageSize # 0
          \/ Conflicts(rv.start, rv.size)
       THEN /\ phase' = "dead"
            /\ UNCHANGED regions
       ELSE \E mapped \in IF rv.type = "reserved" THEN {TRUE} ELSE BOOLEAN :
              /\ regions' = Add([start |-> rv.start, size |-> rv.size,
                                 type |-> rv.type, mapped |-> mapped,
                                 allocated |-> <<>>])
              /\ phase' = IF ~mapped THEN "dead"
                          ELSE IF pending' = {} THEN "boot" ELSE "attach"
  /\ UNCHANGED <<next, call, returned>>

(* The loader calls MemoryMap.Load(0, Max(), data, top) or                 *)
(* Allocate(MemoryTypeUser, 0, Max(), PageSize, false): the loop begins.   *)
StartLoad ==
  /\ phase = "boot"
  /\ call = NoCall
  /\ next <= Len(Loads)
  /\ \E size \in Loads[next].sizes :
       call' = [size |-> size, top |-> Loads[next].top, lo |-> 0, hi |-> Max,
                cur |-> IF Loads[next].top THEN Max ELSE 0]
  /\ next' = next + 1
  /\ UNCHANGED <<regions, pending, returned, phase>>

(* One iteration of Allocate's loop: leave it with MemoryNotFound (the     *)
(* loader fails), or Map the probe; a claimed probe returns the address    *)
(* (Load copies the data in), anything else moves the cursor.              *)
Probe ==
  /\ phase = "boot"
  /\ call # NoCall
  /\ IF ~InLoop(call)
       THEN /\ call' = NoCall
            /\ phase' = "dead"
            /\ UNCHANGED <<regions, returned>>
       ELSE LET m == MapClaim(call.cur, call.size)
            IN /\ regions' = m.regions
               /\ CASE m.status = "ok" ->
                         /\ returned' = Append(returned,
                                          [addr |-> call.cur, size |-> call.size])
                         /\ call' = NoCall
                         /\ phase' = IF next > Len(Loads) THEN "booted" ELSE "boot"
                    [] m.status = "panic" ->
                         /\ phase' = "panicked"
                         /\ UNCHANGED <<call, returned>>
                    [] OTHER ->
                         /\ call' = [call EXCEPT !.cur = Step(call.cur, call.top)]
                         /\ UNCHANGED <<returned, phase>>
  /\ UNCHANGED <<pending, next>>

-----------------------------------------------------------------------------
Init ==
  /\ regions = <<>>
  /\ pending \in Configs
  /\ next = 1
  /\ call = NoCall
  /\ returned = <<>>
  /\ phase = IF pending = {} THEN "boot" ELSE "attach"

Next ==
  \/ \E rv \in UNION Configs : Reserve(rv)
  \/ StartLoad
  \/ Probe

(* Start-up is one goroutine running to completion: it is never preempted  *)
(* forever.                                                                *)
Spec == Init /\ [][Next]_vars /\ WF_vars(Next)

-----------------------------------------------------------------------------
Chunk == [addr : Addr, size : Addr]

(* Types, with the ledger keyed by offsets inside its region.              *)
TypeOK ==
  /\ \A i \in DOMAIN regions :
       /\ regions[i].start \in Addr /\ regions[i].size \in Addr
       /\ regions[i].type \in Types /\ regions[i].mapped \in BOOLEAN
       /\ \A o \in DOMAIN regions[i].allocated :
             o < regions[i].size /\ regions[i].allocated[o] \in Addr
  /\ pending \subseteq UNION Configs
  /\ next \in 1 .. Len(Loads) + 1
  /\ call = NoCall \/ (call.cur \in Addr /\ call.hi \in Addr)
  /\ returned \in Seq(Chunk)
  /\ phase \in {"attach", "boot", "booted", "dead", "panicked"}

(* Start-up never crashes: Allocate either returns a free chunk or fails   *)
(* with MemoryNotFound, which the loader reports (the spec's Allocate      *)
(* contract).  The top-down loop of Allocate is the code at issue.         *)
NoPanic == phase # "panicked"

(* The chunks Allocate hands the loader (command line, initrd, GDT, page   *)
(* tables, boot page) never overlap in guest physical memory, so loading   *)
(* one never overwrites another: the ledger check of Map at work across    *)
(* calls.                                                                  *)
ReturnedChunksDisjoint ==
  \A i, j \in DOMAIN returned :
     i # j => \/ returned[i].addr + returned[i].size <= returned[j].addr
              \/ returned[j].addr + returned[j].size <= returned[i].addr

(* Every chunk Allocate(MemoryTypeUser, ...) returns lies inside a user    *)
(* region of the map, i.e. in guest RAM backed by the VMM's buffer.        *)
ReturnedInUserMemory ==
  \A i \in DOMAIN returned :
     \E k \in DOMAIN regions :
        /\ regions[k].type = "user"
        /\ regions[k].start <= returned[i].addr
        /\ returned[i].addr + returned[i].size <= regions[k].start + regions[k].size

(* No two regions of the MemoryMap overlap (the spec's global invariant of *)
(* the map, which Reserve's Conflicts check is meant to keep).             *)
NoRegionOverlap ==
  \A i, j \in DOMAIN regions :
     i < j => \/ regions[i].start + regions[i].size <= regions[j].start
              \/ regions[j].start + regions[j].size <= regions[i].start

=============================================================================
