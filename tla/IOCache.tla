------------------------------- MODULE IOCache -------------------------------
(***************************************************************************)
(* The I/O cache of kvm/io.go (IOCache.Lookup; machine/cache.go holds a    *)
(* second copy of the same code).  Every vCPU goroutine started by         *)
(* cmd/portal/main.go runs Loop (loop.go), and every PIO or MMIO exit      *)
(* calls Lookup on the one cache the model shares between them.  Lookup    *)
(* takes no lock: it reads and writes the Go maps Memory and Hits from     *)
(* several goroutines at once.                                             *)
(*                                                                         *)
(* The Go runtime marks a map being written (the hashWriting flag, set for *)
(* the duration of a mapassign).  A read or a write that finds the flag    *)
(* set aborts the process with "concurrent map read and map write" or      *)
(* "concurrent map writes"; the flag is not atomic, so a racing access may *)
(* also miss it.  Both outcomes are choices of the model.                  *)
(*                                                                         *)
(* Hits[addr] += 1 compiles to a mapassign, which returns a pointer to the *)
(* slot, followed by a load and a store through that pointer outside the   *)
(* map's writing window.                                                   *)
(***************************************************************************)
EXTENDS Naturals, FiniteSets

CONSTANTS
    VCPUs,      \* the vCPU goroutines
    Addrs,      \* the port or physical addresses the guest touches
    Regions,    \* set of [start, size, handler]: the handler tables
    NoHandler,  \* Lookup's nil
    MaxExits    \* bound on the exits each vCPU takes

Handlers == {r.handler : r \in Regions}

VARIABLES
    memory,     \* IOCache.Memory: addr -> handler, NoHandler when absent
    hits,       \* IOCache.Hits: addr -> uint64 (absent reads as 0)
    mwriter,    \* goroutines inside a mapassign on Memory
    hwriter,    \* goroutines inside a mapassign on Hits
    fatal,      \* the runtime aborted the process
    pc,         \* per vCPU: where it is in Lookup
    addr,       \* per vCPU: the address of the exit being handled
    handler,    \* per vCPU: the handler found so far
    tmp,        \* per vCPU: the value of Hits[addr] loaded for += 1
    site,       \* per vCPU: which Hits[addr] += 1 it executes, "hit" or "miss"
    exits,      \* per vCPU: exits taken, bounded by MaxExits
    counted     \* history: per addr, exits to it that a device owns

vars == <<memory, hits, mwriter, hwriter, fatal, pc, addr, handler, tmp,
          site, exits, counted>>

PCs == {"idle", "memo_read", "scan", "memo_begin", "memo_end",
        "hits_begin", "hits_end", "hits_store"}

(* Contains with an end test that excludes the region's last byte. *)
ContainsOpenEnd(r, start, size) ==
    r.start <= start /\ r.start + r.size > start + size

(* MemoryRegion.Contains (machine/memory.go). *)
Contains(r, start, size) == r.start <= start /\ r.start + r.size >= start + size

(* What a full scan of the handler tables may find for a. *)
Matching(a) == {r \in Regions : Contains(r, a, 1)}

(* Reference: the one handler whose declared range [start, start+size)   *)
(* holds a, NoHandler for unassigned space (spec, Lookup).                *)
Declared(a) == {r \in Regions : a \in r.start .. r.start + r.size - 1}
Owner(a) == IF Declared(a) = {} THEN NoHandler
            ELSE (CHOOSE r \in Declared(a) : TRUE).handler

(* NewIOCache: empty maps. *)
Init ==
    /\ memory = [a \in Addrs |-> NoHandler]
    /\ hits = [a \in Addrs |-> 0]
    /\ mwriter = {}
    /\ hwriter = {}
    /\ fatal = FALSE
    /\ pc = [v \in VCPUs |-> "idle"]
    /\ addr = [v \in VCPUs |-> CHOOSE a \in Addrs : TRUE]
    /\ handler = [v \in VCPUs |-> NoHandler]
    /\ tmp = [v \in VCPUs |-> 0]
    /\ site = [v \in VCPUs |-> "hit"]
    /\ exits = [v \in VCPUs |-> 0]
    /\ counted = [a \in Addrs |-> 0]

Goto(v, l) == pc' = [pc EXCEPT ![v] = l]

(* A map access that meets a writer: the runtime throws, or the racing   *)
(* access misses the flag and goes on.                                    *)
RaceOutcome(writers, Proceed) ==
    \/ writers = {} /\ Proceed
    \/ writers # {} /\ fatal' = TRUE
                    /\ UNCHANGED <<memory, hits, mwriter, hwriter, pc, addr,
                                   handler, tmp, site, exits, counted>>
    \/ writers # {} /\ Proceed

(* Loop: vcpu.Run returns an ExitPIO or ExitMMIO and the handler calls   *)
(* Lookup on the exit's address.                                          *)
Exit(v, a) ==
    /\ pc[v] = "idle"
    /\ exits[v] < MaxExits
    /\ addr' = [addr EXCEPT ![v] = a]
    /\ exits' = [exits EXCEPT ![v] = @ + 1]
    /\ counted' = IF Owner(a) # NoHandler
                  THEN [counted EXCEPT ![a] = @ + 1] ELSE counted
    /\ Goto(v, "memo_read")
    /\ UNCHANGED <<memory, hits, mwriter, hwriter, fatal, handler, tmp, site>>

(* handler, ok := self.Memory[addr]; a hit goes to Hits[addr] += 1 and   *)
(* returns.                                                               *)
MemoRead(v) ==
    /\ pc[v] = "memo_read"
    /\ RaceOutcome(mwriter,
         /\ handler' = [handler EXCEPT ![v] = memory[addr[v]]]
         /\ site' = [site EXCEPT ![v] = "hit"]
         /\ Goto(v, IF memory[addr[v]] # NoHandler THEN "hits_begin" ELSE "scan")
         /\ UNCHANGED <<memory, hits, mwriter, hwriter, fatal, addr, tmp,
                        exits, counted>>)

(* The scan over the handler tables; Go ranges over a map in no fixed     *)
(* order, so any containing region may be found first.  Nothing found:    *)
(* return nil, the exit is for unassigned space.                          *)
Scan(v) ==
    /\ pc[v] = "scan"
    /\ \/ \E r \in Matching(addr[v]) :
             /\ handler' = [handler EXCEPT ![v] = r.handler]
             /\ Goto(v, "memo_begin")
       \/ /\ Matching(addr[v]) = {}
          /\ handler' = [handler EXCEPT ![v] = NoHandler]
          /\ Goto(v, "idle")
    /\ site' = [site EXCEPT ![v] = "miss"]
    /\ UNCHANGED <<memory, hits, mwriter, hwriter, fatal, addr, tmp, exits, counted>>

(* self.Memory[addr] = handler: the mapassign sets hashWriting, ...      *)
MemoAssignBegin(v) ==
    /\ pc[v] = "memo_begin"
    /\ RaceOutcome(mwriter,
         /\ mwriter' = mwriter \cup {v}
         /\ Goto(v, "memo_end")
         /\ UNCHANGED <<memory, hits, hwriter, fatal, addr, handler, tmp, site,
                        exits, counted>>)

(* ... stores the handler and clears the flag. *)
MemoAssignEnd(v) ==
    /\ pc[v] = "memo_end"
    /\ memory' = [memory EXCEPT ![addr[v]] = handler[v]]
    /\ mwriter' = mwriter \ {v}
    /\ Goto(v, "hits_begin")
    /\ UNCHANGED <<hits, hwriter, fatal, addr, handler, tmp, site, exits, counted>>

(* self.Hits[addr] += 1: the mapassign on Hits, ... *)
HitsAssignBegin(v) ==
    /\ pc[v] = "hits_begin"
    /\ RaceOutcome(hwriter,
         /\ hwriter' = hwriter \cup {v}
         /\ Goto(v, "hits_end")
         /\ UNCHANGED <<memory, hits, mwriter, fatal, addr, handler, tmp, site,
                        exits, counted>>)

(* ... which returns the slot; the load of the old count follows. *)
HitsAssignEnd(v) ==
    /\ pc[v] = "hits_end"
    /\ hwriter' = hwriter \ {v}
    /\ tmp' = [tmp EXCEPT ![v] = hits[addr[v]]]
    /\ Goto(v, "hits_store")
    /\ UNCHANGED <<memory, hits, mwriter, fatal, addr, handler, site, exits, counted>>

(* A return placed after the hit's increment falls through into the scan. *)
HitsStoreFallThrough(v) ==
    /\ pc[v] = "hits_store"
    /\ hits' = [hits EXCEPT ![addr[v]] = tmp[v] + 1]
    /\ Goto(v, IF site[v] = "hit" THEN "scan" ELSE "idle")
    /\ UNCHANGED <<memory, mwriter, hwriter, fatal, addr, handler, tmp, site,
                   exits, counted>>

(* The store of the incremented count; Lookup returns the handler. *)
HitsStore(v) ==
    /\ pc[v] = "hits_store"
    /\ hits' = [hits EXCEPT ![addr[v]] = tmp[v] + 1]
    /\ Goto(v, "idle")
    /\ UNCHANGED <<memory, mwriter, hwriter, fatal, addr, handler, tmp, site,
                   exits, counted>>

(* Every vCPU has taken its exits, or the runtime aborted: nothing runs. *)
Halted ==
    /\ fatal \/ \A v \in VCPUs : pc[v] = "idle" /\ exits[v] = MaxExits
    /\ UNCHANGED vars

Next ==
    \/ /\ ~fatal
       /\ \E v \in VCPUs :
            \/ \E a \in Addrs : Exit(v, a)
            \/ MemoRead(v) \/ Scan(v) \/ MemoAssignBegin(v) \/ MemoAssignEnd(v)
            \/ HitsAssignBegin(v) \/ HitsAssignEnd(v) \/ HitsStore(v)
    \/ Halted

Spec == Init /\ [][Next]_vars

-----------------------------------------------------------------------------
HitBound == MaxExits * Cardinality(VCPUs)

TypeOK ==
    /\ memory \in [Addrs -> Handlers \cup {NoHandler}]
    /\ hits \in [Addrs -> 0..HitBound]
    /\ mwriter \subseteq VCPUs /\ hwriter \subseteq VCPUs
    /\ fatal \in BOOLEAN
    /\ pc \in [VCPUs -> PCs]
    /\ addr \in [VCPUs -> Addrs]
    /\ handler \in [VCPUs -> Handlers \cup {NoHandler}]
    /\ tmp \in [VCPUs -> 0..HitBound]
    /\ site \in [VCPUs -> {"hit", "miss"}]
    /\ exits \in [VCPUs -> 0..MaxExits]
    /\ counted \in [Addrs -> 0..HitBound]

(* Lookup is right whatever the interleaving of the goroutines that fill  *)
(* the memo: a handler a vCPU goes on to submit to, or returns, is the    *)
(* device whose declared range contains the address, and nil only for    *)
(* unassigned space; every memo entry names the owner of its address.     *)
LookupResolves ==
    /\ \A a \in Addrs : memory[a] \in {NoHandler, Owner(a)}
    /\ \A v \in VCPUs :
         pc[v] \in {"hits_begin", "hits_end", "hits_store"}
           \/ (pc[v] = "idle" /\ exits[v] > 0)
           => handler[v] = Owner(addr[v])

(* The hit count of an address that save() compares with its promotion    *)
(* threshold never exceeds the exits taken to that address, however the   *)
(* unlocked Hits[addr] += 1 of several vCPUs interleave (lost updates     *)
(* only lower it).                                                        *)
HitsNeverOvercount == \A a \in Addrs : hits[a] <= counted[a]

(* The runtime never aborts the process for a racing map access. *)
NoMapFault == ~fatal

=============================================================================
