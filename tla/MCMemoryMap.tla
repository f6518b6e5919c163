------------------------------ MODULE MCMemoryMap ------------------------------
(***************************************************************************)
(* A guest of 5 pages of RAM in a 6-bit address space of 4-byte pages: the *)
(* BIOS page at 0, user memory, the ACPI page, the TSS (special) and the   *)
(* reserved range up to the 32-bit boundary (36 here), as the BIOS, ACPI,  *)
(* APIC and memory devices reserve them, and the loader's first calls.     *)
(***************************************************************************)
EXTENDS MemoryMap

P == 4

Bios    == [start |-> 0,  size |-> P,     type |-> "reserved"]
Ram     == [start |-> 4,  size |-> 5 * P, type |-> "user"]
Acpi    == [start |-> 24, size |-> P,     type |-> "acpi"]
Tss     == [start |-> 28, size |-> P,     type |-> "special"]
TssEnd  == [start |-> 32, size |-> P,     type |-> "reserved"]
(* An APIC page configured inside RAM: partly overlapping, refused.        *)
ApicBad == [start |-> 20, size |-> 2 * P, type |-> "reserved"]
(* The ACPI page configured inside RAM: contained, and accepted.           *)
AcpiIn  == [start |-> 8,  size |-> P,     type |-> "acpi"]

Board == {Bios, Ram, Acpi, Tss, TssEnd}
BootConfigs   == {Board, Board \cup {ApicBad}}
NestedConfigs == {{Bios, Ram, AcpiIn}}

(* cmdline (Load, bottom up), initrd (Load, top down), the GDT and the     *)
(* first page table (Allocate of one page, bottom up): linux.go and        *)
(* linux_x86.go; the later page-table and boot-page calls are the same.    *)
LoaderCalls(initrd) ==
  << [sizes |-> {P}, top |-> FALSE], [sizes |-> initrd, top |-> TRUE],
     [sizes |-> {P}, top |-> FALSE], [sizes |-> {P}, top |-> FALSE] >>

FittingLoads == LoaderCalls({P, 2 * P})
OversizedLoads == LoaderCalls({5 * P})
=============================================================================
