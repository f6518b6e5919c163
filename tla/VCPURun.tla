-------------------------------- MODULE VCPURun --------------------------------
(***************************************************************************)
(* One vCPU's execution loop and its pause/resume rendezvous:              *)
(* VCPU.Run, VCPU.Pause and VCPU.Unpause (src/kvm/run.go) and the exit     *)
(* handling of Loop (src/loop.go), with the pausers the code has:          *)
(*  - AutoCallers pause with Pause(false) and undo it with Unpause(false)  *)
(*    (NewVCPUInfo in src/kvm/vcpu.go, RPC.Reload via VirtualMachine);     *)
(*  - ManualCallers are RPC.VCPU requests (src/rpc/rpc_vcpu.go): any       *)
(*    sequence of Pause(true) and Unpause(true).                           *)
(* Every critical section of RunInfo.lock is one atomic step here: none    *)
(* blocks while holding the lock except the condition waits, which         *)
(* release it (sync.Cond.Wait).  pause_event waiters are pauseWaiters;     *)
(* resume_event has one possible waiter, the vCPU itself.                  *)
(***************************************************************************)
EXTENDS Naturals, FiniteSets, Sequences

CONSTANTS
  AutoCallers,    \* goroutines that Pause(false) then Unpause(false)
  ManualCallers,  \* goroutines serving RPC.VCPU
  Exits,          \* the exit reasons the guest produces (see ExitKinds)
  NoExit,         \* model value: no exit being handled
  Banks,          \* the register files VCPU caches: "regs" and "sregs"
  Vals,           \* abstract contents of one register file
  Tracing         \* Loop traces every exit (portal -trace)

(* What GetExitError (src/kvm/exits.go) turns KVM's exit reason into, and  *)
(* what Loop does with it: I/O is handed to the device model, a debug exit *)
(* is swallowed, shutdown ends the loop, the rest end it with an error.    *)
ExitKinds == {"mmio", "pio", "debug", "shutdown", "internal_error",
              "exception", "unknown"}
Continues == {"mmio", "pio", "debug"}

ASSUME Exits \subseteq ExitKinds /\ Exits # {}

Callers == AutoCallers \cup ManualCallers

VARIABLES
  is_paused,     \* RunInfo.is_paused: paused manually
  paused,        \* RunInfo.paused: automatic pause count
  is_running,    \* RunInfo.is_running
  pauseWaiters,  \* callers blocked in pause_event.Wait()
  sigPending,    \* SigVCPUInt sent and not yet taken by kvm_run
  vpc,           \* where the vCPU goroutine is
  exit,          \* the exit Loop is handling, or NoExit
  pc,            \* where each caller is
  kregs,         \* per bank: the registers KVM holds for the vCPU
  uregs,         \* per bank: VCPU.regs / VCPU.sregs, the user-space copy
  cached,        \* per bank: regs_cached / sregs_cached
  dirty,         \* per bank: regs_dirty / sregs_dirty
  superseded,    \* history: the guest ran or a state was loaded since the loader
  lcalls,        \* the register calls SetupLinux makes on this vCPU
  lpc            \* the next of them

bootVars == <<superseded, lcalls, lpc>>
regVars == <<kregs, uregs, cached, dirty, bootVars>>
vars == <<is_paused, paused, is_running, pauseWaiters, sigPending, vpc, exit, pc,
          regVars>>

(* The contents of a register bank: a base value (what a reset vCPU, a     *)
(* loaded state or the guest left there) and the fields the loader has     *)
(* written over it since.                                                  *)
LoaderFields == {"GDT", "IDT", "CR0", "CR3", "CR4", "EFER", "CS", "DS", "ES",
                 "FS", "GS", "SS", "TR", "RSI", "RBP", "RDI", "RBX", "RIP", "RFLAGS"}
Contents == [base : Vals, w : SUBSET LoaderFields]
Fresh(v) == [base |-> v, w |-> {}]
FreshContents == {Fresh(v) : v \in Vals}

-----------------------------------------------------------------------------
(* The loop condition of Run: for is_paused || paused > 0.                 *)
MustWait(ip, p) == ip \/ p > 0

(* RefreshRegisters(false) / RefreshSpecialRegisters(false) for the banks  *)
(* bs: a bank not cached is read with KVM_GET_(S)REGS and marked cached;   *)
(* a cached one is returned as it is.                                      *)
Refresh(bs) ==
  /\ uregs' = [b \in Banks |-> IF b \in bs /\ ~cached[b] THEN kregs[b] ELSE uregs[b]]
  /\ cached' = [b \in Banks |-> cached[b] \/ b \in bs]

(* Mutant: a flush that leaves the cache marked valid.                     *)
FlushKeepsCache ==
  /\ kregs' = [b \in Banks |-> IF dirty[b] THEN uregs[b] ELSE kregs[b]]
  /\ dirty' = [b \in Banks |-> FALSE]
  /\ UNCHANGED <<uregs, cached, bootVars>>

(* flushAllRegs: FlushSpecialRegisters then FlushRegisters; a dirty bank   *)
(* is written with KVM_SET_(S)REGS, and every bank is marked not cached.   *)
FlushAll ==
  /\ kregs' = [b \in Banks |-> IF dirty[b] THEN uregs[b] ELSE kregs[b]]
  /\ dirty' = [b \in Banks |-> FALSE]
  /\ cached' = [b \in Banks |-> FALSE]
  /\ UNCHANGED <<uregs, bootVars>>

(* Run flushes at the top of its loop, before it takes the lock; a vCPU    *)
(* woken from resume_event.Wait() re-checks and runs without flushing.     *)
FlushAllRegsAtTop ==
  IF vpc = "top" THEN FlushAll ELSE UNCHANGED regVars

(* Tracer.Trace, called by Loop after every return of Run: when tracing is *)
(* on, each GetRegister of the instruction, stack, return-value and        *)
(* argument registers refreshes the general bank, which is read from KVM   *)
(* only if it is not cached.                                               *)
TraceExit ==
  IF Tracing THEN Refresh({"regs"}) ELSE UNCHANGED <<uregs, cached>>

(* In KVM_RUN the guest executes and may change any of its registers.      *)
GuestRuns == kregs' \in [Banks -> FreshContents] /\ superseded' = TRUE

(* Mutant: the resume wait as an "if" rather than a "for": woken, the      *)
(* vCPU runs without re-checking for a pause that arrived meanwhile.       *)
CheckPauseOnce ==
  /\ vpc \in {"top", "resume_relock"}
  /\ IF vpc = "top" /\ MustWait(is_paused, paused)
       THEN /\ is_running' = FALSE
            /\ pc' = [c \in Callers |->
                        IF c \in pauseWaiters THEN "pause_relock" ELSE pc[c]]
            /\ pauseWaiters' = {}
            /\ vpc' = "resume_wait"
       ELSE /\ is_running' = TRUE
            /\ vpc' = "kernel_enter"
            /\ UNCHANGED <<pauseWaiters, pc>>
  /\ FlushAllRegsAtTop
  /\ UNCHANGED <<is_paused, paused, sigPending, exit>>

(* Top of Run's loop (after flushAllRegs) or the vCPU woken from           *)
(* resume_event.Wait() and holding the lock again: while the pause         *)
(* condition holds, mark not running, broadcast pause_event and wait on    *)
(* resume_event; otherwise mark running and go on to the run ioctl.        *)
CheckPause ==
  /\ vpc \in {"top", "resume_relock"}
  /\ IF MustWait(is_paused, paused)
       THEN /\ is_running' = FALSE
            /\ pc' = [c \in Callers |->
                        IF c \in pauseWaiters THEN "pause_relock" ELSE pc[c]]
            /\ pauseWaiters' = {}
            /\ vpc' = "resume_wait"
       ELSE /\ is_running' = TRUE
            /\ vpc' = "kernel_enter"
            /\ UNCHANGED <<pauseWaiters, pc>>
  /\ FlushAllRegsAtTop
  /\ UNCHANGED <<is_paused, paused, sigPending, exit>>

(* C.kvm_run issues KVM_RUN.                                               *)
EnterKernel ==
  /\ vpc = "kernel_enter"
  /\ vpc' = "kernel"
  /\ UNCHANGED <<is_paused, paused, is_running, pauseWaiters, sigPending, exit, pc, regVars>>

(* KVM_RUN returns EINTR because SigVCPUInt is pending: Run continues its  *)
(* loop, flushing registers and re-checking the pause condition.           *)
RunInterrupted ==
  /\ vpc = "kernel"
  /\ sigPending
  /\ sigPending' = FALSE
  /\ vpc' = "top"
  /\ GuestRuns
  /\ UNCHANGED <<is_paused, paused, is_running, pauseWaiters, exit, pc, uregs, cached, dirty>>
  /\ UNCHANGED <<lcalls, lpc>>

(* KVM_RUN returns with an exit reason; Run returns GetExitError() to      *)
(* Loop.  A signal pending at that moment is delivered to its handler on   *)
(* the way out and has no further effect.                                  *)
RunExit(e) ==
  /\ vpc = "kernel"
  /\ sigPending' = FALSE
  /\ exit' = e
  /\ vpc' = "handle"
  /\ GuestRuns
  /\ UNCHANGED <<is_paused, paused, is_running, pauseWaiters, pc, uregs, cached, dirty>>
  /\ UNCHANGED <<lcalls, lpc>>

(* Loop handles the exit: HandlePio/HandleMmio complete the access, a      *)
(* debug exit is dropped, and Loop calls Run again; any other exit makes   *)
(* Loop return, and the goroutine is gone.                                 *)
HandleExit ==
  /\ vpc = "handle"
  /\ vpc' = IF exit \in Continues THEN "top" ELSE "done"
  /\ exit' = NoExit
  /\ TraceExit
  /\ UNCHANGED <<is_paused, paused, is_running, pauseWaiters, sigPending, pc, kregs, dirty>>
  /\ UNCHANGED bootVars

(* kvm_run_interrupt: SigVCPUInt sent to the vCPU's thread.  It makes a    *)
(* KVM_RUN in progress, or about to start, return EINTR; caught anywhere   *)
(* else in user space it only runs the handler.                            *)
Interrupt ==
  sigPending' = (vpc \in {"kernel_enter", "kernel"})

(* Mutant: only a manual Pause interrupts the running vCPU.                *)
PauseNoAutoInterrupt(c, manual) ==
  /\ pc[c] = "idle"
  /\ IF manual /\ is_paused
       THEN UNCHANGED <<is_paused, paused, is_running, pauseWaiters, sigPending, pc>>
       ELSE LET ip == is_paused \/ manual
                p  == IF manual THEN paused ELSE paused + 1
            IN /\ is_paused' = ip
               /\ paused' = p
               /\ IF is_running
                    THEN /\ IF manual THEN Interrupt ELSE UNCHANGED sigPending
                         /\ pauseWaiters' = pauseWaiters \cup {c}
                         /\ pc' = [pc EXCEPT ![c] = "pause_wait"]
                    ELSE /\ pc' = [pc EXCEPT ![c] = IF manual THEN "idle" ELSE "paused"]
                         /\ UNCHANGED <<pauseWaiters, sigPending>>
               /\ UNCHANGED is_running
  /\ UNCHANGED <<vpc, exit, regVars>>

(* Mutant: Pause interrupts a running vCPU but returns without waiting on  *)
(* pause_event.                                                            *)
PauseWithoutWait(c, manual) ==
  /\ pc[c] = "idle"
  /\ IF manual /\ is_paused
       THEN UNCHANGED <<is_paused, paused, is_running, pauseWaiters, sigPending, pc>>
       ELSE LET ip == is_paused \/ manual
                p  == IF manual THEN paused ELSE paused + 1
            IN /\ is_paused' = ip
               /\ paused' = p
               /\ IF is_running /\ (manual \/ p = 1) THEN Interrupt
                                                     ELSE UNCHANGED sigPending
               /\ pc' = [pc EXCEPT ![c] = IF manual THEN "idle" ELSE "paused"]
               /\ UNCHANGED <<is_running, pauseWaiters>>
  /\ UNCHANGED <<vpc, exit, regVars>>

(* Pause(manual) with RunInfo.lock held: AlreadyPaused for a second manual *)
(* pause; else record the pause and, if the vCPU is running, interrupt it  *)
(* (only the first caller) and wait on pause_event.                        *)
Pause(c, manual) ==
  /\ pc[c] = "idle"
  /\ IF manual /\ is_paused
       THEN UNCHANGED <<is_paused, paused, is_running, pauseWaiters, sigPending, pc>>
       ELSE LET ip == is_paused \/ manual
                p  == IF manual THEN paused ELSE paused + 1
            IN /\ is_paused' = ip
               /\ paused' = p
               /\ IF is_running
                    THEN /\ IF manual \/ p = 1 THEN Interrupt
                                               ELSE UNCHANGED sigPending
                         /\ pauseWaiters' = pauseWaiters \cup {c}
                         /\ pc' = [pc EXCEPT ![c] = "pause_wait"]
                    ELSE /\ pc' = [pc EXCEPT ![c] = IF manual THEN "idle" ELSE "paused"]
                         /\ UNCHANGED <<pauseWaiters, sigPending>>
               /\ UNCHANGED is_running
  /\ UNCHANGED <<vpc, exit, regVars>>

(* A caller woken from pause_event.Wait() takes the lock back and Pause    *)
(* returns (the deferred Unlock).                                          *)
PauseReturn(c) ==
  /\ pc[c] = "pause_relock"
  /\ pc' = [pc EXCEPT ![c] = IF c \in AutoCallers THEN "paused" ELSE "idle"]
  /\ UNCHANGED <<is_paused, paused, is_running, pauseWaiters, sigPending, vpc, exit, regVars>>

(* GetRegisters (registers.go), called by NewVCPUInfo while its own        *)
(* Pause(false) is held: every getRegister / getControlRegister /          *)
(* getDescriptor / getSegment refreshes its bank, and the cached copy is   *)
(* what the caller gets.  The nested Pause(false) and deferred             *)
(* Unpause(false) of GetRegisters find the vCPU parked and return at once; *)
(* their net effect on the count is nil.                                   *)
GetRegisters(c) ==
  /\ pc[c] = "paused"
  /\ Refresh(Banks)
  /\ UNCHANGED <<is_paused, paused, is_running, pauseWaiters, sigPending, vpc,
                 exit, pc, kregs, dirty, bootVars>>

(* SetRegisters (registers.go), called by VCPU.Load from RPC.Reload while  *)
(* VM.Pause(false) is held: every set* helper refreshes its bank dirty and *)
(* writes the cached copy, and flushAllRegs writes both banks back.        *)
SetRegisters(c, regs) ==
  /\ pc[c] = "paused"
  /\ kregs' = regs
  /\ uregs' = regs
  /\ cached' = [b \in Banks |-> FALSE]
  /\ dirty' = [b \in Banks |-> FALSE]
  /\ superseded' = TRUE
  /\ UNCHANGED <<is_paused, paused, is_running, pauseWaiters, sigPending, vpc,
                 exit, pc, lcalls, lpc>>

(* Mutant: "are we still paused?" tested on the values before the undo.    *)
UnpauseStaleCheck(c, manual) ==
  /\ pc[c] = IF manual THEN "idle" ELSE "paused"
  /\ IF (manual /\ ~is_paused) \/ (~manual /\ paused = 0)
       THEN UNCHANGED <<is_paused, paused, vpc>>
       ELSE LET ip == is_paused /\ ~manual
                p  == IF manual THEN paused ELSE paused - 1
            IN /\ is_paused' = ip
               /\ paused' = p
               /\ vpc' = IF ~MustWait(is_paused, paused) /\ vpc = "resume_wait"
                           THEN "resume_relock" ELSE vpc
  /\ pc' = [pc EXCEPT ![c] = "idle"]
  /\ UNCHANGED <<is_running, pauseWaiters, sigPending, exit, regVars>>

(* Mutant: Unpause(false) without the NotPaused check on the count.        *)
UnpauseUnchecked(c, manual) ==
  /\ pc[c] \in IF manual THEN {"idle"} ELSE {"idle", "paused"}
  /\ IF manual /\ ~is_paused
       THEN UNCHANGED <<is_paused, paused, vpc>>
       ELSE LET ip == is_paused /\ ~manual
                p  == IF manual THEN paused ELSE paused - 1
            IN /\ is_paused' = ip
               /\ paused' = p
               /\ vpc' = IF ~MustWait(ip, p) /\ vpc = "resume_wait"
                           THEN "resume_relock" ELSE vpc
  /\ pc' = [pc EXCEPT ![c] = "idle"]
  /\ UNCHANGED <<is_running, pauseWaiters, sigPending, exit, regVars>>

(* Unpause(manual) with the lock held: NotPaused if there is nothing to    *)
(* undo; else undo it and, if no pause is left, broadcast resume_event.    *)
Unpause(c, manual) ==
  /\ pc[c] = IF manual THEN "idle" ELSE "paused"
  /\ IF (manual /\ ~is_paused) \/ (~manual /\ paused = 0)
       THEN UNCHANGED <<is_paused, paused, vpc>>
       ELSE LET ip == is_paused /\ ~manual
                p  == IF manual THEN paused ELSE paused - 1
            IN /\ is_paused' = ip
               /\ paused' = p
               /\ vpc' = IF ~MustWait(ip, p) /\ vpc = "resume_wait"
                           THEN "resume_relock" ELSE vpc
  /\ pc' = [pc EXCEPT ![c] = "idle"]
  /\ UNCHANGED <<is_running, pauseWaiters, sigPending, exit, regVars>>

-----------------------------------------------------------------------------
(* main's boot of a fresh VM (main.go:224-229): linux.Load calls          *)
(* SetupLinux (linux_x86.go) on vCPU 0 before any Loop runs and before the *)
(* RPC server starts.  Its register calls, in order, with their bank, the  *)
(* field they write and the sync flag; a "get" reads a register.           *)
SetCall(op, b, f, sync) == [op |-> op, bank |-> b, field |-> f, sync |-> sync]
GetCall(op, b) == [op |-> op, bank |-> b, field |-> "", sync |-> FALSE]

(* The GDT and a null IDT; protected mode and PAE by read-modify-write.    *)
BootDescriptorCalls ==
  <<SetCall("SetDescriptor", "sregs", "GDT", TRUE),
    SetCall("SetDescriptor", "sregs", "IDT", TRUE),
    GetCall("GetControlRegister", "sregs"), SetCall("SetControlRegister", "sregs", "CR0", TRUE),
    GetCall("GetControlRegister", "sregs"), SetCall("SetControlRegister", "sregs", "CR4", TRUE)>>

(* A 64-bit kernel: the page table, long mode, paging.                     *)
LongModeCalls ==
  <<SetCall("SetControlRegister", "sregs", "CR3", TRUE),
    GetCall("GetControlRegister", "sregs"), SetCall("SetControlRegister", "sregs", "EFER", TRUE),
    GetCall("GetControlRegister", "sregs"), SetCall("SetControlRegister", "sregs", "CR0", TRUE)>>

BootSegmentCalls ==
  [i \in 1..7 |-> SetCall("SetSegment", "sregs", <<"CS", "DS", "ES", "FS", "GS", "SS", "TR">>[i], TRUE)]

(* The boot protocol's registers, then RFLAGS by read-modify-write.        *)
BootRegisterCalls ==
  [i \in 1..5 |-> SetCall("SetRegister", "regs", <<"RSI", "RBP", "RDI", "RBX", "RIP">>[i], FALSE)]
    \o <<GetCall("GetRegister", "regs"), SetCall("SetRegister", "regs", "RFLAGS", FALSE)>>

(* elf_entry_point tells a 64-bit kernel from a 32-bit one.                *)
LoaderCalls(is64) ==
  BootDescriptorCalls \o (IF is64 THEN LongModeCalls ELSE <<>>) \o BootSegmentCalls
    \o BootRegisterCalls

(* refreshRegs(dirty) / refreshSRegs(dirty) of one bank: the bank the      *)
(* accessor then works on, read from KVM unless it is cached.              *)
RefreshedBank(b) == IF cached[b] THEN uregs[b] ELSE kregs[b]

(* The assignments of SetSegment's (SetRegister's, SetControlRegister's,   *)
(* SetDescriptor's) switch: one field of the cached bank.                  *)
StoreField(b, f) == [RefreshedBank(b) EXCEPT !.w = @ \cup {f}]

(* GetRegister / GetControlRegister: refresh the bank, not dirty, and read *)
(* from the cache.                                                         *)
GetBank(b) ==
  /\ uregs' = [uregs EXCEPT ![b] = RefreshedBank(b)]
  /\ cached' = [cached EXCEPT ![b] = TRUE]
  /\ UNCHANGED <<kregs, dirty>>

(* Mutant: SetRegister refreshes its bank with refreshRegs(false), so the  *)
(* store is never marked dirty.                                            *)
SetRegisterClean(f) ==
  /\ uregs' = [uregs EXCEPT !["regs"] = StoreField("regs", f)]
  /\ cached' = [cached EXCEPT !["regs"] = TRUE]
  /\ UNCHANGED <<kregs, dirty>>

(* SetRegister: refresh the general bank dirty and store the field; it has *)
(* no sync flag, so the bank stays dirty until someone flushes it.         *)
SetRegister(f) ==
  /\ uregs' = [uregs EXCEPT !["regs"] = StoreField("regs", f)]
  /\ cached' = [cached EXCEPT !["regs"] = TRUE]
  /\ dirty' = [dirty EXCEPT !["regs"] = TRUE]
  /\ UNCHANGED kregs

(* SetControlRegister / SetSegment / SetDescriptor with sync: store the    *)
(* field, then flushSRegs: KVM_SET_SREGS of the dirty bank, which is no    *)
(* longer dirty nor cached.  Without sync the bank stays cached and dirty. *)
SetSynced(b, f, sync) ==
  IF sync
    THEN /\ kregs' = [kregs EXCEPT ![b] = StoreField(b, f)]
         /\ uregs' = [uregs EXCEPT ![b] = StoreField(b, f)]
         /\ cached' = [cached EXCEPT ![b] = FALSE]
         /\ dirty' = [dirty EXCEPT ![b] = FALSE]
    ELSE /\ uregs' = [uregs EXCEPT ![b] = StoreField(b, f)]
         /\ cached' = [cached EXCEPT ![b] = TRUE]
         /\ dirty' = [dirty EXCEPT ![b] = TRUE]
         /\ UNCHANGED kregs

(* The accessors the loader calls, each on its own bank.                  *)
GetRegister == GetBank("regs")
GetControlRegister == GetBank("sregs")
SetControlRegister(f, sync) == SetSynced("sregs", f, sync)
SetSegment(f, sync) == SetSynced("sregs", f, sync)
SetDescriptor(f, sync) == SetSynced("sregs", f, sync)

(* The loader's next register call.  None of them fails on a vCPU fd KVM  *)
(* has just created, with values the loader computed.                     *)
LoaderCall ==
  /\ vpc = "load"
  /\ lpc <= Len(lcalls)
  /\ LET c == lcalls[lpc] IN
       CASE c.op = "SetRegister"        -> SetRegister(c.field)
         [] c.op = "GetRegister"        -> GetRegister
         [] c.op = "GetControlRegister" -> GetControlRegister
         [] c.op = "SetControlRegister" -> SetControlRegister(c.field, c.sync)
         [] c.op = "SetSegment"         -> SetSegment(c.field, c.sync)
         [] c.op = "SetDescriptor"      -> SetDescriptor(c.field, c.sync)
  /\ lpc' = lpc + 1
  /\ UNCHANGED <<is_paused, paused, is_running, pauseWaiters, sigPending, vpc,
                 exit, pc, superseded, lcalls>>

(* main goes on to start Serve and then the vCPU's Loop, which calls Run.  *)
LoopStarts ==
  /\ vpc = "load"
  /\ lpc > Len(lcalls)
  /\ vpc' = "top"
  /\ UNCHANGED <<is_paused, paused, is_running, pauseWaiters, sigPending, exit, pc,
                 regVars>>

(* The register cache after VCPU.Load: SetRegisters ends with flushAllRegs *)
(* (nothing cached, nothing dirty), whether CreateVCPUs loaded a saved     *)
(* state (a restart, -statefd) or the empty state of a fresh boot; then    *)
(* the loader's calls, if main loads a kernel (-vmlinux), or none.         *)
RegsInit ==
  /\ kregs \in [Banks -> FreshContents]
  /\ uregs = kregs
  /\ cached = [b \in Banks |-> FALSE]
  /\ dirty = [b \in Banks |-> FALSE]
  /\ superseded = FALSE
  /\ lcalls \in {LoaderCalls(TRUE), LoaderCalls(FALSE), <<>>}
  /\ lpc = 1

(* InitRunInfo sets Running: true; main has not yet started the Loop.      *)
Init ==
  /\ is_paused = FALSE
  /\ paused = 0
  /\ is_running = TRUE
  /\ pauseWaiters = {}
  /\ sigPending = FALSE
  /\ vpc = "load"
  /\ exit = NoExit
  /\ pc = [c \in Callers |-> "idle"]
  /\ RegsInit

VCPUStep ==
  \/ CheckPause
  \/ EnterKernel
  \/ RunInterrupted
  \/ \E e \in Exits : RunExit(e)
  \/ HandleExit

(* The callers exist once main has started the Loop (and Serve, and its   *)
(* signal loop): none runs during the loader's calls.                      *)
CallerStep ==
  /\ vpc # "load"
  /\ \/ \E c \in AutoCallers : Pause(c, FALSE) \/ Unpause(c, FALSE)
     \/ \E c \in ManualCallers : Pause(c, TRUE) \/ Unpause(c, TRUE)
     \/ \E c \in Callers : PauseReturn(c)
     \/ \E c \in AutoCallers : GetRegisters(c) \/ \E r \in [Banks -> FreshContents] : SetRegisters(c, r)

Next ==
  \/ LoaderCall
  \/ LoopStarts
  \/ VCPUStep
  \/ CallerStep

(* The vCPU goroutine is never starved (it has its own OS thread) and a    *)
(* pending signal makes KVM_RUN return; the guest itself need never exit.  *)
(* A woken caller gets the lock back, and an automatic pauser always       *)
(* undoes its pause (the deferred Unpause(false)).  RPC requests are       *)
(* external and get no fairness.                                           *)
Fairness ==
  /\ WF_vars(LoaderCall) /\ WF_vars(LoopStarts)
  /\ WF_vars(CheckPause)
  /\ WF_vars(EnterKernel)
  /\ WF_vars(RunInterrupted)
  /\ WF_vars(HandleExit)
  /\ \A c \in Callers : WF_vars(PauseReturn(c))
  /\ \A c \in AutoCallers : WF_vars(Unpause(c, FALSE))

Spec == Init /\ [][Next]_vars /\ Fairness

-----------------------------------------------------------------------------
TypeOK ==
  /\ is_paused \in BOOLEAN
  /\ paused \in 0..Cardinality(AutoCallers)
  /\ is_running \in BOOLEAN
  /\ pauseWaiters \subseteq Callers
  /\ sigPending \in BOOLEAN
  /\ vpc \in {"load", "top", "resume_wait", "resume_relock", "kernel_enter", "kernel",
              "handle", "done"}
  /\ exit \in ExitKinds \cup {NoExit}
  /\ pc \in [Callers -> {"idle", "pause_wait", "pause_relock", "paused"}]
  /\ kregs \in [Banks -> Contents] /\ uregs \in [Banks -> Contents]
  /\ cached \in [Banks -> BOOLEAN] /\ dirty \in [Banks -> BOOLEAN]
  /\ superseded \in BOOLEAN /\ lpc \in 1..Len(lcalls) + 1

(* Some Pause has returned and is still in force.                          *)
PauseInForce ==
  \/ \E c \in AutoCallers : pc[c] = "paused"
  \/ is_paused /\ \A c \in ManualCallers : pc[c] \notin {"pause_wait", "pause_relock"}

(* Stop-the-world for a vCPU: while a returned Pause is in force, the vCPU *)
(* is parked in resume_event.Wait() (or just woken and about to re-check), *)
(* never in KVM_RUN or in the middle of handling an exit, so register and  *)
(* device state read by the pauser is not changing under it.               *)
PausedMeansParked ==
  PauseInForce => vpc \in {"resume_wait", "resume_relock"}

(* Every Pause(false) that waits for the vCPU to park returns: the count   *)
(* it added keeps the vCPU parking at the top of Run.                      *)
AutoPauseTerminates ==
  \A c \in AutoCallers : pc[c] \in {"pause_wait", "pause_relock"} ~> pc[c] = "paused"

(* Every Pause(true) (RPC.VCPU with paused set) that waits for the vCPU to *)
(* park returns.                                                           *)
ManualPauseTerminates ==
  \A c \in ManualCallers : pc[c] \in {"pause_wait", "pause_relock"} ~> pc[c] = "idle"

(* Once the last pause is undone, a parked vCPU leaves resume_wait.        *)
ResumeAfterUnpause ==
  (vpc = "resume_wait" /\ ~MustWait(is_paused, paused)) ~> vpc # "resume_wait"

(* What a pauser reads from the register cache is the guest's: while a     *)
(* returned Pause is in force, a bank marked cached and not dirty holds    *)
(* what KVM holds, so GetRegisters (NewVCPUInfo, RPC.State) returns the    *)
(* registers of the parked vCPU and not a copy from an earlier run.        *)
CacheCoherentWhileHeld ==
  PauseInForce =>
    \A b \in Banks : cached[b] /\ ~dirty[b] => uregs[b] = kregs[b]

(* When Loop's tracer reads the general registers of an exit               *)
(* (Tracer.Trace, GetRegister(instruction)), a copy it finds cached is the *)
(* one the guest exited with.                                              *)
TraceReadsCurrent ==
  Tracing /\ vpc = "handle" /\ cached["regs"] => uregs["regs"] = kregs["regs"]

(* The fields the loader's calls so far have written into bank b.          *)
LoaderApplied(b) ==
  {lcalls[i].field : i \in {j \in 1..lpc - 1 : lcalls[j].bank = b /\ lcalls[j].field # ""}}

(* The loader's register writes are never lost: until the guest runs or a *)
(* saved state replaces them, every field SetupLinux has written is in     *)
(* what the next accessor would read (the cache if it is valid, else KVM), *)
(* and when Run enters KVM_RUN for the first time all of them are in KVM:  *)
(* the general registers, left dirty in the cache by SetRegister, reach it *)
(* through flushAllRegs at the top of Run, and a refresh never re-reads a  *)
(* dirty bank over them.                                                   *)
LoaderWritesKept ==
  ~superseded =>
    \A b \in Banks :
      /\ LoaderApplied(b) \subseteq RefreshedBank(b).w
      /\ vpc \in {"kernel_enter", "kernel"} => LoaderApplied(b) \subseteq kregs[b].w

-----------------------------------------------------------------------------
(* The refinement mapping: an automatic pauser's pause is requested from   *)
(* the moment Pause(false) counts it until Unpause(false) takes it back,   *)
(* and held once Pause has returned; the manual flag is is_paused; the     *)
(* vCPU is parked exactly when is_running is false, which Run sets only    *)
(* while it waits on resume_event.                                         *)
Abstract == INSTANCE PauseSpec WITH
  Pausers <- AutoCallers,
  pauses  <- {c \in AutoCallers : pc[c] \in {"pause_wait", "pause_relock", "paused"}},
  held    <- {c \in AutoCallers : pc[c] = "paused"},
  manual  <- is_paused,
  parked  <- ~is_running

(* VCPU.Run, Pause and Unpause implement the abstract pause: every step    *)
(* of the vCPU and of its pausers is a step of PauseSpec or leaves its     *)
(* state alone, and its fairness (a requested pause returns, a vCPU with   *)
(* nothing outstanding resumes) holds of the code's scheduling.            *)
ImplementsPauseSpec == Abstract!Spec
=============================================================================
