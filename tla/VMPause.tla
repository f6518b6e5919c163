------------------------------ MODULE VMPause ------------------------------
(***************************************************************************)
(* The aggregate vCPU pause with its rollback: VirtualMachine.Pause and    *)
(* Unpause (src/kvm/virtual_machine.go) looping over VCPU.Pause and        *)
(* Unpause (src/kvm/run.go), driven by three callers:                      *)
(*   "info": VCPUInfo, as SaveState runs it for restart and RPC.Reload:    *)
(*           VM.Pause(false), NewVCPUInfo per vCPU, deferred Unpause;      *)
(*   "rpc":  RPC.Pause (VM.Pause(true)) and later RPC.Unpause;             *)
(*   "vcpu": RPC.VCPU with Paused set, a manual pause of one vCPU.         *)
(* kvm_run_interrupt is absent from the repository; it returns an errno,   *)
(* so the model lets it fail.  The rendezvous itself is VCPURun's subject: *)
(* here a vCPU only parks and resumes.                                     *)
(***************************************************************************)
EXTENDS Naturals, Sequences, FiniteSets

CONSTANTS
  VCPUOrder,     \* the VM's vcpus slice, in order
  VCPUTarget,    \* the index RPC.VCPU is called with
  NoCaller       \* model value: no manual pauser recorded

VCPUs == {VCPUOrder[i] : i \in 1..Len(VCPUOrder)}
N == Len(VCPUOrder)
Callers == {"info", "rpc", "vcpu"}
Manual(c) == c # "info"

ASSUME VCPUTarget \in 1..N /\ NoCaller \notin Callers

VARIABLES
  is_paused, paused, is_running,   \* RunInfo of each vCPU
  pc, idx,                         \* each caller's place and loop index
  mowner,      \* history: the caller whose Pause(true) set is_paused
  aheld,       \* history: the vCPUs whose count holds a Pause(false) of the caller
  foreign      \* history: the caller's rollback undid another caller's pause

vars == <<is_paused, paused, is_running, pc, idx, mowner, aheld, foreign>>
pauseVars == <<is_paused, paused, mowner, aheld>>

Init ==
  /\ is_paused = [v \in VCPUs |-> FALSE]
  /\ paused = [v \in VCPUs |-> 0]
  /\ is_running = [v \in VCPUs |-> TRUE]
  /\ pc = [c \in Callers |-> "pause"]
  /\ idx = [c \in Callers |-> IF c = "vcpu" THEN VCPUTarget ELSE 1]
  /\ mowner = [v \in VCPUs |-> NoCaller]
  /\ aheld = [c \in Callers |-> {}]
  /\ foreign = [c \in Callers |-> FALSE]

Target(c) == VCPUOrder[idx[c]]

\* The VM.Pause loop moves to its next vCPU; after the last, VCPUInfo reads
\* the vCPUs and RPC.Pause returns, leaving RPC.Unpause to come.  RPC.VCPU
\* pauses a single vCPU.
Continue(c) ==
  IF c = "vcpu" THEN pc' = [pc EXCEPT ![c] = "done"] /\ UNCHANGED idx
  ELSE IF idx[c] < N THEN pc' = [pc EXCEPT ![c] = "pause"] /\ idx' = [idx EXCEPT ![c] = @ + 1]
  ELSE /\ pc' = [pc EXCEPT ![c] = IF c = "info" THEN "read" ELSE "unpause"]
       /\ idx' = [idx EXCEPT ![c] = 1]

\* run.go:103-112: set is_paused, or bump the count.
Requested(c) ==
  LET v == Target(c) IN
  IF Manual(c)
  THEN /\ is_paused' = [is_paused EXCEPT ![v] = TRUE]
       /\ mowner' = [mowner EXCEPT ![v] = c]
       /\ UNCHANGED <<paused, aheld>>
  ELSE /\ paused' = [paused EXCEPT ![v] = @ + 1]
       /\ aheld' = [aheld EXCEPT ![c] = @ \cup {v}]
       /\ UNCHANGED <<is_paused, mowner>>

\* run.go:117-119: only a manual or the first automatic pauser interrupts.
Interrupts(c) == Manual(c) \/ paused[Target(c)] = 0

\* run.go:120-123: kvm_run_interrupt fails and Pause returns its errno.
\* VirtualMachine.Pause then rolls back from the previous vCPU
\* (virtual_machine.go:99-105); RPC.VCPU returns the error.
Fail(c) ==
  /\ pc' = [pc EXCEPT ![c] = IF c = "vcpu" \/ idx[c] = 1 THEN "failed" ELSE "rollback"]
  /\ idx' = [idx EXCEPT ![c] = @ - 1]

\* One VCPU.Pause call in a caller's loop (virtual_machine.go:97-100,
\* run.go:99-130), with its outcome.
Pause(c) ==
  LET v == Target(c) IN
  /\ pc[c] = "pause"
  /\ \/ /\ Manual(c) /\ is_paused[v]           \* AlreadyPaused: skipped
        /\ Continue(c)
        /\ UNCHANGED pauseVars
     \/ /\ ~(Manual(c) /\ is_paused[v])
        /\ Requested(c)
        /\ \/ /\ ~is_running[v]                 \* parked already: nil
              /\ Continue(c)
           \/ /\ is_running[v]                  \* interrupted, or relying on
              /\ pc' = [pc EXCEPT ![c] = "wait"] \* the first pauser's signal
              /\ UNCHANGED idx
           \/ /\ is_running[v] /\ Interrupts(c)
              /\ Fail(c)
  /\ UNCHANGED <<is_running, foreign>>

\* run.go:126: pause_event.Wait returns once the vCPU has broadcast.
PauseReturns(c) ==
  /\ pc[c] = "woken"
  /\ Continue(c)
  /\ UNCHANGED <<pauseVars, is_running, foreign>>

\* run.go:132-160: Unpause by caller c; NotPaused changes nothing.
Unpaused(c, v) ==
  IF Manual(c)
  THEN /\ is_paused' = [is_paused EXCEPT ![v] = FALSE]
       /\ mowner' = [mowner EXCEPT ![v] = NoCaller]
       /\ UNCHANGED <<paused, aheld>>
  ELSE /\ paused' = [paused EXCEPT ![v] = IF @ = 0 THEN 0 ELSE @ - 1]
       /\ aheld' = [aheld EXCEPT ![c] = @ \ {v}]
       /\ UNCHANGED <<is_paused, mowner>>

\* The pause in force on v that c's Unpause removes is another caller's.
UndoesOther(c, v) ==
  IF Manual(c) THEN is_paused[v] /\ mowner[v] # c
  ELSE paused[v] > 0 /\ v \notin aheld[c]

\* virtual_machine.go:101-105: the rollback loop, from the vCPU before the
\* one that failed down to the first; Unpause's result is ignored.
Rollback(c) ==
  LET v == Target(c) IN
  /\ pc[c] = "rollback"
  /\ Unpaused(c, v)
  /\ foreign' = [foreign EXCEPT ![c] = @ \/ UndoesOther(c, v)]
  /\ pc' = [pc EXCEPT ![c] = IF idx[c] = 1 THEN "failed" ELSE "rollback"]
  /\ idx' = [idx EXCEPT ![c] = @ - 1]
  /\ UNCHANGED is_running

\* virtual_machine.go:84-90, vcpu.go:169-215: NewVCPUInfo of a parked vCPU.
\* Its own Pause(false)/Unpause(false) leave the count as they found it; any
\* of its reads may fail, which ends the loop and runs the deferred Unpause.
ReadInfo ==
  /\ pc["info"] = "read"
  /\ \E ok \in BOOLEAN :
       IF ok /\ idx["info"] < N THEN idx' = [idx EXCEPT !["info"] = @ + 1] /\ UNCHANGED pc
       ELSE pc' = [pc EXCEPT !["info"] = "unpause"] /\ idx' = [idx EXCEPT !["info"] = 1]
  /\ UNCHANGED <<pauseVars, is_running, foreign>>

\* virtual_machine.go:112-127: VM.Unpause; a vCPU's Unpause only fails with
\* NotPaused, which the loop tolerates, so its rollback is never taken.
VMUnpause(c) ==
  /\ pc[c] = "unpause"
  /\ Unpaused(c, Target(c))
  /\ pc' = [pc EXCEPT ![c] = IF idx[c] = N THEN "done" ELSE "unpause"]
  /\ idx' = [idx EXCEPT ![c] = IF @ = N THEN @ ELSE @ + 1]
  /\ UNCHANGED <<is_running, foreign>>

\* run.go:66-72: at its pause check the vCPU stops running and broadcasts
\* pause_event, waking every pauser waiting on it.
Park(v) ==
  /\ is_running[v] /\ (is_paused[v] \/ paused[v] > 0)
  /\ is_running' = [is_running EXCEPT ![v] = FALSE]
  /\ pc' = [c \in Callers |-> IF pc[c] = "wait" /\ Target(c) = v THEN "woken" ELSE pc[c]]
  /\ UNCHANGED <<pauseVars, idx, foreign>>

\* run.go:66, 76: woken from resume_event with no pause left, it runs again.
Resume(v) ==
  /\ ~is_running[v] /\ ~is_paused[v] /\ paused[v] = 0
  /\ is_running' = [is_running EXCEPT ![v] = TRUE]
  /\ UNCHANGED <<pauseVars, pc, idx, foreign>>

\* Every call has returned; what is left is the guest running or parked.
Finished ==
  /\ \A c \in Callers : pc[c] \in {"done", "failed"}
  /\ UNCHANGED vars

Next ==
  \/ \E c \in Callers : Pause(c) \/ PauseReturns(c) \/ Rollback(c) \/ VMUnpause(c)
  \/ ReadInfo
  \/ \E v \in VCPUs : Park(v) \/ Resume(v)
  \/ Finished

Spec == Init /\ [][Next]_vars

TypeOK ==
  /\ is_paused \in [VCPUs -> BOOLEAN]
  /\ paused \in [VCPUs -> Nat]
  /\ is_running \in [VCPUs -> BOOLEAN]
  /\ pc \in [Callers -> {"pause", "wait", "woken", "rollback", "read", "unpause", "done", "failed"}]
  /\ idx \in [Callers -> 0..N]
  /\ mowner \in [VCPUs -> Callers \cup {NoCaller}]
  /\ aheld \in [Callers -> SUBSET VCPUs]
  /\ foreign \in [Callers -> BOOLEAN]

(***************************************************************************)
(* A pause call that returns an error leaves nothing behind: none of its   *)
(* own manual flags or automatic counts is still in force, and its         *)
(* rollback removed no other caller's pause.  This is what the "Rollback"  *)
(* loops of VirtualMachine.Pause (virtual_machine.go:100-105) are for, and *)
(* what VCPUInfo, RPC.Pause and RPC.VCPU rely on when they return the      *)
(* error without unpausing.                                                *)
(***************************************************************************)
FailedPauseUndone ==
  \A c \in Callers : pc[c] = "failed" =>
    /\ aheld[c] = {}
    /\ \A v \in VCPUs : mowner[v] # c
    /\ ~foreign[c]
=============================================================================
