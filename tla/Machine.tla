------------------------------- MODULE Machine -------------------------------
(***************************************************************************)
(* The machine as a whole: vCPU goroutines whose MMIO exits are served by  *)
(* device I/O goroutines, and the callers that pause both.                 *)
(*  - vCPUs run VCPU.Run (src/kvm/run.go) inside Loop (src/loop.go); an    *)
(*    MMIO exit is handed through IOQueue.Submit to the IOHandler of the   *)
(*    device (src/kvm/io.go), and Loop waits for the reply;                *)
(*  - each device has one IOHandler goroutine, which brackets every read   *)
(*    or write with BaseDevice.Acquire/Release (src/kvm/device.go);        *)
(*  - "main" is the start-up of src/cmd/portal/main.go: with -paused it    *)
(*    calls model.Pause(true) then vm.Pause(true), and only then starts    *)
(*    the RPC server and the vCPU Loops;                                   *)
(*  - "snap" takes a snapshot the way RPC.Reload and Model.DeviceInfo do   *)
(*    (src/rpc/rpc_state.go, src/kvm/model.go): VirtualMachine.Pause(false)*)
(*    over every vCPU, Model.Pause(false) over every device, save, then    *)
(*    the deferred Model.Unpause(false) and VirtualMachine.Unpause(false); *)
(*  - "rpc" serves RPC.Device (src/rpc/rpc_device.go): Pause(true) or      *)
(*    Unpause(true) of every device whose name matches, in order,          *)
(*    stopping at the first error.                                         *)
(* As in VCPURun and DevicePause, a critical section that does not block   *)
(* inside is one step, and a condition wait is split at its release and    *)
(* its re-acquire of the lock.                                             *)
(***************************************************************************)
EXTENDS Naturals, Sequences, Functions

CONSTANTS
  VCPUOrder,    \* vm.vcpus, in order
  DeviceOrder,  \* model.devices, in order
  StartPaused,  \* main's -paused flag
  InitRunning,  \* RunInfo.Running of a new vCPU (see Init)
  DeviceRPC,    \* whether RPC.Device requests arrive
  FreshBoot,    \* main loaded a kernel (-vmlinux): IsLoad, the guest barrier
  MaxRestarts,  \* bound on the SIGHUP restarts main receives
  MaxPaused,    \* bound on a device's Paused counter (it can leak)
  NoVCPU,       \* model value: no request in the handler
  NoExit,       \* model value: no exit being handled
  NoActor       \* model value: nobody holds pauseLock

ASSUME StartPaused \in BOOLEAN /\ DeviceRPC \in BOOLEAN /\ InitRunning \in BOOLEAN
ASSUME MaxPaused \in Nat \ {0} /\ FreshBoot \in BOOLEAN /\ MaxRestarts \in Nat

VCPUs == Range(VCPUOrder)
Devices == Range(DeviceOrder)
Actors == {"main", "snap", "rpc", "restart"}

VARIABLES
  \* vCPU side (RunInfo of src/kvm/run.go), one per vCPU
  is_paused, paused, is_running, sigPending,
  vpc,        \* where each vCPU goroutine is
  exit,       \* the device of the MMIO exit being handled, or NoExit
  \* device side (BaseDevice of src/kvm/device.go), one per device
  IsPaused, Paused,
  pauseLock,  \* holder of BaseDevice.pauseLock, or NoActor
  writer,     \* runLock's writer side: "free", "pending" or "held"
  reader,     \* the device's IOHandler holds runLock for reading
  fatal,      \* Unlock of an unlocked RWMutex aborted the process
  \* I/O (IOHandler.Run of src/kvm/io.go), one per device
  hpc,        \* where the handler goroutine is
  req,        \* the vCPU whose request it serves, or NoVCPU
  \* the callers
  step,       \* index of the call in the caller's program, 0 when idle
  idx,        \* position in the vCPU or device list the call loops over
  wait,       \* "none", or what the caller is blocked on
  rpcPaused,  \* the Paused field of the RPC.Device request being served
  rpcMatch,   \* the devices its name and driver patterns match
  \* the supervisor (main's signal loop, src/cmd/portal/main.go)
  guest,      \* what control.Ready() returns: "pending", "ok" or "failed"
  proc,       \* the process: "running", "exec" (re-executed) or "dead"
  restarts,   \* SIGHUPs received so far
  saveErr,    \* the state save of the restart in progress failed
  ioSince     \* history: vCPUs whose I/O completed since restart saved the vCPUs

vcpuVars == <<is_paused, paused, is_running, sigPending, vpc, exit>>
devVars == <<IsPaused, Paused, pauseLock, writer, reader, fatal>>
ioVars == <<hpc, req, ioSince>>
actorVars == <<step, idx, wait, rpcPaused, rpcMatch>>
supVars == <<guest, proc, restarts, saveErr>>
vars == <<vcpuVars, devVars, ioVars, actorVars, supVars>>

-----------------------------------------------------------------------------
(* What each caller does, as a sequence of calls, each looping over the    *)
(* vCPUs ("vpause", "vunpause") or the devices ("dpause", "dunpause").     *)
Order(op) == IF op \in {"vpause", "vunpause"} THEN VCPUOrder ELSE DeviceOrder
Call(op, manual) == [op |-> op, manual |-> manual, targets |-> Order(op)]

(* vm.CreatevCPUs (vcpu.go:68-92) calls VCPU.Load on each new vCPU in      *)
(* turn; Load's SetRegisters (registers.go:905-959) brackets its register  *)
(* writes with Pause(false) and the deferred Unpause(false) of that vCPU.  *)
(* The writes themselves and Load's other ioctls touch no pause state.     *)
LoadProgram ==
  [i \in 1..2 * Len(VCPUOrder) |->
     [op |-> IF i % 2 = 1 THEN "vpause" ELSE "vunpause", manual |-> FALSE,
      targets |-> <<VCPUOrder[(i + 1) \div 2]>>]]

MainProgram ==
  LoadProgram \o
  (IF StartPaused THEN <<Call("dpause", TRUE), Call("vpause", TRUE)>> ELSE <<>>)
    \o <<Call("start", FALSE)>>

SnapProgram ==
  <<Call("vpause", FALSE), Call("dpause", FALSE), Call("save", FALSE),
    Call("dunpause", FALSE), Call("vunpause", FALSE)>>

(* main's SIGHUP handling (main.go:285-297): control.Ready(), then          *)
(* restart() (main.go:43-118): find the binary, SaveState, which takes the *)
(* vCPU states with VirtualMachine.VCPUInfo (VM.Pause(false), NewVCPUInfo  *)
(* of each vCPU, the deferred VM.Unpause(false)) and then the device       *)
(* states with Model.DeviceInfo (Model.Pause(false), Save, the deferred    *)
(* Model.Unpause(false)), and finally syscall.Exec.                        *)
RestartProgram ==
  <<Call("ready", FALSE), Call("binary", FALSE),
    Call("vpause", FALSE), Call("vsave", FALSE), Call("vunpause", FALSE),
    Call("dpause", FALSE), Call("dsave", FALSE), Call("dunpause", FALSE),
    Call("exec", FALSE)>>

Program(a) ==
  CASE a = "main"    -> MainProgram
    [] a = "snap"    -> SnapProgram
    [] a = "rpc"     -> <<Call(IF rpcPaused THEN "dpause" ELSE "dunpause", TRUE)>>
    [] a = "restart" -> RestartProgram

Cur(a) == Program(a)[step[a]]
Manual(a) == Cur(a).manual
VCPUCall(a) == Cur(a).targets[idx[a]]
DeviceCall(a) == Cur(a).targets[idx[a]]

VSaveStep == 4
VUnpauseStep == 5
DSaveStep == 7
DUnpauseStep == 8

(* main's program ends with its last call; the others go back to idle.  A  *)
(* restart whose save failed returns its error once the deferred unpause   *)
(* of that save has run.                                                   *)
NextStep(a) ==
  IF \/ a # "main" /\ step[a] = Len(Program(a))
     \/ a = "restart" /\ saveErr /\ step[a] \in {VUnpauseStep, DUnpauseStep}
    THEN 0 ELSE step[a] + 1

(* The current loop goes on to its next element, or the next call starts.  *)
Advance(a) ==
  IF idx[a] < Len(Cur(a).targets)
    THEN idx' = [idx EXCEPT ![a] = @ + 1] /\ UNCHANGED step
    ELSE idx' = [idx EXCEPT ![a] = 1] /\ step' = [step EXCEPT ![a] = NextStep(a)]

(* An error from a device: RPC.Device breaks out of its loop; Model.Pause  *)
(* ignores DeviceAlreadyPaused, the only error Pause(true) returns.        *)
OnError(a) ==
  IF a = "rpc" THEN idx' = [idx EXCEPT ![a] = 1] /\ step' = [step EXCEPT ![a] = 0]
               ELSE Advance(a)

Calling(a, op) ==
  /\ step[a] \in 1..Len(Program(a))
  /\ Cur(a).op = op
  /\ wait[a] = "none"

Serving == step["main"] > Len(MainProgram)

-----------------------------------------------------------------------------
(* The vCPU goroutines: Run's loop and Loop's handling of an MMIO exit.    *)

(* The loop condition of Run: for is_paused || paused > 0.                 *)
MustWait(ip, p) == ip \/ p > 0

(* kvm_run_interrupt: SigVCPUInt makes a KVM_RUN in progress, or about to  *)
(* start, return EINTR; anywhere else it only runs the handler.            *)
Interrupt(v) ==
  sigPending' = [sigPending EXCEPT ![v] = vpc[v] \in {"kernel_enter", "kernel"}]

(* Top of Run's loop, or woken from resume_event.Wait() with the lock      *)
(* again: while paused, mark not running, broadcast pause_event (waking    *)
(* every caller waiting on this vCPU) and wait; else mark running.         *)
CheckPause(v) ==
  /\ vpc[v] \in {"top", "resume_relock"}
  /\ IF MustWait(is_paused[v], paused[v])
       THEN /\ is_running' = [is_running EXCEPT ![v] = FALSE]
            /\ wait' = [a \in Actors |->
                          IF wait[a] = "vcpu" /\ VCPUCall(a) = v THEN "relock"
                                                                 ELSE wait[a]]
            /\ vpc' = [vpc EXCEPT ![v] = "resume_wait"]
       ELSE /\ is_running' = [is_running EXCEPT ![v] = TRUE]
            /\ vpc' = [vpc EXCEPT ![v] = "kernel_enter"]
            /\ UNCHANGED wait
  /\ UNCHANGED <<is_paused, paused, sigPending, exit>>
  /\ UNCHANGED <<devVars, ioVars, step, idx, rpcPaused, rpcMatch>>

(* C.kvm_run issues KVM_RUN.                                               *)
EnterKernel(v) ==
  /\ vpc[v] = "kernel_enter"
  /\ vpc' = [vpc EXCEPT ![v] = "kernel"]
  /\ UNCHANGED <<is_paused, paused, is_running, sigPending, exit>>
  /\ UNCHANGED <<devVars, ioVars, actorVars>>

(* KVM_RUN returns EINTR for the pending signal; Run loops.                *)
RunInterrupted(v) ==
  /\ vpc[v] = "kernel"
  /\ sigPending[v]
  /\ sigPending' = [sigPending EXCEPT ![v] = FALSE]
  /\ vpc' = [vpc EXCEPT ![v] = "top"]
  /\ UNCHANGED <<is_paused, paused, is_running, exit>>
  /\ UNCHANGED <<devVars, ioVars, actorVars>>

(* The guest touches device d's MMIO range: KVM_RUN returns, Run returns   *)
(* the ExitMMIO, and Loop calls HandleMmio, which looks the address up in  *)
(* the IOCache and submits the access to d's queue.                        *)
RunExit(v, d) ==
  /\ vpc[v] = "kernel"
  /\ sigPending' = [sigPending EXCEPT ![v] = FALSE]
  /\ exit' = [exit EXCEPT ![v] = d]
  /\ vpc' = [vpc EXCEPT ![v] = "submit"]
  /\ UNCHANGED <<is_paused, paused, is_running>>
  /\ UNCHANGED <<devVars, ioVars, actorVars>>

(* IOQueue.Submit: "queue <- req" on the unbuffered channel completes when *)
(* the handler is at "req := <-self.queue"; the vCPU then waits on         *)
(* req.result.                                                             *)
Submit(v) ==
  /\ vpc[v] = "submit"
  /\ hpc[exit[v]] = "recv"
  /\ hpc' = [hpc EXCEPT ![exit[v]] = "acquire"]
  /\ req' = [req EXCEPT ![exit[v]] = v]
  /\ vpc' = [vpc EXCEPT ![v] = "await"]
  /\ UNCHANGED <<is_paused, paused, is_running, sigPending, exit, ioSince>>
  /\ UNCHANGED <<devVars, actorVars>>

-----------------------------------------------------------------------------
(* The device I/O goroutines (IOHandler.Run).                              *)

(* Device.Acquire(): runLock.RLock(), blocked while a Pause holds or waits *)
(* for the write lock.                                                     *)
HandlerAcquire(d) ==
  /\ hpc[d] = "acquire"
  /\ writer[d] = "free"
  /\ reader' = [reader EXCEPT ![d] = TRUE]
  /\ hpc' = [hpc EXCEPT ![d] = "op"]
  /\ UNCHANGED <<IsPaused, Paused, pauseLock, writer, fatal, req, ioSince>>
  /\ UNCHANGED <<vcpuVars, actorVars>>

(* The read or write, and "req.result <- err": the vCPU's Submit returns,  *)
(* HandleMmio returns nil and Loop calls Run again.  ioSince records it    *)
(* while a restart is between its vCPU save and its device save.          *)
HandlerReply(d) ==
  /\ hpc[d] = "op"
  /\ ioSince' = IF step["restart"] \in VSaveStep + 1..DSaveStep
                  THEN ioSince \cup {req[d]} ELSE ioSince
  /\ vpc' = [vpc EXCEPT ![req[d]] = "top"]
  /\ exit' = [exit EXCEPT ![req[d]] = NoExit]
  /\ hpc' = [hpc EXCEPT ![d] = "release"]
  /\ UNCHANGED <<is_paused, paused, is_running, sigPending, req>>
  /\ UNCHANGED <<devVars, actorVars>>

(* Device.Release(): runLock.RUnlock(); back to the top of the loop.      *)
HandlerRelease(d) ==
  /\ hpc[d] = "release"
  /\ reader' = [reader EXCEPT ![d] = FALSE]
  /\ hpc' = [hpc EXCEPT ![d] = "recv"]
  /\ req' = [req EXCEPT ![d] = NoVCPU]
  /\ UNCHANGED <<IsPaused, Paused, pauseLock, writer, fatal, ioSince>>
  /\ UNCHANGED <<vcpuVars, actorVars>>

-----------------------------------------------------------------------------
(* The callers' steps on a vCPU: VirtualMachine.Pause/Unpause call         *)
(* VCPU.Pause/Unpause on each vCPU in order, ignoring AlreadyPaused and    *)
(* NotPaused.                                                              *)

(* Mutant: only a manual Pause interrupts the running vCPU.                *)
CallVCPUPauseNoAutoInterrupt(a) ==
  /\ Calling(a, "vpause")
  /\ LET v == VCPUCall(a)
         m == Manual(a)
         p == IF m THEN paused[v] ELSE paused[v] + 1
     IN IF m /\ is_paused[v]
          THEN Advance(a) /\ UNCHANGED <<is_paused, paused, sigPending, wait>>
          ELSE /\ is_paused' = [is_paused EXCEPT ![v] = @ \/ m]
               /\ paused' = [paused EXCEPT ![v] = p]
               /\ IF is_running[v]
                    THEN /\ IF m THEN Interrupt(v) ELSE UNCHANGED sigPending
                         /\ wait' = [wait EXCEPT ![a] = "vcpu"]
                         /\ UNCHANGED <<step, idx>>
                    ELSE Advance(a) /\ UNCHANGED <<sigPending, wait>>
  /\ UNCHANGED <<is_running, vpc, exit, rpcPaused, rpcMatch>>
  /\ UNCHANGED <<devVars, ioVars>>

(* VCPU.Pause(manual) with RunInfo.lock held: record the pause; if the     *)
(* vCPU is running, interrupt it (manual or first automatic pause) and     *)
(* wait on pause_event.  kvm_run_interrupt is taken to succeed here; its   *)
(* failure (run.go:120-124) and the rollback it starts are VMPause's.      *)
CallVCPUPause(a) ==
  /\ Calling(a, "vpause")
  /\ LET v == VCPUCall(a)
         m == Manual(a)
         p == IF m THEN paused[v] ELSE paused[v] + 1
     IN IF m /\ is_paused[v]
          THEN Advance(a) /\ UNCHANGED <<is_paused, paused, sigPending, wait>>
          ELSE /\ is_paused' = [is_paused EXCEPT ![v] = @ \/ m]
               /\ paused' = [paused EXCEPT ![v] = p]
               /\ IF is_running[v]
                    THEN /\ IF m \/ p = 1 THEN Interrupt(v) ELSE UNCHANGED sigPending
                         /\ wait' = [wait EXCEPT ![a] = "vcpu"]
                         /\ UNCHANGED <<step, idx>>
                    ELSE Advance(a) /\ UNCHANGED <<sigPending, wait>>
  /\ UNCHANGED <<is_running, vpc, exit, rpcPaused, rpcMatch>>
  /\ UNCHANGED <<devVars, ioVars>>

(* Woken from pause_event.Wait(), the caller takes the lock back and       *)
(* VCPU.Pause returns; VirtualMachine.Pause goes on to the next vCPU.      *)
VCPUPauseReturn(a) ==
  /\ wait[a] = "relock"
  /\ wait' = [wait EXCEPT ![a] = "none"]
  /\ Advance(a)
  /\ UNCHANGED <<vcpuVars, devVars, ioVars, rpcPaused, rpcMatch>>

(* VCPU.Unpause(manual): NotPaused if there is nothing to undo; else undo  *)
(* it and, if no pause is left, broadcast resume_event.                    *)
CallVCPUUnpause(a) ==
  /\ Calling(a, "vunpause")
  /\ LET v == VCPUCall(a)
         m == Manual(a)
         ip == is_paused[v] /\ ~m
         p == IF m THEN paused[v] ELSE paused[v] - 1
     IN IF (m /\ ~is_paused[v]) \/ (~m /\ paused[v] = 0)
          THEN UNCHANGED <<is_paused, paused, vpc>>
          ELSE /\ is_paused' = [is_paused EXCEPT ![v] = ip]
               /\ paused' = [paused EXCEPT ![v] = p]
               /\ vpc' = [vpc EXCEPT ![v] =
                            IF ~MustWait(ip, p) /\ @ = "resume_wait"
                              THEN "resume_relock" ELSE @]
  /\ Advance(a)
  /\ UNCHANGED <<is_running, sigPending, exit, wait, rpcPaused, rpcMatch>>
  /\ UNCHANGED <<devVars, ioVars>>

-----------------------------------------------------------------------------
(* The callers' steps on a device: BaseDevice.Pause/Unpause, under         *)
(* pauseLock, called by Model.Pause/Unpause or by RPC.Device.              *)

(* runLock.Lock() inside Pause, pauseLock still held: the writer is        *)
(* announced (new readers block) and the caller waits for the reader.      *)
LockRunLock(a, d) ==
  /\ writer' = [writer EXCEPT ![d] = IF @ = "free" THEN "pending" ELSE @]
  /\ pauseLock' = [pauseLock EXCEPT ![d] = a]
  /\ wait' = [wait EXCEPT ![a] = "device"]
  /\ UNCHANGED <<step, idx>>

(* runLock.Unlock() inside Unpause; Go aborts if it is not write-locked.   *)
UnlockRunLock(d) ==
  IF writer[d] = "held" THEN writer' = [writer EXCEPT ![d] = "free"] /\ UNCHANGED fatal
                        ELSE fatal' = TRUE /\ UNCHANGED writer

(* BaseDevice.Pause(manual), including the second increment of Paused     *)
(* when the device is already paused (device.go:103).                      *)
DevicePause(a, d, m) ==
  /\ pauseLock[d] = NoActor
  /\ IF m
       THEN IF IsPaused[d]
              THEN OnError(a) /\ UNCHANGED <<IsPaused, Paused, writer, pauseLock, wait>>
              ELSE /\ IsPaused' = [IsPaused EXCEPT ![d] = TRUE]
                   /\ UNCHANGED Paused
                   /\ IF Paused[d] > 0
                        THEN Advance(a) /\ UNCHANGED <<writer, pauseLock, wait>>
                        ELSE LockRunLock(a, d)
       ELSE /\ Paused[d] < MaxPaused
            /\ UNCHANGED IsPaused
            /\ IF Paused[d] + 1 > 1 \/ IsPaused[d]
                 THEN /\ Paused' = [Paused EXCEPT ![d] = @ + 2]
                      /\ Advance(a) /\ UNCHANGED <<writer, pauseLock, wait>>
                 ELSE /\ Paused' = [Paused EXCEPT ![d] = @ + 1]
                      /\ LockRunLock(a, d)
  /\ UNCHANGED <<reader, fatal>>

(* Mutant: Pause returns once the writer is announced, without waiting for *)
(* the handler's read lock to be released.                                 *)
DevicePauseAcquiredWithoutDrain(a) ==
  /\ wait[a] = "device"
  /\ \E d \in Devices :
       /\ pauseLock[d] = a
       /\ writer[d] = "pending"
       /\ writer' = [writer EXCEPT ![d] = "held"]
       /\ pauseLock' = [pauseLock EXCEPT ![d] = NoActor]
  /\ wait' = [wait EXCEPT ![a] = "none"]
  /\ Advance(a)
  /\ UNCHANGED <<IsPaused, Paused, reader, fatal, rpcPaused, rpcMatch>>
  /\ UNCHANGED <<vcpuVars, ioVars>>

(* runLock.Lock() returns once the handler has released its read lock;     *)
(* Pause returns, its deferred pauseLock.Unlock() runs, and the caller's   *)
(* loop goes on.                                                           *)
DevicePauseAcquired(a) ==
  /\ wait[a] = "device"
  /\ \E d \in Devices :
       /\ pauseLock[d] = a
       /\ writer[d] = "pending"
       /\ ~reader[d]
       /\ writer' = [writer EXCEPT ![d] = "held"]
       /\ pauseLock' = [pauseLock EXCEPT ![d] = NoActor]
  /\ wait' = [wait EXCEPT ![a] = "none"]
  /\ Advance(a)
  /\ UNCHANGED <<IsPaused, Paused, reader, fatal, rpcPaused, rpcMatch>>
  /\ UNCHANGED <<vcpuVars, ioVars>>

(* Mutant: Unpause loses its "if manual" test and always takes the count  *)
(* branch, so a manual unpause decrements a count it never raised.         *)
DeviceUnpauseIgnoresManual(a, d, m) ==
  /\ pauseLock[d] = NoActor
  /\ Paused' = [Paused EXCEPT ![d] = @ - 1]
  /\ IF Paused[d] - 1 > 0 \/ IsPaused[d] THEN UNCHANGED <<writer, fatal>>
                                         ELSE UnlockRunLock(d)
  /\ Advance(a)
  /\ UNCHANGED <<IsPaused, pauseLock, reader, wait>>

(* BaseDevice.Unpause(manual): DeviceNotPaused for a manual unpause of a   *)
(* device not manually paused; the runLock is unlocked by the last undo.   *)
DeviceUnpause(a, d, m) ==
  /\ pauseLock[d] = NoActor
  /\ IF m
       THEN /\ UNCHANGED Paused
            /\ IF ~IsPaused[d]
                 THEN OnError(a) /\ UNCHANGED <<IsPaused, writer, fatal>>
                 ELSE /\ IsPaused' = [IsPaused EXCEPT ![d] = FALSE]
                      /\ IF Paused[d] > 0 THEN UNCHANGED <<writer, fatal>>
                                          ELSE UnlockRunLock(d)
                      /\ Advance(a)
       ELSE /\ Paused' = [Paused EXCEPT ![d] = @ - 1]
            /\ IF Paused[d] - 1 > 0 \/ IsPaused[d] THEN UNCHANGED <<writer, fatal>>
                                                   ELSE UnlockRunLock(d)
            /\ Advance(a)
            /\ UNCHANGED IsPaused
  /\ UNCHANGED <<pauseLock, reader, wait>>

(* One iteration of Model.Pause/Unpause or of RPC.Device's loop; RPC.Device*)
(* skips the devices its patterns do not match.                            *)
CallDevice(a) ==
  /\ \/ Calling(a, "dpause")
     \/ Calling(a, "dunpause")
  /\ LET d == DeviceCall(a) IN
       IF a = "rpc" /\ d \notin rpcMatch
         THEN Advance(a) /\ UNCHANGED <<devVars, wait>>
       ELSE IF Cur(a).op = "dpause" THEN DevicePause(a, d, Manual(a))
                                    ELSE DeviceUnpause(a, d, Manual(a))
  /\ UNCHANGED <<vcpuVars, ioVars, rpcPaused, rpcMatch>>

-----------------------------------------------------------------------------
(* main, after its -paused calls: go control.Serve(), then one Loop        *)
(* goroutine per vCPU (main.go:250-262).                                   *)
Start ==
  /\ Calling("main", "start")
  /\ vpc' = [v \in VCPUs |-> "top"]
  /\ step' = [step EXCEPT !["main"] = NextStep("main")]
  /\ UNCHANGED <<is_paused, paused, is_running, sigPending, exit>>
  /\ UNCHANGED <<devVars, ioVars, idx, wait, rpcPaused, rpcMatch>>

(* A snapshot request arrives at the RPC server.                           *)
SnapBegin ==
  /\ Serving
  /\ step["snap"] = 0
  /\ step' = [step EXCEPT !["snap"] = 1]
  /\ UNCHANGED <<vcpuVars, devVars, ioVars, idx, wait, rpcPaused, rpcMatch>>

(* With every vCPU and device paused, the state is saved.                  *)
Save ==
  /\ Calling("snap", "save")
  /\ step' = [step EXCEPT !["snap"] = NextStep("snap")]
  /\ UNCHANGED <<vcpuVars, devVars, ioVars, idx, wait, rpcPaused, rpcMatch>>

(* An RPC.Device request: the devices its patterns match, and Paused.     *)
RPCDeviceBegin(match, p) ==
  /\ DeviceRPC
  /\ Serving
  /\ step["rpc"] = 0
  /\ step' = [step EXCEPT !["rpc"] = 1]
  /\ rpcMatch' = match
  /\ rpcPaused' = p
  /\ UNCHANGED <<vcpuVars, devVars, ioVars, idx, wait>>

-----------------------------------------------------------------------------
(* The supervisor: main's signal loop and restart (main.go:43-118,         *)
(* 271-303).  Its loops over the vCPUs and devices are the callers' steps  *)
(* above; these are the rest.                                              *)

RestartUnchanged == UNCHANGED <<vcpuVars, devVars, ioVars, wait, rpcPaused, rpcMatch>>

(* restart's current call returns and the next one starts.                 *)
Done(a) == step' = [step EXCEPT ![a] = NextStep(a)] /\ UNCHANGED idx

(* restart returns an error: main logs "Restart failed" and goes back to   *)
(* its select loop, the VM running.                                        *)
RestartFails == step' = [step EXCEPT !["restart"] = 0] /\ UNCHANGED idx

(* SigRestart or SigSpecialRestart arrives at main's select loop.          *)
SignalRestart ==
  /\ Serving
  /\ step["restart"] = 0
  /\ restarts < MaxRestarts
  /\ step' = [step EXCEPT !["restart"] = 1]
  /\ restarts' = restarts + 1
  /\ saveErr' = FALSE
  /\ UNCHANGED <<vcpuVars, devVars, ioVars, idx, wait, rpcPaused, rpcMatch, guest, proc>>

(* Control.init (guest.go:10-55) reads the guest agent's status byte and   *)
(* writes the init command, then sends its result on client_res.          *)
GuestAnswers ==
  /\ Serving
  /\ guest = "pending"
  /\ guest' \in {"ok", "failed"}
  /\ UNCHANGED <<vcpuVars, devVars, ioVars, actorVars, proc, restarts, saveErr>>

(* control.Ready(): client_once.Do(barrier) blocks on client_res until     *)
(* init has sent; an error makes main call utils.Die.                      *)
Ready ==
  /\ Calling("restart", "ready")
  /\ guest # "pending"
  /\ IF guest = "ok" THEN Done("restart") /\ UNCHANGED proc
                     ELSE proc' = "dead" /\ UNCHANGED <<step, idx>>
  /\ RestartUnchanged
  /\ UNCHANGED <<guest, restarts, saveErr>>

(* os.Readlink("/proc/self/exe") and os.Stat of the binary (or of its name *)
(* without " (deleted)"), either of which may fail.                       *)
Binary ==
  /\ Calling("restart", "binary")
  /\ \E ok \in BOOLEAN : IF ok THEN Done("restart") ELSE RestartFails
  /\ RestartUnchanged
  /\ UNCHANGED supVars

(* VCPUInfo, with every vCPU paused: NewVCPUInfo of each vCPU, whose own   *)
(* Pause(false)/Unpause(false) nest inside the VM's pause and change       *)
(* nothing else; any of its ioctls may fail.                               *)
VSave ==
  /\ Calling("restart", "vsave")
  /\ \E ok \in BOOLEAN : saveErr' = ~ok
  /\ ioSince' = {}
  /\ Done("restart")
  /\ UNCHANGED <<vcpuVars, devVars, hpc, req, wait, rpcPaused, rpcMatch>>
  /\ UNCHANGED <<guest, proc, restarts>>

(* DeviceInfo, with every device paused: Model.Save and NewDeviceInfo of   *)
(* each device; a device's Save may fail.                                  *)
DSave ==
  /\ Calling("restart", "dsave")
  /\ \E ok \in BOOLEAN : saveErr' = ~ok
  /\ Done("restart")
  /\ RestartUnchanged
  /\ UNCHANGED <<guest, proc, restarts>>

(* The state file (TempFile, Remove, Encode, Seek, Dup) and syscall.Exec,  *)
(* which does not return unless it fails.                                  *)
Exec ==
  /\ Calling("restart", "exec")
  /\ \E ok \in BOOLEAN : IF ok THEN proc' = "exec" /\ UNCHANGED step
                                ELSE RestartFails /\ UNCHANGED proc
  /\ UNCHANGED idx
  /\ RestartUnchanged
  /\ UNCHANGED <<guest, restarts, saveErr>>

RestartStep == Ready \/ Binary \/ VSave \/ DSave \/ Exec

(* The process has re-executed itself or died: nothing more happens.       *)
Ended == proc # "running" /\ UNCHANGED vars

-----------------------------------------------------------------------------
(* No Loop has started; no device is paused.  NewVCPU, which creates the   *)
(* vCPUs, is not in the repository: InitRunInfo (run.go:25-28) would set   *)
(* Running to true, and a vCPU it never initialised keeps Go's zero value, *)
(* false.  InitRunning is that choice.                                     *)
Init ==
  /\ is_paused = [v \in VCPUs |-> FALSE]
  /\ paused = [v \in VCPUs |-> 0]
  /\ is_running = [v \in VCPUs |-> InitRunning]
  /\ sigPending = [v \in VCPUs |-> FALSE]
  /\ vpc = [v \in VCPUs |-> "unstarted"]
  /\ exit = [v \in VCPUs |-> NoExit]
  /\ IsPaused = [d \in Devices |-> FALSE]
  /\ Paused = [d \in Devices |-> 0]
  /\ pauseLock = [d \in Devices |-> NoActor]
  /\ writer = [d \in Devices |-> "free"]
  /\ reader = [d \in Devices |-> FALSE]
  /\ fatal = FALSE
  /\ hpc = [d \in Devices |-> "recv"]
  /\ req = [d \in Devices |-> NoVCPU]
  /\ step = [a \in Actors |-> IF a = "main" THEN 1 ELSE 0]
  /\ idx = [a \in Actors |-> 1]
  /\ wait = [a \in Actors |-> "none"]
  /\ rpcPaused = FALSE
  /\ rpcMatch = {}
  /\ guest = IF FreshBoot THEN "pending" ELSE "ok"
  /\ proc = "running"
  /\ restarts = 0
  /\ saveErr = FALSE
  /\ ioSince = {}

VCPUStep(v) ==
  \/ CheckPause(v)
  \/ EnterKernel(v)
  \/ RunInterrupted(v)
  \/ \E d \in Devices : RunExit(v, d)
  \/ Submit(v)

HandlerStep(d) ==
  HandlerAcquire(d) \/ HandlerReply(d) \/ HandlerRelease(d)

CallerStep(a) ==
  \/ CallVCPUPause(a)
  \/ VCPUPauseReturn(a)
  \/ CallVCPUUnpause(a)
  \/ CallDevice(a)
  \/ DevicePauseAcquired(a)

(* A step of the machine, which leaves the supervisor's state alone.       *)
Kept(A) == A /\ UNCHANGED supVars

Next ==
  \/ /\ ~fatal
     /\ proc = "running"
     /\ \/ /\ \/ \E v \in VCPUs : VCPUStep(v)
              \/ \E d \in Devices : HandlerStep(d)
              \/ \E a \in Actors : CallerStep(a)
              \/ Start
              \/ SnapBegin
              \/ Save
              \/ \E match \in SUBSET Devices \ {{}}, p \in BOOLEAN : RPCDeviceBegin(match, p)
           /\ UNCHANGED supVars
        \/ SignalRestart
        \/ GuestAnswers
        \/ RestartStep
  \/ Ended

(* Each goroutine's own steps are fair: the vCPU's (bar the guest's        *)
(* exits), the handlers', main's, and the steps of a request in progress:  *)
(* a snapshot runs to its end (its unpauses are deferred) and an           *)
(* RPC.Device loop to its end.  New requests and guest exits are not.      *)
(* Submit is strongly fair: Go queues the senders blocked on a channel and *)
(* serves them in order, so a vCPU cannot be overtaken forever by another  *)
(* vCPU sending to the same handler.                                       *)
Fairness ==
  /\ \A v \in VCPUs : /\ WF_vars(Kept(CheckPause(v))) /\ WF_vars(Kept(EnterKernel(v)))
                      /\ WF_vars(Kept(RunInterrupted(v))) /\ SF_vars(Kept(Submit(v)))
  /\ \A d \in Devices : WF_vars(Kept(HandlerStep(d)))
  /\ \A a \in Actors : WF_vars(Kept(CallerStep(a)))
  /\ WF_vars(Kept(Start)) /\ WF_vars(Kept(Save)) /\ WF_vars(RestartStep)

Spec == Init /\ [][Next]_vars /\ Fairness

-----------------------------------------------------------------------------
LongestLoop == IF Len(VCPUOrder) > Len(DeviceOrder) THEN Len(VCPUOrder) ELSE Len(DeviceOrder)

TypeOK ==
  /\ is_paused \in [VCPUs -> BOOLEAN]
  /\ paused \in [VCPUs -> Nat]
  /\ is_running \in [VCPUs -> BOOLEAN]
  /\ sigPending \in [VCPUs -> BOOLEAN]
  /\ vpc \in [VCPUs -> {"unstarted", "top", "resume_wait", "resume_relock",
                        "kernel_enter", "kernel", "submit", "await"}]
  /\ exit \in [VCPUs -> Devices \cup {NoExit}]
  /\ IsPaused \in [Devices -> BOOLEAN]
  /\ Paused \in [Devices -> 0..MaxPaused + 1]
  /\ pauseLock \in [Devices -> Actors \cup {NoActor}]
  /\ writer \in [Devices -> {"free", "pending", "held"}]
  /\ reader \in [Devices -> BOOLEAN]
  /\ fatal \in BOOLEAN
  /\ hpc \in [Devices -> {"recv", "acquire", "op", "release"}]
  /\ req \in [Devices -> VCPUs \cup {NoVCPU}]
  /\ step \in [Actors -> Nat]
  /\ idx \in [Actors -> 1..LongestLoop]
  /\ wait \in [Actors -> {"none", "vcpu", "relock", "device"}]
  /\ rpcMatch \subseteq Devices
  /\ guest \in {"pending", "ok", "failed"}
  /\ proc \in {"running", "exec", "dead"}
  /\ restarts \in 0..MaxRestarts
  /\ saveErr \in BOOLEAN
  /\ ioSince \subseteq VCPUs

SaveStep == 3
PausingSteps == {1, 2}

(* A vCPU that Loop started but that has not yet made its first pause     *)
(* check: with RunInfo.Running still false, Pause (run.go:118) does not   *)
(* wait for it; it will park at that check before it enters KVM_RUN.      *)
BeforeFirstCheck(v) == vpc[v] = "top" /\ ~is_running[v]

(* Every vCPU is parked on resume_event, or has not yet reached its first *)
(* pause check: none is in KVM_RUN or waiting for an I/O reply.           *)
VCPUsQuiet ==
  \A v \in VCPUs : vpc[v] \in {"resume_wait", "resume_relock"} \/ BeforeFirstCheck(v)

(* No IOHandler holds a device's read lock: none is inside a read or write *)
(* of the device (one blocked in Acquire has not touched it).              *)
DevicesQuiet == \A d \in Devices : ~reader[d]

(* No IOHandler holds a request either.                                    *)
NoRequestHeld == \A d \in Devices : hpc[d] = "recv"

(* Every save runs on quiescent state: when RPC.Reload's Save runs after   *)
(* VirtualMachine.Pause(false) and Model.Pause(false) returned, neither    *)
(* guest execution nor device state can change while it is saved; when     *)
(* restart's VCPUInfo reads the vCPUs after VM.Pause(false), no vCPU is    *)
(* in KVM_RUN or mid-I/O; when its DeviceInfo saves the devices after      *)
(* Model.Pause(false), no handler is in the middle of a device access.     *)
SnapshotQuiescent ==
  /\ step["snap"] = SaveStep => VCPUsQuiet /\ DevicesQuiet /\ NoRequestHeld
  /\ step["restart"] = VSaveStep => VCPUsQuiet
  /\ step["restart"] = DSaveStep => DevicesQuiet

(* A snapshot that has started pausing reaches its save: pausing the vCPUs *)
(* first, then the devices (the order io.go:67-69 prescribes), never waits *)
(* forever.                                                                *)
SnapshotCompletes ==
  step["snap"] \in PausingSteps ~> step["snap"] = SaveStep

(* A restart that has started pausing the vCPUs reaches VCPUInfo's reads, *)
(* and one that has started pausing the devices reaches DeviceInfo's save. *)
RestartSavesReached ==
  /\ step["restart"] = VSaveStep - 1 ~> step["restart"] = VSaveStep
  /\ step["restart"] = DSaveStep - 1 ~> step["restart"] = DSaveStep

(* Both, for the behaviours in which no RPC.Device request arrives and no  *)
(* snapshot overlaps a restart: with no manually paused device and no two  *)
(* automatic pauses of one device at once, nothing but the caller's own    *)
(* pauses holds a vCPU or a handler back.                                  *)
PausesCompleteAlone ==
  [](step["rpc"] = 0 /\ (step["snap"] = 0 \/ step["restart"] = 0))
    => SnapshotCompletes /\ RestartSavesReached

(* restart's SaveState is one instant of the machine: no vCPU's I/O       *)
(* completes between the vCPU states it saves and the device states it     *)
(* saves, so the new process neither repeats nor loses an access.          *)
RestartSavesOneInstant == step["restart"] = DSaveStep => ioSince = {}

(* main gets past its -paused calls and starts the RPC server and the vCPU *)
(* Loops.                                                                  *)
StartupCompletes == <>Serving
=============================================================================
