# TLA+ models of novm's pause and execution protocols

novm is a KVM-based VMM written in Go. This directory holds TLA+ models of
the parts of it whose correctness depends on concurrency: the pause/resume
rendezvous between vCPU goroutines, device I/O goroutines and the pausers
(the RPC server, state snapshots, register reads). It also models the
guest memory map, with the start-up sequence that builds and allocates
from it.

## The system and how its parts interact

- **vCPU goroutines** (`src/loop.go` `Loop`, `src/kvm/run.go` `VCPU.Run`).
  Each one repeatedly:
  - takes `RunInfo.lock`;
  - waits on `resume_event` while a pause is outstanding;
  - sets `is_running`;
  - enters `KVM_RUN`.
  It then dispatches the exit (`src/kvm/exits.go` `GetExitError`). PIO and
  MMIO exits go to the device model, and a debug exit is ignored. A shutdown
  exit ends the loop, and so does any error.
- **Pausers of a vCPU** (`VCPU.Pause/Unpause`). There are two kinds:
  - *automatic*, `Pause(false)`: a counter `paused`, used by `NewVCPUInfo`,
    `GetRegisters` and `VirtualMachine.Pause(false)` from `RPC.State`;
  - *manual*, `Pause(true)`: a flag `is_paused`, used by `RPC.VCPU`,
    `RPC.Pause` and `-paused`.
  A pauser of a running vCPU sends `SigVCPUInt`, which makes `KVM_RUN`
  return `EINTR`. It then waits on `pause_event` until the vCPU parks.
- **Device I/O goroutines** (`src/kvm/io.go` `IOHandler.Run`). One per
  handler, serving an `IOQueue` channel. Each read or write is bracketed by
  `Device.Acquire/Release`, an `RLock` on the device's `runLock`.
- **Memory map** (`src/machine/memory.go`). It is built at start-up:
  - each device's `Attach` calls `Reserve` (BIOS, ACPI, APIC, user
    memory), and `CreateDevices` stops at the first error, after which
    main calls `Die`;
  - the Linux loader (`src/linux/linux.go`, `linux_x86.go`) then places
    the command line, the initrd, the GDT, the page tables and the boot
    page with `Load`/`Allocate`, which probe page by page and claim a
    sub-range through `Map`.
- **I/O cache** (`src/kvm/io.go` `IOCache.Lookup`; `src/machine/cache.go`
  is a copy). Each PIO or MMIO exit looks its address up in a memo map
  `Memory`. On a miss it scans the handler tables for a range that
  contains the address and memoizes the result. It also counts the hits
  in a map `Hits`. All vCPU goroutines share the cache, and no lock
  protects it.
- **Pausers of a device** (`src/kvm/device.go` `BaseDevice.Pause/Unpause`).
  They use a counter `Paused` for automatic pauses (`Model.DeviceInfo`) and
  a flag `IsPaused` for manual ones (`RPC.Device`). The first pause
  write-locks `runLock` and the last unpause unlocks it, so that the device
  state can be saved with no I/O in flight.

`src/machine/` contains a second, partly diverging copy of the device, I/O
and memory code. Its `BaseDevice.Pause/Unpause` has the same logic, and the
DevicePause module covers both copies. main builds its devices with
`machine.NewModel`, so the running VMM uses `src/machine/device.go`,
`io.go` and `entry.go`. Machine's device and handler actions are therefore
mapped to that copy.

- **Register cache** (`src/kvm/registers.go`). Each vCPU caches the `regs`
  and `sregs` banks write-back:
  - `GetRegister`/`SetRegister` refresh a bank, with `KVM_GET_REGS` if it
    is not cached, and writes mark it dirty;
  - `flushAllRegs` writes dirty banks back with `KVM_SET_*` and forgets
    the cache.
  `Run` flushes only at the top of its loop (run.go:51). A vCPU woken from
  `resume_event` goes straight to `KVM_RUN`. With `-trace`, `Tracer.Trace`
  reads `regs` after every exit.
- **Loader register setup** (`src/linux/linux_x86.go` `SetupLinux`,
  called from `LoadLinux` before any Loop starts). It goes through the
  same cache: descriptors, `EFER`/`CR0`/`CR3`/`CR4`, the segments and
  `RIP`/`RSI`/`RFLAGS`, read-modify-write per field.
- **Supervisor** (`src/cmd/portal/main.go`). On SIGHUP, `restart` waits
  for the guest agent's `control.Ready()`, looks up its own binary, calls
  `SaveState` (the vCPUs' `VCPUInfo`, which pauses, reads and unpauses
  them, then `Model.DeviceInfo`, which does the same for the devices),
  writes the state file and `syscall.Exec`s itself. Every step's failure is
  only logged (main.go:296), and the VMM keeps running. `SaveState` is not
  in the repository; the model takes it as `VCPUInfo` then `DeviceInfo`,
  as the state file's fields are ordered.
- **RPC server** (`src/cmd/portal/server.go`). As written, `handle` reads
  a 9-byte header and compares it with the 11-byte `"PORTAL RUN\n"` and
  `"PORTAL RPC\n"`, so no request is ever dispatched. The models treat
  the RPC calls (`RPC.Device`, `RPC.VCPU`, `RPC.Reload`) as the callers
  they would be if the header were read correctly.

As written, `src/kvm/run.go` does not compile. `RunInfo` declares `Running`,
`Lock` and `Pauses`, while the methods use `is_running`, `lock`, `paused`,
`pause_event` and `resume_event`, and `Pause` reads `self.isRunning`. The
model follows the evident intent: one flag `is_running`, which `Run` clears
while parked and sets before `KVM_RUN`, and which `Pause` reads.

`VirtualMachine.NewVCPU` is missing, so nothing says whether `InitRunInfo`
runs. It would set `Running` to true, and the zero value is false. VCPURun
starts it true. Machine takes the value as the constant `InitRunning`, and
the two values lead to different bugs:

- With true (`MachineStartup.cfg`), start-up hangs: `CreateVCPUs`' `Load`
  calls `SetRegisters`, whose `Pause(false)` waits for a Loop that has not
  started. `StartupCompletes` fails in 2 states. The cfg is kept as a
  reproduction, not a run: a VMM that can never boot suggests the missing
  `NewVCPU` does not leave `Running` true, so the code does not settle
  this as a bug.
- With false (`Machine.cfg`), start-up completes. A pause before a vCPU's
  first pause check then returns without waiting (`BeforeFirstCheck`).

## Modules

| Module | Models | State | Actions |
|---|---|---|---|
| `DevicePause` | `BaseDevice.Pause/Unpause/Acquire/Release`, the bracket in `IOHandler.Run` | `IsPaused`, `Paused`, `pauseLock` holder, `runLock` as `writer` ∈ {free, pending, held} plus the set `readers`, `fatal` (Go's "Unlock of unlocked RWMutex"), `pc` per goroutine | `AutoPause`, `ManualPause`, `PauseAcquired` (runLock.Lock returns once readers drain), `AutoUnpause`, `ManualUnpause`, `Acquire`, `Release` |
| `VCPURun` | `VCPU.Run/Pause/Unpause`, `Loop`'s exit handling | `is_paused`, `paused`, `is_running`, `pauseWaiters` (the pause_event wait set), `sigPending`, the vCPU's `vpc` and `exit`, `pc` per pauser; the register cache: `kregs` (in KVM), `uregs` (the cached copy), `cached`, `dirty` per bank, where a bank's content is a base value and the set of loader fields written into it; the loader's call sequence `lcalls`, its position `lpc`, and the history `superseded` (the guest or a `SetRegisters` has replaced the loaded state) | `CheckPause` (with `flushAllRegs` at the top of Run) (the `for` loop at run.go:68 with its broadcast), `EnterKernel`, `RunInterrupted` (EINTR), `RunExit(e)`, `HandleExit`, `Pause(c, manual)`, `PauseReturn(c)`, `Unpause(c, manual)`, `GetRegisters(c)`, `SetRegisters(c, regs)`, `LoaderCall` (one `SetupLinux` accessor call: `GetRegister`, `SetRegister`, `Get/SetControlRegister`, `SetSegment`, `SetDescriptor`), `LoopStarts`; `KVM_RUN` may change `kregs`, and `HandleExit` does Trace's register read |
| `PauseSpec` | What a vCPU pause promises: the abstract spec | the automatic `pauses` requested and `held`, the `manual` flag, `parked` | `RequestPause`, `PauseReturns`, `Unpause`, `SetManual`, `ClearManual`, `Park`, `Resume` |
| `Machine` | The composition: `Loop`/`VCPU.Run` of each vCPU, `IOQueue.Submit` and `IOHandler.Run` per device, `BaseDevice.Pause/Unpause`, the loops of `VirtualMachine.Pause/Unpause` and `Model.Pause/Unpause`, main's start-up, `RPC.Reload`/`Model.DeviceInfo`, `RPC.Device` and the SIGHUP `restart` with the guest agent's answer | per vCPU the `RunInfo` fields, `vpc` and the device of its MMIO `exit`; per device `IsPaused`, `Paused`, `pauseLock`, `writer`, `reader`, the handler's `hpc` and `req`; per caller (`main`, `snap`, `rpc`, `restart`) its `step`, where main's program starts with each vCPU's `Load` bracket (`SetRegisters`' `Pause(false)`/`Unpause(false)`), in its program of calls, the `idx` of the vCPU or device its loop is at, and what it `wait`s on; the supervisor's `guest` answer, `proc` (running, exec'd or dead), `restarts`, `saveErr`, and the history `ioSince` (requests replied since the vCPU state was saved) | vCPU: `CheckPause`, `EnterKernel`, `RunInterrupted`, `RunExit(v, d)`, `Submit`; handler: `HandlerAcquire`, `HandlerReply`, `HandlerRelease`; callers: `CallVCPUPause`, `VCPUPauseReturn`, `CallVCPUUnpause`, `CallDevice`, `DevicePauseAcquired`, `Start`, `SnapBegin`, `Save`, `RPCDeviceBegin`; supervisor: `SignalRestart`, `GuestAnswers`, `Ready`, `Binary`, `VSave`, `DSave`, `Exec` (each with its failure), `Ended` |
| `VMPause` | `VirtualMachine.Pause/Unpause` with the rollback loop, the count and flag logic of `VCPU.Pause/Unpause` with a `kvm_run_interrupt` that may fail, `VirtualMachine.VCPUInfo`/`NewVCPUInfo`, `RPC.Pause`/`RPC.Unpause`, `RPC.VCPU` | per vCPU `is_paused`, `paused`, `is_running`; per caller (`info`, `rpc`, `vcpu`) its `pc` and loop `idx`; the histories `mowner` (who set each manual flag), `aheld` (whose automatic counts are in force) and `foreign` (a rollback removed another caller's pause) | `Pause(c)` (AlreadyPaused skipped, parked, wait, or interrupt failure), `PauseReturns(c)`, `Rollback(c)`, `ReadInfo`, `VMUnpause(c)`, `Park(v)`, `Resume(v)`, `Finished`. The vCPU only parks and resumes; the rendezvous is VCPURun's. |
| `IOCache` | `IOCache.Lookup`, `NewIOCache`, `MemoryRegion.Contains`, `Loop`'s exit to Lookup | `memory`, `hits`, the goroutines inside a mapassign on each map (`mwriter`, `hwriter`, the runtime's hashWriting flag), `fatal`, per vCPU its `pc`, `addr`, `handler`, the loaded count `tmp` and which `+= 1` it runs (`site`), the history `counted` | `Exit(v, a)`, `MemoRead`, `Scan`, `MemoAssignBegin/End`, `HitsAssignBegin/End`, `HitsStore`. `RaceOutcome` makes any access that meets a writer either abort or, because the flag is not atomic, go on. |
| `MemoryMap` | `MemoryRegion.End/Overlaps/Contains`, `MemoryMap.Conflicts/Add/Max/Reserve/Map/Allocate/Load`, `Pointer.After/OffsetFrom`, the attach loop of `CreateDevices` and the loader's calls | `regions` (the sorted map, each with its ledger `allocated` and whether its kernel mapping succeeded), `pending` reservations, the loader's `next` call, the Allocate loop in progress `call` (its cursor), the history `returned`, `phase` | `Reserve(rv)` (alignment, Conflicts, sorted Add, mapping that may fail), `StartLoad`, `Probe` (one loop iteration with its Map call: found, refused, nil, panic, or out of range) |

Each `MC*` module gives the constants small sets of model values.

Modelling choices:

- In DevicePause and VCPURun, a critical section under a mutex that does not block
  inside is one atomic step.
- `sync.Cond.Wait` is split at the release and the re-acquire of the lock,
  because other goroutines run between the two.
- Go's RWMutex is modelled with its real semantics:
  - a pending `Lock` blocks new `RLock`s;
  - a second `Lock` waits while the lock is write-held;
  - `Unlock` of an unlocked RWMutex aborts the process (`fatal`, after
    which nothing moves).
- MemoryMap scales addresses down to 6 bits with 4-byte pages. All
  pointer arithmetic is modulo 2^6, as it is modulo 2^64 in Go. The
  layout keeps every region below 36, so the only wrap-around is the one
  the code really makes: Allocate's cursor going below zero.
- The C helper `kvm_run` is absent from the repository. The model assumes
  that a signal sent between the unlock and the ioctl stays pending, so
  that `KVM_RUN` returns `EINTR`.

## Runs

| Run | cfg | Expect | Shows |
|---|---|---|---|
| device_pause | `DevicePause.cfg` | pass | `StopTheWorld`: while any returned pause is in force, no handler is inside a read or write. `NoUnlockOfUnlocked`: Unpause never unlocks a free runLock. `PauseTerminates`: every Pause waiting for readers returns. |
| vcpu_run | `VCPURun.cfg` | pass | The guest only produces MMIO and debug exits. `PausedMeansParked`: a returned, undone-not-yet pause means the vCPU is parked on resume_event. `AutoPauseTerminates`: every automatic pause returns. `ResumeAfterUnpause`: once no pause is left, the parked vCPU leaves its wait. `CacheCoherentWhileHeld`: while a pause is in force, every cached, clean register bank equals the one in KVM, so a pauser's `GetRegisters` never reads stale registers. `LoaderWritesKept`: until the guest or a `SetRegisters` replaces them, every field the loader has set is in the bank as the cache would refresh it, and once the vCPU is in `KVM_RUN` it is in KVM's copy, so no loader write is lost by a later refresh or an unflushed cache (the 32- and 64-bit call sequences and no kernel are all enumerated). `ImplementsPauseSpec`: VCPURun refines PauseSpec under the mapping at the end of VCPURun.tla (requested = counted by `Pause(false)`, held = returned, parked = `!is_running`). |
| vcpu_run_shutdown | `VCPURunShutdown.cfg` | violation | With shutdown and error exits, a Pause after `Loop` has returned waits forever: `is_running` is still true and nobody broadcasts. |
| vcpu_run_manual_race | `VCPURunManualRace.cfg` | violation | `Pause(true)` is followed by `Unpause(true)` from another RPC before the vCPU parks. The vCPU never parks, and the first caller's single `Wait` (run.go:127) never returns. |
| machine | `Machine.cfg` | pass | Two vCPUs do MMIO to one device while a snapshot (`RPC.Reload`), an `RPC.Device` request and one SIGHUP restart run. `InitRunning` is false and every vCPU is first loaded; the guest agent must answer before `restart` proceeds. `SnapshotQuiescent`: when the snapshot is saved, no handler holds a request or a read lock, and every vCPU is parked or has not yet made its first pause check (so it is neither in `KVM_RUN` nor waiting for I/O); when the restart reads the vCPUs they are quiet, and when it saves the devices no handler is inside a read or write. Pausing the vCPUs first is not enough on its own: a handler replies before it releases, so `Model.Pause` must still wait for the `Release`. `TypeOK` also bounds each device's pause count below by 0, which fails as soon as a manual `Unpause` takes the automatic branch. Machine takes `kvm_run_interrupt` to succeed; its failure, and the pauses a failed `VirtualMachine.Pause` leaves behind, are checked by VMPause (run vm_pause_rollback). `PausesCompleteAlone`: in the behaviours with no `RPC.Device` request and no snapshot overlapping the restart, the snapshot always reaches its save and the restart always reaches both of its reads, whatever I/O is in flight. |
| machine_restart | `MachineRestart.cfg` | violation | `RestartSavesOneInstant` fails in about 15k states. `restart` saves the vCPUs, unpauses them, and only then pauses and saves the devices. A vCPU's MMIO exit completed in between is in the device state and not in the vCPU state; the re-executed VMM repeats it. `RPC.Reload` keeps the whole VM paused across its save; `restart` does not. |
| vm_pause_rollback | `VMPauseRollback.cfg` | violation | `FailedPauseUndone` fails. `VCPU.Pause` sets the flag or count before `kvm_run_interrupt` and returns the errno without undoing it. `VirtualMachine.Pause`'s rollback starts at the vCPU before the failing one, and `VCPUInfo` returns before its deferred `Unpause`, so the failing vCPU parks for good although the caller got an error. TLC also reaches the second way: the rollback of `RPC.Pause` unpauses a vCPU that the loop skipped as `AlreadyPaused`, clearing `RPC.VCPU`'s pause while `RPC.VCPU` still waits for the vCPU to park, which it then never does. |
| iocache | `IOCache.cfg` | pass | Two vCPUs take three exits each, to the last byte of a two-byte range, to a one-byte range and to unassigned space. `LookupResolves`: every handler a lookup goes on with is the owner of the address, checked against a reference definition of "inside the declared range", and every memo entry names its owner. `HitsNeverOvercount`: lost updates of `Hits[addr] += 1` happen, but the count never exceeds the exits taken to the address. |
| iocache_map_race | `IOCacheMapRace.cfg` | violation | `NoMapFault` fails. Two vCPUs miss the memo for the same address. One is inside its `Memory[addr] = handler` when the other reads or assigns, and the Go runtime aborts the VMM. |
| memory_map | `MemoryMap.cfg` | pass | Covers every device attach order, with and without a misconfigured APIC page (which ends the VMM). `ReturnedChunksDisjoint`: the loader's chunks never overlap. `ReturnedInUserMemory`: they always lie in user memory. Allocate's termination is not a property here: with loads that fit, every loop ends by construction, and the one way it does not (the uint64 wrap) is the memory_map_initrd_too_big run. |
| memory_map_nested | `MemoryMapNested.cfg` | violation | `NoRegionOverlap` fails: an ACPI page strictly inside user RAM passes `Overlaps` (memory.go:70) and is added. |
| memory_map_initrd_too_big | `MemoryMapInitrdTooBig.cfg` | violation | `NoPanic` fails. An initrd that fits nowhere drives the top-down cursor from 0 to 2^64−PageSize. The probe there wraps, passes `Contains`, and `region.user[off:off+size]` panics, where the spec promises `MemoryNotFound`. |

`SnapshotCompletes` (in Machine) also fails when `RPC.Device` has paused
a device before a snapshot. A vCPU's exit to that device blocks in
`Submit` while the handler waits in `Acquire`. The snapshot's
`VirtualMachine.Pause(false)` then waits until someone unpauses the
device. No run keeps this, because the comment at io.go:67-69 already
says such a vCPU is unpausable. The machine run checks the restricted
form instead, `PausesCompleteAlone`.

The restriction also excludes a snapshot overlapping a restart. Both
pause the device with `Pause(false)`. The counts add 1+2 and the two
`Unpause(false)` calls take away 2, the device.go:103 asymmetry below,
so `runLock` stays write-held. The next vCPU exit to the device then
blocks, and so does every later pause that waits on that vCPU. Today that
overlap needs the RPC server, which cannot dispatch (see above), so the
leak is latent in this build.

`VCPURunStaleTrace.cfg` reproduces a stale register read of the tracer
(`TraceReadsCurrent` fails in 9 states). A pauser's `GetRegisters` caches
`regs` and unpauses. The vCPU resumes from `resume_event` without the
flush at the top of Run, so the cache survives. `KVM_RUN` changes the
registers, and Trace prints the stale cached copy. It is kept as a
reproduction, not a run, because its only effect is trace output.

`DevicePauseLeak.cfg` reproduces the device.go:103 asymmetry that the spec's
design notes already list. Two overlapping `Pause(false)` calls count 1+2,
and two `Unpause(false)` calls take away 2, so `runLock` stays write-held.
It violates `ReleasedWhenUnpaused`. It is not one of the runs, because the
discrepancy is already documented.

With `InitRunning` false, the Machine run also shows a window. A snapshot
that pauses a vCPU before its first pause check returns at once, and the
vCPU's `flushAllRegs` can race with the snapshot's register reads before
the vCPU parks. Machine does not model the register cache, so this race is
listed as a hazard, not a run.

The model also shows that Reserve is not all-or-nothing, as the spec
says it is. It calls `Add` before the kernel mapping and leaves the region
in the map when the mapping fails (memory.go:157). No run checks this,
because it has no consequence: the error makes `CreateDevices` return and
main calls `Die`. A model state with a region whose `mapped` is false is
always followed by `phase = "dead"`.

While building MemoryMap, the model also showed that Map's ledger check
(memory.go:197, `>=`) refuses a probe that ends exactly where an earlier
claim starts. A guest needs a spare page beyond its loads, which is why
`MCMemoryMap` gives RAM five pages for four one-page loads.

Each property of a passing run has a mutant in `PROJECT.json`: a
plausible bug of the mapped code, under which TLC finds the property
violated. The mutants are:

- the resume wait written with `if` rather than `for`;
- Pause returning before readers drain;
- no NotPaused check in Unpause;
- RLock ignoring a pending writer;
- only manual pausers sending the interrupt (in VCPURun and in Machine);
- `BaseDevice.Unpause` losing its `if manual` test, so that `RPC.Device`'s
  manual unpause decrements an automatic count it never raised;
- a loader `SetRegister` that does not mark the bank dirty;
- `flushAllRegs` keeping the cache valid;
- a Pause that does not wait for the vCPU to park (refinement);
- the "still paused?" test made on the old counts;
- a claim recorded at the guest address rather than the offset;
- the ledger check without its first clause;
- Map ignoring the region type;
- a missing return after the memo hit's `Hits[addr] += 1`, which falls
  through into the scan and counts the exit twice;
- `Contains` with its end test off by one.

### Bounds

- **DevicePause:**
  - 3 automatic pausers, 2 manual pausers and 3 handlers. This is enough
    for two overlapping automatic pauses during I/O, a manual pause mixed
    with automatic ones, and a pause waiting for two readers while a third
    reader tries to enter.
  - `MaxPaused = 8` bounds the counter, which can only grow through the
    leak.
- **VCPURun:**
  - 2 automatic and 2 manual pausers. This is enough for a second automatic
    pauser relying on the first one's signal, and for two RPC callers
    racing.
  - The exit sets are fixed in `MCVCPURun`.
  - Two register banks (`regs`, `sregs`) with base values {0, 1}. Two
    values are enough for `KVM_RUN` to change a bank, and two banks let a
    dirty `regs` and a clean `sregs` differ. The fields the loader writes
    are tracked by name (19 of them), so a lost loader write is seen
    whatever its value. The loader's call sequence is either the 64-bit
    or the 32-bit `SetupLinux` sequence, or empty. `Tracing` is a
    constant: on in the pass run and the stale-trace reproduction, and
    off in the two liveness-violation runs.
- **Machine:**
  - 2 vCPUs and, in `Machine.cfg`, 1 device. Both vCPUs send to the same handler (one queues behind the other), and the caller loops over vCPUs still block on the second element while the first is paused. Two devices with all four callers grow past 700k states without finishing in five minutes; `MachineRestart.cfg` (no `RPC.Device`) and `MachineStartup.cfg` use two.
- **VMPause:** 2 vCPUs and the three callers, one call each, with `RPC.VCPU` aimed at the first vCPU. Two vCPUs give the rollback a vCPU to undo, and the first vCPU is where `RPC.VCPU` and `RPC.Pause` meet. The failing interrupt is found at the second step.
  - One snapshot caller, one `RPC.Device` caller (matching any non-empty set of devices), one restart (`MaxRestarts = 1`), and main. `FreshBoot` makes the guest agent's answer pending at start, so `Ready` can fail; `MachineRestart.cfg` starts restored, with the answer already in.
  - `MaxPaused = 4` bounds a device's counter, which only grows through the device.go:103 leak.
  - The guest only makes MMIO exits. The other exits are VCPURun's subject.
- **IOCache:** 2 vCPUs with 3 exits each (94k states), and two devices
  on the ranges [1,2] and [3,3]. The addresses are 2 (the last byte of a
  range, where an off-by-one would bite), 3 (a one-byte range) and 4
  (unassigned). Three exits let a vCPU hit a memo that another one filled,
  and give two vCPUs several chances to increment the same count.
- **MemoryMap:**
  - The regions are one BIOS page, five pages of RAM, an ACPI page, the
    TSS and the reserved range up to the 32-bit boundary.
  - The configurations are with and without an APIC page that overlaps
    RAM.
  - There are four loader calls. The initrd is 1 or 2 pages, which
    sometimes fits and sometimes doesn't, and 5 pages in the panic run.

### Fairness

Only steps that the code performs by itself are fair:

- a handler finishing its read or write;
- the RWMutex handing the lock to the waiting writer;
- the vCPU goroutine's own steps;
- `KVM_RUN` returning EINTR for a pending signal;
- a woken pauser re-acquiring the lock;
- an automatic pauser's deferred `Unpause(false)`;
- in MemoryMap, every step: start-up is one goroutine running to the end;
- in Machine, a request already being served runs to its end: the snapshot's later calls (its unpauses are deferred) and the rest of an `RPC.Device` loop. main's steps are fair, and so are the handlers' steps.
- in Machine, a restart that has been signalled runs to its end (`WF` on its steps), because `restart` is one goroutine that does not wait on anything but the pauses it makes. Sending SIGHUP and the guest agent's answer are external and get no fairness.
- `Submit` is *strongly* fair. A vCPU blocked sending on a handler's channel is queued by the Go runtime, and blocked senders are served in order. Another vCPU sending to the same handler therefore cannot overtake it forever, which weak fairness would allow.

IOCache checks only invariants and assumes no fairness. `Halted` lets a
finished or aborted run stutter, so that the end is not reported as a
deadlock.

Callers that start a pause, manual unpauses and guest exits are external
and get no fairness. A guest may stay in `KVM_RUN` indefinitely, which is
why a pause must rely on the signal.

## Not yet modelled (plan for later work)

1. **Rollbacks of `Model.Pause/Unpause`.** VMPause models the rollback of
   `VirtualMachine.Pause`. model.go:94-96 uses the wrong variable and
   model.go:108 checks the wrong error, but neither branch can be taken:
   `BaseDevice.Pause` only fails with `DeviceAlreadyPaused`, which the
   loop tolerates, and `BaseDevice.Unpause` only fails with
   `DeviceNotPaused` from `Unpause(true)`, which nothing calls through
   `Model`. No device overrides `Pause`. The rollback of
   `VirtualMachine.Unpause` is dead for the same reason.
2. **Device refinement.** `VCPURun` refines `PauseSpec`. A device-side
   abstract spec, with `DevicePause` refining it, would need the leak
   fixed first: with the leak, the device never resumes.
3. **Eventfd promotion** (`src/machine/eventfd.go`, `src/kvm/eventfd.go`).
   `Handle` calls `save` only when a device returns `SaveIO`. The
   repository never defines that name (errors.go has `SaveIOErr`), and no
   device returns it, so the path is dead. If it is revived, the things to
   model are: the promotion after 100 hits, the goroutine that Waits and
   Submits, and `BoundEventFd.Close`, which recurses into itself.
4. **Supervisor vCPU errors** (`src/cmd/portal/main.go:271-303`): the
   `vcpu_err` bookkeeping. `restart()` on SIGHUP is modelled in Machine;
   the state file's encoding and `syscall.Exec` are one step each.
5. **Pure algorithms.** The 9P `pack.go` encoders write to a `Buffer`
   type that the repository does not define. A round-trip check needs it.
6. **The RPC server** (`src/rpc/server.go`). It cannot dispatch a request
   (the header length), and as written it does not compile (`header_buf`,
   `exitcode`/`exitCode`). Its `PORTAL RUN` session (a waiter, a reader and
   a writer goroutine on unbuffered channels, with the writer's `outputs`
   never received) would be the next module if the server were fixed.
7. **The I/O cache in `src/machine/cache.go`.** The running VMM looks up
   exits there (entry.go:43, 52). It has the same control as
   `kvm/io.go`'s `Lookup`, which IOCache's map names.
8. **Register cache in Machine.** Adding the cache to Machine would check
   the snapshot's register reads against the first-check window.

The KVM ioctl wrappers, the Linux loader's image parsing and the device
register emulation are sequential data handling. Their only concurrency
is the pause bracket already modelled.
