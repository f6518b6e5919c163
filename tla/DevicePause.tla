----------------------------- MODULE DevicePause -----------------------------
(***************************************************************************)
(* The pause/acquire contract of one device: BaseDevice.Pause, Unpause,    *)
(* Acquire and Release (src/kvm/device.go), driven by the callers the code *)
(* has:                                                                    *)
(*  - AutoCallers run Model.DeviceInfo (src/kvm/model.go): Pause(false),   *)
(*    save the device, then the deferred Unpause(false);                   *)
(*  - ManualCallers are RPC.Device requests (src/rpc/rpc_device.go), each  *)
(*    a Pause(true) or an Unpause(true), in any order;                     *)
(*  - Handlers are IOHandler.Run goroutines (src/kvm/io.go) that Acquire   *)
(*    the device around one read or write and Release it after.            *)
(* pauseLock is the sync.Mutex serialising Pause/Unpause; runLock is the   *)
(* sync.RWMutex, modelled with Go's semantics: a pending Lock blocks new   *)
(* RLocks, and Unlock of an unlocked RWMutex is a fatal runtime error.     *)
(***************************************************************************)
EXTENDS Naturals, FiniteSets

CONSTANTS
  AutoCallers,    \* goroutines running Model.DeviceInfo
  ManualCallers,  \* goroutines serving RPC.Device
  Handlers,       \* IOHandler goroutines of this device
  NoThread,       \* model value: nobody holds pauseLock
  MaxPaused       \* bound on the Paused counter (it can leak, see below)

ASSUME MaxPaused \in Nat \ {0}

Callers == AutoCallers \cup ManualCallers
Threads == Callers \cup Handlers

VARIABLES
  IsPaused,   \* BaseDevice.IsPaused: paused manually
  Paused,     \* BaseDevice.Paused: the automatic pause count
  pauseLock,  \* holder of BaseDevice.pauseLock, or NoThread
  writer,     \* runLock's writer side: "free", "pending" or "held"
  readers,    \* the Handlers holding runLock for reading
  fatal,      \* the runtime aborted: Unlock of an unlocked RWMutex
  pc          \* where each goroutine is

vars == <<IsPaused, Paused, pauseLock, writer, readers, fatal, pc>>

-----------------------------------------------------------------------------
(* runLock.Lock() as called inside Pause, with pauseLock still held: the   *)
(* writer is announced (new readers now block) and c waits for readers.    *)
(* If another Pause still write-holds it, c blocks until that is unlocked. *)
LockRunLock(c) ==
  /\ writer' = IF writer = "free" THEN "pending" ELSE writer
  /\ pauseLock' = c
  /\ pc' = [pc EXCEPT ![c] = "pause_wait"]

(* runLock.Unlock() inside Unpause; Go aborts if it is not write-locked.   *)
UnlockRunLock ==
  IF writer = "held" THEN writer' = "free" /\ UNCHANGED fatal
                     ELSE fatal' = TRUE /\ UNCHANGED writer

(* Pause(false): the first branch of the counter logic; note the second    *)
(* increment when the device is already paused.                            *)
AutoPause(c) ==
  /\ pc[c] = "idle"
  /\ pauseLock = NoThread
  /\ Paused < MaxPaused
  /\ IF Paused + 1 > 1 \/ IsPaused
       THEN /\ Paused' = Paused + 2
            /\ pc' = [pc EXCEPT ![c] = "paused"]
            /\ UNCHANGED <<writer, pauseLock>>
       ELSE /\ Paused' = Paused + 1
            /\ LockRunLock(c)
  /\ UNCHANGED <<IsPaused, readers, fatal>>

(* Pause(true): AlreadyPaused leaves everything unchanged.                 *)
ManualPause(c) ==
  /\ pc[c] = "idle"
  /\ pauseLock = NoThread
  /\ IF IsPaused
       THEN UNCHANGED <<IsPaused, writer, pauseLock, pc>>
       ELSE /\ IsPaused' = TRUE
            /\ IF Paused > 0
                 THEN UNCHANGED <<writer, pauseLock, pc>>
                 ELSE LockRunLock(c)
  /\ UNCHANGED <<Paused, readers, fatal>>

(* Mutant: Pause returns as soon as the writer is announced, without       *)
(* waiting for in-flight reads and writes to drain.                        *)
PauseAcquiredWithoutDrain(c) ==
  /\ pc[c] = "pause_wait"
  /\ writer = "pending"
  /\ writer' = "held"
  /\ pauseLock' = NoThread
  /\ pc' = [pc EXCEPT ![c] = IF c \in AutoCallers THEN "paused" ELSE "idle"]
  /\ UNCHANGED <<IsPaused, Paused, readers, fatal>>

(* runLock.Lock() returns once every reader has released; Pause returns    *)
(* and its deferred pauseLock.Unlock() runs.                               *)
PauseAcquired(c) ==
  /\ pc[c] = "pause_wait"
  /\ writer = "pending"
  /\ readers = {}
  /\ writer' = "held"
  /\ pauseLock' = NoThread
  /\ pc' = [pc EXCEPT ![c] = IF c \in AutoCallers THEN "paused" ELSE "idle"]
  /\ UNCHANGED <<IsPaused, Paused, readers, fatal>>

(* Mutant: a deferred Unpause(false) that also runs when the Pause it      *)
(* undoes never counted (the defer placed before the error check).         *)
AutoUnpauseUnmatched(c) ==
  /\ pc[c] \in {"idle", "paused"}
  /\ pauseLock = NoThread
  /\ Paused' = Paused - 1
  /\ IF Paused - 1 > 0 \/ IsPaused
       THEN UNCHANGED <<writer, fatal>>
       ELSE UnlockRunLock
  /\ pc' = [pc EXCEPT ![c] = "idle"]
  /\ UNCHANGED <<IsPaused, pauseLock, readers>>

(* Unpause(false), the deferred call of Model.DeviceInfo.                  *)
AutoUnpause(c) ==
  /\ pc[c] = "paused"
  /\ pauseLock = NoThread
  /\ Paused' = Paused - 1
  /\ IF Paused - 1 > 0 \/ IsPaused
       THEN UNCHANGED <<writer, fatal>>
       ELSE UnlockRunLock
  /\ pc' = [pc EXCEPT ![c] = "idle"]
  /\ UNCHANGED <<IsPaused, pauseLock, readers>>

(* Mutant: Unpause(true) without the NotPaused check.                      *)
ManualUnpauseUnchecked(c) ==
  /\ pc[c] = "idle"
  /\ pauseLock = NoThread
  /\ IsPaused' = FALSE
  /\ IF Paused > 0 THEN UNCHANGED <<writer, fatal>>
                   ELSE UnlockRunLock
  /\ UNCHANGED <<Paused, pauseLock, readers, pc>>

(* Unpause(true): NotPaused leaves everything unchanged.                   *)
ManualUnpause(c) ==
  /\ pc[c] = "idle"
  /\ pauseLock = NoThread
  /\ IF ~IsPaused
       THEN UNCHANGED <<IsPaused, writer, fatal>>
       ELSE /\ IsPaused' = FALSE
            /\ IF Paused > 0 THEN UNCHANGED <<writer, fatal>>
                             ELSE UnlockRunLock
  /\ UNCHANGED <<Paused, pauseLock, readers, pc>>

(* Mutant: RLock that only waits for a writer holding the lock, not for    *)
(* one waiting to take it, so a Pause can be starved by new readers.       *)
AcquireIgnoringPending(h) ==
  /\ pc[h] = "idle"
  /\ writer # "held"
  /\ readers' = readers \cup {h}
  /\ pc' = [pc EXCEPT ![h] = "busy"]
  /\ UNCHANGED <<IsPaused, Paused, pauseLock, writer, fatal>>

(* IOHandler.Run: Acquire() is runLock.RLock(), which blocks while a       *)
(* writer holds or waits for the lock.                                     *)
Acquire(h) ==
  /\ pc[h] = "idle"
  /\ writer = "free"
  /\ readers' = readers \cup {h}
  /\ pc' = [pc EXCEPT ![h] = "busy"]
  /\ UNCHANGED <<IsPaused, Paused, pauseLock, writer, fatal>>

(* The read or write is done and the reply sent: Release().                *)
Release(h) ==
  /\ pc[h] = "busy"
  /\ readers' = readers \ {h}
  /\ pc' = [pc EXCEPT ![h] = "idle"]
  /\ UNCHANGED <<IsPaused, Paused, pauseLock, writer, fatal>>

-----------------------------------------------------------------------------
Init ==
  /\ IsPaused = FALSE
  /\ Paused = 0
  /\ pauseLock = NoThread
  /\ writer = "free"
  /\ readers = {}
  /\ fatal = FALSE
  /\ pc = [t \in Threads |-> "idle"]

Next ==
  /\ ~fatal
  /\ \/ \E c \in AutoCallers : AutoPause(c) \/ AutoUnpause(c)
     \/ \E c \in ManualCallers : ManualPause(c) \/ ManualUnpause(c)
     \/ \E c \in Callers : PauseAcquired(c)
     \/ \E h \in Handlers : Acquire(h) \/ Release(h)

(* A device read or write finishes, and Go's RWMutex hands the lock to a   *)
(* waiting writer once the readers are gone; callers and new I/O requests  *)
(* are external and get no fairness.                                       *)
Fairness ==
  /\ \A h \in Handlers : WF_vars(Release(h))
  /\ \A c \in Callers : WF_vars(PauseAcquired(c))

Spec == Init /\ [][Next]_vars /\ Fairness

-----------------------------------------------------------------------------
TypeOK ==
  /\ IsPaused \in BOOLEAN
  /\ Paused \in 0..MaxPaused + 1
  /\ pauseLock \in Callers \cup {NoThread}
  /\ writer \in {"free", "pending", "held"}
  /\ readers \subseteq Handlers
  /\ fatal \in BOOLEAN
  /\ \A t \in Threads : pc[t] \in {"idle", "pause_wait", "paused", "busy"}

(* A manual Pause(true) has returned and its pause is still in force.      *)
ManualPauseInForce ==
  IsPaused /\ \A c \in ManualCallers : pc[c] # "pause_wait"

(* Stop-the-world: while any Pause has returned and is not yet undone, no  *)
(* IOHandler is inside a device read or write.  This is what lets          *)
(* Model.DeviceInfo call Save() on a device with I/O in flight elsewhere.  *)
StopTheWorld ==
  ((\E c \in AutoCallers : pc[c] = "paused") \/ ManualPauseInForce)
    => \A h \in Handlers : pc[h] # "busy"

(* Unpause never unlocks runLock when it is not write-locked (which Go     *)
(* turns into a fatal "Unlock of unlocked RWMutex" of the whole VMM).      *)
NoUnlockOfUnlocked == ~fatal

(* Every Pause that is waiting for in-flight I/O to drain returns.         *)
PauseTerminates ==
  \A c \in Callers : pc[c] = "pause_wait" ~> pc[c] # "pause_wait"

(* When no pause of either kind is outstanding and no Pause or Unpause is  *)
(* running, runLock is free, so I/O to the device can proceed: the device  *)
(* is Running exactly when the last pause is undone.                       *)
NoPauseOutstanding ==
  /\ ~IsPaused
  /\ \A c \in Callers : pc[c] \notin {"paused", "pause_wait"}

ReleasedWhenUnpaused ==
  NoPauseOutstanding => writer = "free"
=============================================================================
