------------------------------- MODULE PauseSpec ------------------------------
(***************************************************************************)
(* What pausing a vCPU promises, with no locks, signals or condition       *)
(* variables: the abstract specification VCPURun is shown to implement.   *)
(*                                                                         *)
(* A vCPU is parked or running.  An automatic pauser (Pause(false))        *)
(* first requests its pause; the request returns only once the vCPU is     *)
(* parked, and from then on the pause is held until the pauser undoes it.  *)
(* A manual pause (Pause(true)) is one flag that any RPC caller sets or    *)
(* clears.  The vCPU parks only while some pause is requested, held or     *)
(* set, and resumes only when none is.                                     *)
(***************************************************************************)
CONSTANT Pausers      \* the automatic pausers

VARIABLES
  pauses,   \* pausers whose pause is requested or held
  held,     \* pausers whose Pause has returned
  manual,   \* the manual pause flag
  parked    \* the vCPU is parked

vars == <<pauses, held, manual, parked>>

Outstanding == pauses # {} \/ manual

Init ==
  /\ pauses = {}
  /\ held = {}
  /\ manual = FALSE
  /\ parked = FALSE

(* A pauser asks; on a vCPU already parked its Pause returns at once.      *)
RequestPause(c) ==
  /\ c \notin pauses
  /\ pauses' = pauses \cup {c}
  /\ held' = IF parked THEN held \cup {c} ELSE held
  /\ UNCHANGED <<manual, parked>>

(* A requested pause returns, only while the vCPU is parked.               *)
PauseReturns(c) ==
  /\ c \in pauses \ held
  /\ parked
  /\ held' = held \cup {c}
  /\ UNCHANGED <<pauses, manual, parked>>

(* The pauser undoes its pause.                                            *)
Unpause(c) ==
  /\ c \in held
  /\ pauses' = pauses \ {c}
  /\ held' = held \ {c}
  /\ UNCHANGED <<manual, parked>>

SetManual   == manual' = TRUE  /\ UNCHANGED <<pauses, held, parked>>
ClearManual == manual' = FALSE /\ UNCHANGED <<pauses, held, parked>>

(* The vCPU parks only when asked to, and resumes only when nobody asks.   *)
Park   == ~parked /\ Outstanding  /\ parked' = TRUE  /\ UNCHANGED <<pauses, held, manual>>
Resume == parked /\ ~Outstanding /\ parked' = FALSE /\ UNCHANGED <<pauses, held, manual>>

Next ==
  \/ \E c \in Pausers : RequestPause(c) \/ PauseReturns(c) \/ Unpause(c)
  \/ SetManual \/ ClearManual \/ Park \/ Resume

(* A requested pause is eventually honoured and returned; an automatic     *)
(* pause is always undone (the callers defer their Unpause); a vCPU with   *)
(* nothing outstanding goes back to running.                               *)
Spec ==
  /\ Init /\ [][Next]_vars
  /\ WF_vars(Park) /\ WF_vars(Resume)
  /\ \A c \in Pausers : WF_vars(PauseReturns(c)) /\ WF_vars(Unpause(c))
=============================================================================
