-------------------------- MODULE BackupLifecycle --------------------------
(***************************************************************************)
(* What a backup object promises to whoever reads it through the           *)
(* Kubernetes API, whatever happens inside the operator: a phase moves     *)
(* only along the edges of its kind, never once deletion was asked for,    *)
(* and an object whose processing has begun leaves only through a          *)
(* finalizer.                                                              *)
(*                                                                         *)
(* Both kinds of backup implement this specification; Edges is the         *)
(* relation between phases of the kind at hand.                            *)
(***************************************************************************)
EXTENDS Naturals

CONSTANTS
    Backups,   \* the names of the objects
    NoPhase,   \* the empty phase of a new object
    Edges      \* pairs <<p, q>>: the phase may go from p to q

VARIABLES
    life,      \* life[b]: "absent", "live" or "deleting" (deletionTimestamp set)
    phase      \* phase[b]: status.phase of the stored object

vars == <<life, phase>>

Init ==
    /\ life = [b \in Backups |-> "absent"]
    /\ phase = [b \in Backups |-> NoPhase]

Create(b) ==
    /\ life[b] = "absent"
    /\ life' = [life EXCEPT ![b] = "live"]
    /\ UNCHANGED phase

Advance(b) ==
    /\ life[b] = "live"
    /\ \E q \in {e[2] : e \in Edges} :
          /\ <<phase[b], q>> \in Edges
          /\ phase' = [phase EXCEPT ![b] = q]
    /\ UNCHANGED life

(* Deletion of an object nothing was done for takes effect at once.        *)
DeleteUntouched(b) ==
    /\ life[b] = "live"
    /\ phase[b] = NoPhase
    /\ life' = [life EXCEPT ![b] = "absent"]
    /\ UNCHANGED phase

RequestDeletion(b) ==
    /\ life[b] = "live"
    /\ life' = [life EXCEPT ![b] = "deleting"]
    /\ UNCHANGED phase

Finalize(b) ==
    /\ life[b] = "deleting"
    /\ life' = [life EXCEPT ![b] = "absent"]
    /\ phase' = [phase EXCEPT ![b] = NoPhase]

Next ==
    \E b \in Backups :
        \/ Create(b)
        \/ Advance(b)
        \/ DeleteUntouched(b)
        \/ RequestDeletion(b)
        \/ Finalize(b)

Spec == Init /\ [][Next]_vars
=============================================================================
