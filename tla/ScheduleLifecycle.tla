------------------------- MODULE ScheduleLifecycle -------------------------
(***************************************************************************)
(* What a schedule promises to whoever reads it through the Kubernetes     *)
(* API, whatever happens inside the operator: only users make generations, *)
(* what the operator records as active is the generation stored at that    *)
(* moment, a schedule is settled once and stays so until users or a new    *)
(* leader undo it, a schedule that is being deleted is frozen, and one     *)
(* whose tasks were ever recorded leaves only through a finalizer.         *)
(*                                                                         *)
(* Both kinds of schedule implement this specification, alone and composed *)
(* with the tasks the cron runs for them.                                  *)
(***************************************************************************)
EXTENDS Naturals

CONSTANT Schedules   \* the names of the objects

VARIABLES
    life,      \* life[b]: "absent", "live" or "deleting" (deletionTimestamp set)
    gen,       \* gen[b]: metadata.generation, which stands for the spec
    active,    \* active[b]: status.activeGeneration
    settled    \* settled[b]: whether nothing is to be registered for the schedule

vars == <<life, gen, active, settled>>

Init ==
    /\ life = [b \in Schedules |-> "absent"]
    /\ gen = [b \in Schedules |-> 0]
    /\ active = [b \in Schedules |-> 0]
    /\ settled = [b \in Schedules |-> FALSE]

Create(b) ==
    /\ life[b] = "absent"
    /\ life' = [life EXCEPT ![b] = "live"]
    /\ gen' = [gen EXCEPT ![b] = 1]
    /\ UNCHANGED <<active, settled>>

Edit(b) ==
    /\ life[b] = "live"
    /\ gen' = [gen EXCEPT ![b] = @ + 1]
    /\ settled' = [settled EXCEPT ![b] = FALSE]
    /\ UNCHANGED <<life, active>>

(* The tasks of the present generation are recorded.  The schedule is not  *)
(* settled by that in the second in which its process started.             *)
Register(b) ==
    /\ life[b] = "live"
    /\ ~settled[b]
    /\ active' = [active EXCEPT ![b] = gen[b]]
    /\ \E s \in BOOLEAN : settled' = [settled EXCEPT ![b] = s]
    /\ UNCHANGED <<life, gen>>

(* Deletion of a schedule that has no task takes effect at once.           *)
DeleteUntouched(b) ==
    /\ life[b] = "live"
    /\ active[b] = 0
    /\ life' = [life EXCEPT ![b] = "absent"]
    /\ gen' = [gen EXCEPT ![b] = 0]
    /\ settled' = [settled EXCEPT ![b] = FALSE]
    /\ UNCHANGED active

RequestDeletion(b) ==
    /\ life[b] = "live"
    /\ life' = [life EXCEPT ![b] = "deleting"]
    /\ settled' = [settled EXCEPT ![b] = FALSE]
    /\ UNCHANGED <<gen, active>>

Finalize(b) ==
    /\ life[b] = "deleting"
    /\ life' = [life EXCEPT ![b] = "absent"]
    /\ gen' = [gen EXCEPT ![b] = 0]
    /\ active' = [active EXCEPT ![b] = 0]
    /\ UNCHANGED settled

(* Another process leads: it has the tasks of all schedules to register    *)
(* but of those it takes for its own.                                      *)
NewLeader ==
    /\ \E kept \in SUBSET Schedules :
          settled' = [b \in Schedules |-> settled[b] /\ b \in kept]
    /\ UNCHANGED <<life, gen, active>>

Next ==
    \/ NewLeader
    \/ \E b \in Schedules :
          \/ Create(b) \/ Edit(b) \/ Register(b)
          \/ DeleteUntouched(b) \/ RequestDeletion(b) \/ Finalize(b)

Spec == Init /\ [][Next]_vars
=============================================================================
