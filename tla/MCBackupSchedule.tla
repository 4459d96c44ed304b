-------------------------- MODULE MCBackupSchedule --------------------------
(* Instances of BackupSchedule for TLC.                                    *)
EXTENDS BackupSchedule, TLC

CONSTANTS
    s1,         \* the schedule that is a ClickHouseBackupSchedule
    clickhouse, \* its controller
    dgraph,     \* the controller of every other schedule
    MaxLag      \* bound on the versions an informer has not delivered

MCControllerOf == [b \in Objects |-> IF b = s1 THEN clickhouse ELSE dgraph]

(* The specs a run lets users write, when it is not all.                   *)
Parses  == {s \in AllSpecs : Valid(s)}
(* Of the specs whose schedule does not parse one is enough: Reconcile     *)
(* ends before it looks at the retention.                                  *)
Kinds   == {s \in AllSpecs : s.schedule = "bad" => s.retention = "none"}
Forever == {s \in Parses : s.retention = "none"}

(* The schedules that are handled alike: two, of different controllers, may *)
(* change places together with these.                                      *)
MCSwaps == {p \in Permutations(Objects \cup Controllers) :
               \A b \in Objects : p[b] \in Objects /\ ControllerOf[p[b]] = p[ControllerOf[b]]}

(* An edit or a restart, not both.                                         *)
MCOne == budget["edits"] + budget["restarts"] > 0

MCLag == \A b \in Objects : Len(versions[b]) - seen[b] <= MaxLag
=============================================================================
