------------------------- MODULE MCScheduledBackups -------------------------
(* Instances of ScheduledBackups for TLC.                                  *)
EXTENDS ScheduledBackups, TLC

CONSTANTS
    s1,         \* the schedule
    clickhouse  \* its controller

MCControllerOf == [b \in Objects |-> clickhouse]

(* Specs that parse.                                                       *)
Parsing == {s \in AllSpecs : s.schedule = "good" /\ s.retention # "bad"}

(* Specs with a retention.                                                 *)
Rotating == {s \in AllSpecs : s.schedule = "good" /\ s.retention = "good"}
=============================================================================
