-------------------------- MODULE ScheduledBackups --------------------------
(***************************************************************************)
(* What the tasks of a schedule do when the cron runs them, composed with  *)
(* the Reconciles that register them (BackupSchedule) and with the backup  *)
(* objects they make and delete, seen as a schedule sees them: their phase *)
(* does not matter to it.                                                  *)
(*                                                                         *)
(* Both kinds of schedule have the same tasks.  Each run of a task is a    *)
(* goroutine of its own, outlives the entry it was started from and ends   *)
(* with the process.  A call of a task that fails is counted under a label *)
(* the counter does not have: that panics, and the process with it.        *)
(***************************************************************************)
EXTENDS BackupSchedule

CONSTANT MaxBackups   \* bound on the backups each schedule gives a name

ASSUME MaxBackupsAssumption == MaxBackups \in Nat

VARIABLES
    named,      \* named[b]: how many names schedule b has given
    backups,    \* backups[b][n]: the backup with the nth name b has given
    listed,     \* listed[b]: the backups of b in the informer cache
    jobs        \* the runs of tasks in progress

backupVars == <<named, backups, listed, jobs>>
taskVars == <<vars, backupVars>>

-----------------------------------------------------------------------------

(* A name is that of the schedule and the second the task runs in.         *)
Names == 1 .. MaxBackups

(* old: created longer ago than the retention of the schedule, which is    *)
(* known of a backup that is gone to whoever has it in a list.  Whether it *)
(* has the finalizer shows only when it is deleted.                        *)
Backup == [life : {"absent", "live", "deleting"}, old : BOOLEAN]
NoBackup  == [life |-> "absent", old |-> FALSE]
NewBackup == [life |-> "live", old |-> FALSE]

(* todo: the name of the backup to create, or what is left of the list of  *)
(* those that may have to be deleted.                                      *)
Job == [id : Nat \ {0}, task : {"create", "retain"}, b : Objects, todo : SUBSET Names]

(* No backup and no run in progress has a name that was not given, and     *)
(* every run has something left to do and was started from an entry of     *)
(* this process.                                                           *)
TasksTypeOK ==
    /\ TypeOK
    /\ named \in [Objects -> 0 .. MaxBackups]
    /\ backups \in [Objects -> [Names -> Backup]]
    /\ listed \in [Objects -> SUBSET Names]
    /\ jobs \subseteq Job
    /\ \A b \in Objects, n \in Names :
          n > named[b] => backups[b][n] = NoBackup /\ n \notin listed[b]
    /\ \A j \in jobs :
          /\ j.todo # {} /\ j.id < nextId
          /\ \A n \in j.todo : n <= named[j.b]

TasksInit ==
    /\ Init
    /\ named = [b \in Objects |-> 0]
    /\ backups = [b \in Objects |-> [n \in Names |-> NoBackup]]
    /\ listed = [b \in Objects |-> {}]
    /\ jobs = {}

-----------------------------------------------------------------------------
(* The backups: their controller, their users and time.                    *)

Present(b, n) == backups[b][n].life # "absent"
Becomes(b, n, v) == backups' = [backups EXCEPT ![b][n] = v]

(* The deletion of a backup that is live: it waits for its finalizer, or   *)
(* its controller has not begun with it and it is gone.                    *)
Removed(v) == IF v.life = "live" THEN {[v EXCEPT !.life = l] : l \in {"absent", "deleting"}}
                                 ELSE {v}

(* The controller of backups takes its finalizer away.                     *)
Finalize(b, n) ==
    /\ backups[b][n].life = "deleting"
    /\ Becomes(b, n, [backups[b][n] EXCEPT !.life = "absent"])
    /\ UNCHANGED <<vars, named, listed, jobs>>

(* Users delete backups; so does the garbage collector of Kubernetes, once *)
(* the schedule that owns them is gone.                                    *)
DeleteBackup(b, n) ==
    /\ backups[b][n].life = "live"
    /\ \E v \in Removed(backups[b][n]) : Becomes(b, n, v)
    /\ UNCHANGED <<vars, named, listed, jobs>>

(* Time passes for all, so that earlier backups are outdated earlier.      *)
GrowOld(b, n) ==
    /\ Present(b, n) /\ ~backups[b][n].old
    /\ \A m \in 1 .. n - 1 : Present(b, m) => backups[b][m].old
    /\ Becomes(b, n, [backups[b][n] EXCEPT !.old = TRUE])
    /\ UNCHANGED <<vars, named, listed, jobs>>

(* The informer is behind by the creation or the removal of a backup.      *)
DeliverBackup(b, n) ==
    /\ (n \in listed[b]) # Present(b, n)
    /\ listed' = [listed EXCEPT ![b] = IF Present(b, n) THEN @ \cup {n} ELSE @ \ {n}]
    /\ UNCHANGED <<vars, named, backups, jobs>>

-----------------------------------------------------------------------------
(* The registration of tasks, and what the start of a process does.        *)

(* What the cache has of the backups when a process begins to lead.        *)
ListsBackups == listed' = [b \in Objects |-> {n \in Names : backups'[b][n].life # "absent"}]

(* LeadsTasks, were the runs of the former leader to go on.                *)
LeadsTasksMutant == ListsBackups /\ UNCHANGED jobs

(* A process that begins to lead runs no task.                             *)
LeadsTasks == ListsBackups /\ jobs' = {}

Registration(step) ==
    /\ step
    /\ UNCHANGED <<named, backups>>
    /\ IF process' = process THEN UNCHANGED <<listed, jobs>> ELSE LeadsTasks

(* Nothing recovers a panic in a goroutine of the cron: the process ends   *)
(* and is started again, or the one that waits takes over.                 *)
Panic ==
    /\ latest' = IF latest = process THEN latest + 1 ELSE latest
    /\ starting' = (latest = process)
    /\ Leads
    /\ LeadsTasks

-----------------------------------------------------------------------------
(* The cron runs tasks.                                                    *)

Entries(b, task) == {e \in TasksOf(b) : e.task = task}

Run(e, todo) == [id |-> e.id, task |-> e.task, b |-> e.b, todo |-> todo]

(* The tasks that create backups are due in some second, which gives them  *)
(* all the same name.  They are done before they are due again.            *)
FireCreate(b) ==
    /\ \A j \in jobs : ~(j.b = b /\ j.task = "create")
    /\ named[b] < MaxBackups
    /\ \E due \in (SUBSET Entries(b, "create")) \ {{}} :
          jobs' = jobs \cup {Run(e, {named[b] + 1}) : e \in due}
    /\ named' = [named EXCEPT ![b] = @ + 1]
    /\ UNCHANGED <<vars, backups, listed>>

(* It is the hour of the tasks that delete outdated backups: each lists    *)
(* the backups in the cache and picks those its schedule owns.  They are   *)
(* done before the next hour.                                              *)
FireRetain(b) ==
    /\ \A j \in jobs : ~(j.b = b /\ j.task = "retain")
    /\ Entries(b, "retain") # {}
    /\ listed[b] # {}
    /\ jobs' = jobs \cup {Run(e, listed[b]) : e \in Entries(b, "retain")}
    /\ UNCHANGED <<vars, named, backups, listed>>

(* The call of a task fails, or its answer is lost: the end of the process.*)
CallFails(b, n, results) ==
    /\ Spend("faults")
    /\ \E v \in results \cup {backups[b][n]} : Becomes(b, n, v)
    /\ Panic

(* createBackupFunc.                                                       *)
CreateBackup(j) ==
    /\ j.task = "create"
    /\ \E n \in j.todo :
          \/ ~Present(j.b, n) /\ Becomes(j.b, n, NewBackup)
             /\ jobs' = jobs \ {j} /\ UNCHANGED <<vars, listed>>
          \/ ~Present(j.b, n) /\ CallFails(j.b, n, {NewBackup})
          \/ Present(j.b, n) /\ UNCHANGED <<backups, budget>> /\ Panic
    /\ UNCHANGED named

(* NextBackup, were the run over with the first backup of its list.        *)
NextBackupMutant(j, n) == jobs' = jobs \ {j}

(* The rest of the list of a run, or its end.                              *)
NextBackup(j, n) ==
    jobs' = (jobs \ {j}) \cup
            IF j.todo = {n} THEN {} ELSE {[j EXCEPT !.todo = @ \ {n}]}

(* removeOutdatedBackupsFunc, one backup of its list.                      *)
RemoveOutdated(j, n) ==
    LET v == backups[j.b][n]
    IN  /\ j.task = "retain" /\ n \in j.todo
        /\ \/ ~v.old
              /\ NextBackup(j, n) /\ UNCHANGED <<vars, backups, listed>>
           \/ v.old /\ Present(j.b, n) /\ \E r \in Removed(v) : Becomes(j.b, n, r)
              /\ NextBackup(j, n) /\ UNCHANGED <<vars, listed>>
           \/ v.old /\ Present(j.b, n) /\ CallFails(j.b, n, Removed(v))
           \/ v.old /\ ~Present(j.b, n) /\ UNCHANGED <<backups, budget>> /\ Panic
        /\ UNCHANGED named

-----------------------------------------------------------------------------

BackupStep(b, n) == Finalize(b, n) \/ DeleteBackup(b, n) \/ GrowOld(b, n)

JobStep(j) == CreateBackup(j) \/ \E n \in j.todo : RemoveOutdated(j, n)

TasksNext ==
    \/ Registration(Next)
    \/ \E b \in Objects : FireCreate(b) \/ FireRetain(b)
    \/ \E b \in Objects, n \in Names : BackupStep(b, n) \/ DeliverBackup(b, n)
    \/ \E j \in jobs : JobStep(j)

TasksSpec == TasksInit /\ [][TasksNext]_taskVars

(* In addition to the fairness of BackupSchedule: the cron runs the hourly *)
(* tasks, their calls end, and the informer of the backups runs.           *)
TasksFairness ==
    /\ WF_taskVars(Registration(SecondPasses))
    /\ \A c \in Controllers : WF_taskVars(Registration(WorkerStep(c)))
    /\ \A b \in Objects :
          /\ WF_taskVars(Registration(Deliver(b)))
          /\ SF_taskVars(Registration(Reconcile(b)))
          /\ WF_taskVars(FireRetain(b))
          /\ \A n \in Names : WF_taskVars(DeliverBackup(b, n))
    /\ WF_taskVars(\E j \in jobs : JobStep(j))

FairTasksSpec == TasksSpec /\ TasksFairness
-----------------------------------------------------------------------------
(* Properties.                                                             *)

(* Backups are made, and outdated ones deleted, only for a schedule that   *)
(* asked for it: in a version that was stored with the finalizer and a     *)
(* spec that parses, and that has a retention where backups are deleted.   *)
WasAsked(b, task) ==
    \E i \in DOMAIN versions[b] : AsksFor(task, versions[b][i])

RunsWereAsked ==
    /\ \A b \in Objects : named[b] > 0 => WasAsked(b, "create")
    /\ \A j \in jobs : WasAsked(j.b, j.task)

Kept(b)    == Stored(b).life = "live" /\ Valid(Stored(b).spec)
Retains(b) == Kept(b) /\ Stored(b).spec.retention = "good"

(* An outdated backup of a schedule that stays and has a retention is      *)
(* deleted at last, whatever calls fail, however often a failing task ends *)
(* the process, and from caches that are behind.                           *)
EventuallyRetired ==
    \A b \in Objects, n \in Names :
        backups[b][n].life = "live" /\ backups[b][n].old /\ Retains(b) ~>
            backups[b][n].life # "live" \/ ~Retains(b)

(* A schedule that stays and parses has a task that creates backups again  *)
(* after each panic.                                                       *)
EventuallyCreating ==
    \A b \in Objects :
        Kept(b) ~> Entries(b, "create") # {} \/ ~Kept(b)

(* What users are told, and the code does not keep: that a task which      *)
(* fails is counted, and nothing more.  The process ends only for causes   *)
(* from outside.                                                           *)
FailuresAreCounted ==
    [][process' # process => budget'["restarts"] # budget["restarts"]]_taskVars
=============================================================================
