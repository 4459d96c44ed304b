--------------------------- MODULE BackupSchedule ---------------------------
(***************************************************************************)
(* The two schedule controllers, ClickHouseBackupSchedule and              *)
(* DgraphBackupSchedule: the same Reconcile, one worker each, and one cron *)
(* for both.  Reconcile registers the tasks of a schedule in the cron,     *)
(* which lives and numbers its entries as long as the process does, and    *)
(* writes their ids into the schedule's status, which outlives it.         *)
(*                                                                         *)
(* An instant matters only for being before or after the start of a        *)
(* process: what is stored of it is 2p once process p runs, and 2p - 1 in  *)
(* the second in which it started.  A process that waits to be elected     *)
(* leader has started as well, and its time of start counts once it leads. *)
(***************************************************************************)
EXTENDS ApiObjects

CONSTANTS
    Controllers,    \* the schedule controllers
    ControllerOf,   \* the controller of every schedule
    Specs,          \* the specs users write
    MaxEdits,       \* bound on changes of a schedule made by its users
    LeaderElect,    \* whether the operator runs with --leader-elect
    MaxRestarts,    \* bound on processes started after the first
    MaxFaults,      \* bound on failing updates
    MaxExtra        \* bound on registrations that will have to be repeated

(* spec.schedule parses or not; spec.retention is absent, parses or not.   *)
AllSpecs == [schedule : {"good", "bad"}, retention : {"none", "good", "bad"}]

ASSUME ControllerAssumption == ControllerOf \in [Objects -> Controllers]
ASSUME SpecsAssumption == Specs \subseteq AllSpecs
ASSUME LeaderElectAssumption == LeaderElect \in BOOLEAN
ASSUME BoundsAssumption == {MaxEdits, MaxRestarts, MaxFaults, MaxExtra} \subseteq Nat

VARIABLES
    workers,    \* workers[c]: the Reconcile in progress of controller c
    cron,       \* the entries of the cron
    nextId,     \* the id of the next entry
    process,    \* the number of the process that leads
    latest,     \* the number of the last process: that one, or one that waits
    starting,   \* whether the second in which the last one started is not over
    budget      \* what is left of the bounds

cronVars == <<cron, nextId>>
processVars == <<process, latest, starting>>
vars == <<apiVars, queue, workers, cronVars, processVars, budget>>

-----------------------------------------------------------------------------

(* A version: metadata.generation and the spec; status.scheduleTaskId,     *)
(* retentionTaskId and activeGeneration; status.updatedTime.               *)
Version == [life : {"absent", "live", "deleting"}, fin : BOOLEAN,
            gen : Nat, spec : AllSpecs,
            createId : Nat, retainId : Nat, active : Nat, updated : Nat]

Absent == [life |-> "absent", fin |-> FALSE, gen |-> 0,
           spec |-> [schedule |-> "good", retention |-> "none"],
           createId |-> 0, retainId |-> 0, active |-> 0, updated |-> 0]
New(s) == [Absent EXCEPT !.life = "live", !.gen = 1, !.spec = s]

(* An entry runs its task with the object as it was when it was added.     *)
Entry == [id : Nat \ {0}, task : {"create", "retain"}, b : Objects, gen : Nat]

Pcs == {"finalize", "schedule", "retain", "status", "unfinalize"}
Work == [pc : Pcs, b : Objects, obj : Version, rv : Nat \ {0}]
Bounded == {"edits", "restarts", "faults", "extra"}

TypeOK ==
    /\ versions \in [Objects -> Seq(Version)]
    /\ seen \in [Objects -> Nat \ {0}]
    /\ \A b \in Objects : seen[b] <= Len(versions[b])
    /\ queue \subseteq Objects
    /\ workers \in [Controllers -> Work \cup {Idle}]
    /\ \A c \in Controllers : workers[c] # Idle =>
          /\ ControllerOf[workers[c].b] = c
          /\ workers[c].rv <= Len(versions[workers[c].b])
    /\ cron \subseteq Entry
    /\ nextId \in Nat \ {0}
    /\ \A e \in cron : e.id < nextId
    /\ process \in Nat \ {0}
    /\ latest \in {process, process + 1}
    /\ starting \in BOOLEAN
    /\ budget \in [Bounded -> Nat]

Init ==
    /\ versions = [b \in Objects |-> <<Absent>>]
    /\ seen = [b \in Objects |-> 1]
    /\ queue = {}
    /\ workers = [c \in Controllers |-> Idle]
    /\ cron = {}
    /\ nextId = 1
    /\ process = 1
    /\ latest = 1
    /\ starting = TRUE
    /\ budget = [k \in Bounded |-> CASE k = "edits"    -> MaxEdits
                                     [] k = "restarts" -> MaxRestarts
                                     [] k = "faults"   -> MaxFaults
                                     [] k = "extra"    -> MaxExtra]

Spend(what) ==
    /\ budget[what] > 0
    /\ budget' = [budget EXCEPT ![what] = @ - 1]

(* Stored times have whole seconds, StartedAt has not: a time stored in    *)
(* the second of the start is before it.                                   *)
StartedAt == 2 * process
Now       == IF starting THEN 2 * latest - 1 ELSE 2 * latest

-----------------------------------------------------------------------------
(* The API server and its users, the informers, time and restarts.         *)

CreateObject(b) ==
    /\ Len(versions[b]) = 1
    /\ \E s \in Specs : Store(b, New(s))
    /\ UNCHANGED <<seen, queue, workers, cronVars, processVars, budget>>

(* A change of the spec makes a generation, one of the metadata does not.  *)
EditObject(b) ==
    /\ Stored(b).life = "live"
    /\ Spend("edits")
    /\ \/ \E s \in Specs \ {Stored(b).spec} :
             Store(b, [Stored(b) EXCEPT !.spec = s, !.gen = @ + 1])
       \/ Store(b, Stored(b))
    /\ UNCHANGED <<seen, queue, workers, cronVars, processVars>>

DeleteObject(b) ==
    /\ Stored(b).life = "live"
    /\ Store(b, Deleted(Stored(b), Absent))
    /\ UNCHANGED <<seen, queue, workers, cronVars, processVars, budget>>

Deliver(b) ==
    /\ seen[b] < Len(versions[b])
    /\ seen' = [seen EXCEPT ![b] = @ + 1]
    /\ queue' = queue \cup {b}
    /\ UNCHANGED <<versions, workers, cronVars, processVars, budget>>

(* A resync, or an event of a backup the schedule owns.                    *)
Enqueue(b) ==
    /\ Cached(b).life # "absent"
    /\ queue' = queue \cup {b}
    /\ UNCHANGED <<apiVars, workers, cronVars, processVars, budget>>

SecondPasses ==
    /\ starting
    /\ starting' = FALSE
    /\ UNCHANGED <<apiVars, queue, workers, cronVars, process, latest, budget>>

(* What a process has when it begins to lead: an empty cron, a queue and a *)
(* cache of all there is.                                                  *)
Leads ==
    /\ workers' = [c \in Controllers |-> Idle]
    /\ seen' = [b \in Objects |-> Len(versions[b])]
    /\ queue' = {b \in Objects : Exists(b)}
    /\ cron' = {}
    /\ nextId' = 1
    /\ process' = latest'
    /\ UNCHANGED versions

(* A process is started once the one before has ended.                     *)
Restart ==
    /\ latest = process
    /\ Spend("restarts")
    /\ latest' = latest + 1
    /\ starting' = TRUE
    /\ Leads

(* A process is started while another one leads (a rolling update, a lease *)
(* that a second replica waits for): it takes its StartedAt, starts its    *)
(* cron and waits to be elected.                                           *)
StandBy ==
    /\ LeaderElect
    /\ latest = process
    /\ Spend("restarts")
    /\ latest' = latest + 1
    /\ starting' = TRUE
    /\ UNCHANGED <<apiVars, queue, workers, cronVars, process>>

(* The leader is gone and its lease has run out, which takes seconds: the  *)
(* process that waits is elected.                                          *)
TakeOver ==
    /\ latest # process
    /\ ~starting
    /\ UNCHANGED <<latest, starting, budget>>
    /\ Leads

-----------------------------------------------------------------------------
(* Writes of a worker, and how a Reconcile ends.                           *)

At(c, pc) == workers[c].pc = pc

(* Saved, were updates made without the resourceVersion of their copy.     *)
SavedMutant(w) == Put(w.b, w.obj) /\ UNCHANGED budget

Saved(w) == Fresh(w) /\ Put(w.b, w.obj) /\ UNCHANGED budget

NotSaved(w) ==
    \/ ~Fresh(w) /\ UNCHANGED <<versions, budget>>
    \/ Spend("faults") /\ (UNCHANGED versions \/ (Fresh(w) /\ Put(w.b, w.obj)))

Goto(c, w) == workers' = [workers EXCEPT ![c] = w] /\ UNCHANGED queue

Done(c) == Goto(c, Idle)

(* Retry, were the error not returned.                                     *)
RetryMutant(c) == Done(c)

(* Reconcile returns an error: the object is queued again.                 *)
Retry(c) ==
    /\ workers' = [workers EXCEPT ![c] = Idle]
    /\ queue' = queue \cup {workers[c].b}

-----------------------------------------------------------------------------
(* ScheduleTask: an entry with the id of the last one makes way for a new  *)
(* one.  A schedule that does not parse adds none.                         *)

(* Without, were the id of no entry looked for.                            *)
WithoutMutant(id) == cron

Without(id) == {e \in cron : e.id # id}

Added(task, w) == [id |-> nextId, task |-> task, b |-> w.b, gen |-> w.obj.gen]

(* ScheduleTask, were the id of an entry not new.                          *)
ScheduleTaskMutant(task, w, id) ==
    /\ cron' = Without(id) \cup {Added(task, w)}
    /\ UNCHANGED nextId

ScheduleTask(task, w, id) ==
    /\ cron' = Without(id) \cup {Added(task, w)}
    /\ nextId' = nextId + 1

-----------------------------------------------------------------------------
(* Reconcile.                                                              *)

(* IsNeedUpdate, were the start of the process not looked at.              *)
NeedsUpdateMutant(v) == v.gen # v.active

(* IsNeedUpdate(StartedAt)                                                 *)
NeedsUpdate(v) == v.gen # v.active \/ v.updated < StartedAt

(* A registration will have to be repeated: from a copy that is not the    *)
(* last, in the second of the start, or of a retention that does not parse.*)
Registers(b) == Cached(b).life = "live" /\ NeedsUpdate(Cached(b))
ToRepeat(b) ==
    Registers(b) /\ (seen[b] # Len(versions[b]) \/ Now < StartedAt \/
                     Cached(b).spec.retention = "bad")

Reconcile(b) ==
    LET c == ControllerOf[b]
        w == [pc |-> "finalize", b |-> b, obj |-> Cached(b), rv |-> seen[b]]
    IN  /\ workers[c] = Idle
        /\ b \in queue
        /\ queue' = queue \ {b}
        /\ workers' = [workers EXCEPT ![c] =
             CASE w.obj.life = "deleting" -> [w EXCEPT !.pc = "unfinalize"]
               [] Registers(b) -> IF w.obj.fin THEN [w EXCEPT !.pc = "schedule"]
                                               ELSE [w EXCEPT !.obj.fin = TRUE]
               [] OTHER -> Idle]
        /\ cron' = IF w.obj.life = "deleting" THEN Without(w.obj.createId) ELSE cron
        /\ IF ToRepeat(b) THEN Spend("extra") ELSE UNCHANGED budget
        /\ UNCHANGED <<apiVars, nextId, processVars>>

(* AddFinalizer, were its error not returned.                              *)
AddFinalizerMutant(c) ==
    LET w == workers[c]
    IN  /\ At(c, "finalize")
        /\ \/ Saved(w) /\ Goto(c, [w EXCEPT !.pc = "schedule", !.rv = NewRv(w.b)])
           \/ NotSaved(w) /\ Goto(c, [w EXCEPT !.pc = "schedule"])
        /\ UNCHANGED <<seen, cronVars, processVars>>

(* AddFinalizer.                                                           *)
AddFinalizer(c) ==
    LET w == workers[c]
    IN  /\ At(c, "finalize")
        /\ \/ Saved(w) /\ Goto(c, [w EXCEPT !.pc = "schedule", !.rv = NewRv(w.b)])
           \/ NotSaved(w) /\ Retry(c)
        /\ UNCHANGED <<seen, cronVars, processVars>>

(* The task that creates backups; then spec.retention is parsed.           *)
ScheduleCreate(c) ==
    LET w == workers[c]
        s == w.obj.spec
        v == [w.obj EXCEPT !.createId = nextId, !.active = w.obj.gen,
                           !.updated = Now]
    IN  /\ At(c, "schedule")
        /\ \/ /\ s.schedule = "bad"
              /\ cron' = Without(w.obj.createId)
              /\ Retry(c)
              /\ UNCHANGED nextId
           \/ /\ s.schedule = "good"
              /\ ScheduleTask("create", w, w.obj.createId)
              /\ CASE s.retention = "bad"  -> Retry(c)
                   [] s.retention = "good" -> Goto(c, [w EXCEPT !.pc = "retain", !.obj = v])
                   [] s.retention = "none" -> Goto(c, [w EXCEPT !.pc = "status", !.obj = v])
        /\ UNCHANGED <<apiVars, processVars, budget>>

(* ScheduleRetain, were it given the id of the other task.                 *)
ScheduleRetainMutant(c) ==
    LET w == workers[c]
    IN  /\ At(c, "retain")
        /\ ScheduleTask("retain", w, w.obj.createId)
        /\ Goto(c, [w EXCEPT !.pc = "status", !.obj.retainId = nextId])
        /\ UNCHANGED <<apiVars, processVars, budget>>

(* The hourly task that deletes outdated backups.                          *)
ScheduleRetain(c) ==
    LET w == workers[c]
    IN  /\ At(c, "retain")
        /\ ScheduleTask("retain", w, w.obj.retainId)
        /\ Goto(c, [w EXCEPT !.pc = "status", !.obj.retainId = nextId])
        /\ UNCHANGED <<apiVars, processVars, budget>>

UpdateStatus(c) ==
    LET w == workers[c]
    IN  /\ At(c, "status")
        /\ \/ Saved(w) /\ Done(c)
           \/ NotSaved(w) /\ Retry(c)
        /\ UNCHANGED <<seen, cronVars, processVars>>

(* RemoveFinalizeObjByName reads the object again.                         *)
RemoveFinalizer(c) ==
    LET b     == workers[c].b
        fresh == seen[b] = Len(versions[b])
    IN  /\ At(c, "unfinalize")
        /\ \/ Cached(b).life = "absent" /\ Done(c) /\ UNCHANGED <<versions, budget>>
           \/ /\ Cached(b).life # "absent"
              /\ \/ fresh /\ Store(b, Absent) /\ Done(c) /\ UNCHANGED budget
                 \/ ~fresh /\ Retry(c) /\ UNCHANGED <<versions, budget>>
                 \/ /\ Spend("faults")
                    /\ UNCHANGED versions \/ (fresh /\ Store(b, Absent))
                    /\ Retry(c)
        /\ UNCHANGED <<seen, cronVars, processVars>>

-----------------------------------------------------------------------------

WorkerStep(c) ==
    \/ AddFinalizer(c) \/ ScheduleCreate(c) \/ ScheduleRetain(c)
    \/ UpdateStatus(c) \/ RemoveFinalizer(c)

Next ==
    \/ \E b \in Objects :
          \/ CreateObject(b) \/ EditObject(b) \/ DeleteObject(b)
          \/ Deliver(b) \/ Enqueue(b) \/ Reconcile(b)
    \/ SecondPasses
    \/ Restart \/ StandBy \/ TakeOver
    \/ \E c \in Controllers : WorkerStep(c)

Spec == Init /\ [][Next]_vars

(* Time passes, the informers and the workers run, a call ends and the     *)
(* queues serve every object in them.  Nothing is assumed of users.        *)
Fairness ==
    /\ WF_vars(SecondPasses)
    /\ \A c \in Controllers : WF_vars(WorkerStep(c))
    /\ \A b \in Objects : WF_vars(Deliver(b)) /\ SF_vars(Reconcile(b))

FairSpec == Spec /\ Fairness
-----------------------------------------------------------------------------
(* Properties.  A schedule is settled once its status says that its tasks  *)
(* were registered, for its spec and in this process.                      *)

Settled(b) == Stored(b).life = "live" /\ ~NeedsUpdate(Stored(b))
Valid(s)   == s.schedule = "good" /\ s.retention # "bad"
TasksOf(b) == {e \in cron : e.b = b}

(* A settled schedule has in the cron the tasks its status names, and they *)
(* run what its present spec says (IsNeedUpdate lets Reconcile return, and *)
(* nothing else ever looks whether the tasks are there).  In the first     *)
(* process only: see ScheduledAfterRestart.                                *)
TasksRegistered(b) ==
    LET v == Stored(b)
    IN  Settled(b) =>
          /\ [id |-> v.createId, task |-> "create", b |-> b, gen |-> v.gen] \in cron
          /\ v.spec.retention = "good" =>
                [id |-> v.retainId, task |-> "retain", b |-> b, gen |-> v.gen] \in cron

SettledIsScheduled == process = 1 => \A b \in Objects : TasksRegistered(b)

(* In every process that was not started beside another one: the ids of a  *)
(* schedule that was registered in it hit no task of another schedule, so  *)
(* that only the first registration or the deletion of a schedule that was *)
(* not yet registered does harm (ScheduledAfterRestart).  A retention has  *)
(* an id of this process only if it was registered with the rest.          *)
NamesOwnCreate(b, v) ==
    \A e \in cron : e.id = v.createId => e.b = b /\ e.task = "create"

NamesOwnRetain(b, v) ==
    \A e \in cron : e.id = v.retainId => e.b = b /\ e.task = "retain"

RegisteredNamesOwn ==
    ~LeaderElect =>
        \A b \in Objects :
            /\ Stored(b).updated >= StartedAt => NamesOwnCreate(b, Stored(b))
            /\ Settled(b) /\ Stored(b).spec.retention = "good" =>
                  NamesOwnRetain(b, Stored(b))

(* While the process runs, a task leaves the cron only in a Reconcile of   *)
(* its own schedule: ids of one schedule never hit the task of another.    *)
(* In the first process only, as above.                                    *)
RemovesOwn ==
    \A e \in cron \ cron' :
        process' = 1 =>
            \E c \in Controllers :
                \/ workers[c] # Idle /\ workers[c].b = e.b /\ workers'[c] # workers[c]
                \/ workers[c] = Idle /\ workers'[c] # Idle /\ workers'[c].b = e.b

OnlyOwnTasksRemoved == [][RemovesOwn]_vars

(* The task that the status of a schedule names when it goes is not left   *)
(* in the cron, whatever edits, conflicts and restarts came before         *)
(* (Reconcile removes it ahead of the finalizer).                          *)
GoneTaskRemoved ==
    \A b \in Objects :
        Len(versions[b]) > 1 /\ ~Exists(b) =>
            LET last == versions[b][Len(versions[b]) - 1]
            IN  \A e \in TasksOf(b) : e.task = "create" => e.id # last.createId

(* What is in the cron was asked for: every entry, also one that outlives  *)
(* its spec or its schedule, is of a generation that was stored, with the  *)
(* finalizer and a spec that parses, and deletes backups only if that spec *)
(* has a retention.                                                        *)
AsksFor(task, v) ==
    /\ v.life = "live" /\ v.fin /\ v.spec.schedule = "good"
    /\ task = "retain" => v.spec.retention = "good"

TasksWereAsked ==
    \A e \in cron : \E i \in DOMAIN versions[e.b] :
        AsksFor(e.task, versions[e.b][i]) /\ versions[e.b][i].gen = e.gen

(* The object keeps the promise of a schedule.                             *)
Lifecycle == INSTANCE ScheduleLifecycle WITH
    Schedules <- Objects,
    life      <- [b \in Objects |-> Stored(b).life],
    gen       <- [b \in Objects |-> Stored(b).gen],
    active    <- [b \in Objects |-> Stored(b).active],
    settled   <- [b \in Objects |-> Settled(b)]

ImplementsLifecycle == Lifecycle!Spec

(* A schedule users leave alone with a spec that parses is settled at      *)
(* last, in every process, however its updates conflict.                   *)
EventuallySettled ==
    \A b \in Objects :
        Stored(b).life = "live" /\ Valid(Stored(b).spec) ~>
            Settled(b) \/ Stored(b).life # "live" \/ ~Valid(Stored(b).spec)

(* A schedule that users delete goes.                                      *)
EveryDeletionEnds == \A b \in Objects : Stored(b).life = "deleting" ~> ~Exists(b)

(* What users are told of a schedule, and the code does not keep.  That a  *)
(* settled schedule has its tasks in a later process too: the ids in the   *)
(* status of a schedule are those of a cron that is gone, and hit the      *)
(* tasks that other schedules have in the new one.                         *)
ScheduledAfterRestart == \A b \in Objects : TasksRegistered(b)

(* That a settled schedule is one of which the process that leads runs a   *)
(* task at all, be it another than its status names: what was registered   *)
(* by the former leader after the start of the present one counts as       *)
(* registered, and is in a cron that is gone.                              *)
SettledHasTask == \A b \in Objects : Settled(b) => TasksOf(b) # {}

(* That a settled schedule creates and deletes backups as its present spec *)
(* says, not as an earlier one: a task whose id never got into the status  *)
(* stays, and so does one that deletes backups by an age the spec no       *)
(* longer has.                                                             *)
OnlyPresentSpecRuns ==
    \A b \in Objects : Settled(b) => \A e \in TasksOf(b) : e.gen = Stored(b).gen
=============================================================================
