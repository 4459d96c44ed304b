-------------------------- MODULE ClickHouseBackup --------------------------
(***************************************************************************)
(* The ClickHouseBackup controller: one worker that reconciles the         *)
(* ClickHouseBackup objects against a clickhouse-backup API server.        *)
(*                                                                         *)
(* One Reconcile is a sequence of steps of the worker, one per call it     *)
(* makes to the API server, to the resolver or to clickhouse-backup, so    *)
(* that edits, deletions, deliveries to the cache, the commands running on *)
(* the server and a crash fall between any two of them.                    *)
(***************************************************************************)
EXTENDS ApiObjects

CONSTANTS
    Within,       \* pairs <<b, c>> of Objects: the name b is contained in the commands run for c
    BadBackOff,   \* objects whose spec.exponentialBackOff does not parse
    MaxEdits,     \* bound on changes of an object made by its users
    MaxCrashes,   \* bound on restarts of the operator
    MaxFaults,    \* bound on updates that fail other than by a conflict
    MaxRows       \* bound on commands the clickhouse-backup server starts

ASSUME WithinAssumption ==
    /\ Within \subseteq Objects \X Objects
    /\ \A b \in Objects : <<b, b>> \in Within
ASSUME BadBackOffAssumption == BadBackOff \subseteq Objects
ASSUME BoundsAssumption == {MaxEdits, MaxCrashes, MaxFaults, MaxRows} \subseteq Nat

VARIABLES
    worker,     \* the Reconcile in progress
    expired,    \* objects older than their spec.exponentialBackOff.maxElapsedTime
    inbox,      \* commands accepted by clickhouse-backup, not yet started or refused
    rows,       \* the rows of /backup/status, oldest first
    local,      \* backups in the server's local storage
    remote,     \* backups in the server's remote storage
    gauge,      \* gauge[b]: values of label status the metric backups_operator_backups has for b
    budget      \* what is left of the bounds on edits, crashes and faults

serverVars == <<inbox, rows, local, remote>>
vars == <<apiVars, queue, worker, expired, serverVars, gauge, budget>>

-----------------------------------------------------------------------------
(* The two stages of a backup and the phases they move it through.         *)

Stages == {"create", "upload"}
Todo(s)      == IF s = "create" THEN "Started"      ELSE "Created"
Running(s)   == IF s = "create" THEN "Creating"     ELSE "Uploading"
Succeeded(s) == IF s = "create" THEN "Created"      ELSE "Completed"
Failed(s)    == IF s = "create" THEN "CreateFailed" ELSE "UploadFailed"

Phases == {"", "Started"} \cup
          UNION {{Running(s), Succeeded(s), Failed(s)} : s \in Stages}
Errors == {"", "request", "timeout", "server", "retry"}

(* A version of an object: life as far as deletion is concerned, whether   *)
(* the operator's finalizer is set, status.phase, whether                  *)
(* status.api.address is set, and the origin of status.error.              *)
Version == [life : {"absent", "live", "deleting"}, fin : BOOLEAN,
            phase : Phases, addr : BOOLEAN, error : Errors]

Absent == [life |-> "absent", fin |-> FALSE, phase |-> "",
           addr |-> FALSE, error |-> ""]
New    == [Absent EXCEPT !.life = "live"]

Commands == [op : Stages, name : Objects]
Rows     == [cmd : Commands, status : {"in progress", "success", "error"}]
Locations == {"local", "remote"}

(* The worker in a Reconcile also holds the stage it is in and the copies  *)
(* of the backup left to delete.                                           *)
SavePcs == {"finalize", "start", "resolved", "refused", "accepted", "timeout", "final"}
Pcs     == SavePcs \cup {"resolve", "post", "check", "poll", "list", "erase", "unfinalize"}
Work == [pc : Pcs, b : Objects, stage : Stages, obj : Version, rv : Nat \ {0},
         todo : SUBSET Locations]

(* What happens a bounded number of times.                                 *)
Bounded == {"edits", "crashes", "faults"}

TypeOK ==
    /\ versions \in [Objects -> Seq(Version)]
    /\ seen \in [Objects -> Nat \ {0}]
    /\ \A b \in Objects : seen[b] <= Len(versions[b])
    /\ queue \subseteq Objects
    /\ worker \in Work \cup {Idle}
    /\ worker # Idle => worker.rv <= Len(versions[worker.b])
    /\ expired \subseteq Objects
    /\ inbox \subseteq Commands
    /\ rows \in Seq(Rows)
    /\ local \subseteq Objects
    /\ remote \subseteq Objects
    /\ gauge \in [Objects -> SUBSET {"failed", "success"}]
    /\ budget \in [Bounded -> Nat]

Init ==
    /\ versions = [b \in Objects |-> <<Absent>>]
    /\ seen = [b \in Objects |-> 1]
    /\ queue = {}
    /\ worker = Idle
    /\ expired = {}
    /\ inbox = {}
    /\ rows = <<>>
    /\ local = {}
    /\ remote = {}
    /\ gauge = [b \in Objects |-> {}]
    /\ budget = [k \in Bounded |-> CASE k = "edits"   -> MaxEdits
                                     [] k = "crashes" -> MaxCrashes
                                     [] k = "faults"  -> MaxFaults]

Spend(what) ==
    /\ budget[what] > 0
    /\ budget' = [budget EXCEPT ![what] = @ - 1]

-----------------------------------------------------------------------------
(* The API server and its users.                                           *)

CreateObject(b) ==
    /\ Len(versions[b]) = 1
    /\ Store(b, New)
    /\ UNCHANGED <<seen, queue, worker, expired, serverVars, gauge, budget>>

(* A change of metadata or spec: the controller's next write conflicts.    *)
EditObject(b) ==
    /\ Exists(b)
    /\ Spend("edits")
    /\ Store(b, Stored(b))
    /\ UNCHANGED <<seen, queue, worker, expired, serverVars, gauge>>

DeleteObject(b) ==
    /\ Stored(b).life = "live"
    /\ Store(b, Deleted(Stored(b), Absent))
    /\ UNCHANGED <<seen, queue, worker, expired, serverVars, gauge, budget>>

(* The informer receives the next version and enqueues the object.         *)
Deliver(b) ==
    /\ seen[b] < Len(versions[b])
    /\ seen' = [seen EXCEPT ![b] = @ + 1]
    /\ queue' = queue \cup {b}
    /\ UNCHANGED <<versions, worker, expired, serverVars, gauge, budget>>

(* time.Since(CreationTimestamp) passes maxElapsedTime.                    *)
Expire(b) ==
    /\ b \notin expired
    /\ Exists(b)
    /\ expired' = expired \cup {b}
    /\ UNCHANGED <<apiVars, queue, worker, serverVars, gauge, budget>>

(* The operator stops anywhere and starts again: the queue and the metrics *)
(* are lost, the informer lists the objects afresh.                        *)
Crash ==
    /\ Spend("crashes")
    /\ worker' = Idle
    /\ seen' = [b \in Objects |-> Len(versions[b])]
    /\ queue' = {b \in Objects : Exists(b)}
    /\ gauge' = [b \in Objects |-> {}]
    /\ UNCHANGED <<versions, expired, serverVars>>

-----------------------------------------------------------------------------
(* The clickhouse-backup server.                                           *)

StartCommand(c) ==
    /\ c \in inbox
    /\ Len(rows) < MaxRows
    /\ inbox' = inbox \ {c}
    /\ rows' = Append(rows, [cmd |-> c, status |-> "in progress"])
    /\ UNCHANGED <<apiVars, queue, worker, expired, local, remote, gauge, budget>>

(* The command never starts: the server is busy, or has restarted.         *)
RefuseCommand(c) ==
    /\ c \in inbox
    /\ inbox' = inbox \ {c}
    /\ UNCHANGED <<apiVars, queue, worker, expired, rows, local, remote, gauge, budget>>

FinishCommand(i) ==
    LET c == rows[i].cmd
        feasible == IF c.op = "create" THEN c.name \notin local ELSE c.name \in local
    IN  /\ rows[i].status = "in progress"
        /\ \/ /\ feasible
              /\ rows' = [rows EXCEPT ![i].status = "success"]
              /\ IF c.op = "create"
                   THEN local' = local \cup {c.name} /\ UNCHANGED remote
                   ELSE remote' = remote \cup {c.name} /\ UNCHANGED local
           \/ /\ rows' = [rows EXCEPT ![i].status = "error"]
              /\ UNCHANGED <<local, remote>>
        /\ UNCHANGED <<apiVars, queue, worker, expired, inbox, gauge, budget>>

-----------------------------------------------------------------------------
(* Writes of the worker, and how a Reconcile ends.                         *)

At(pc) == worker.pc = pc

(* The update of the object to v is stored and answered.                   *)
Saved(v) == Fresh(worker) /\ Put(worker.b, v) /\ UNCHANGED budget

(* The update fails: a conflict or a missing object, a lost request, or a  *)
(* request that was carried out and whose answer is lost.                  *)
NotSaved(v) ==
    \/ ~Fresh(worker) /\ UNCHANGED <<versions, budget>>
    \/ Spend("faults") /\ (UNCHANGED versions \/ (Fresh(worker) /\ Put(worker.b, v)))

(* ReturnNil, were only failures reported.                                 *)
ReturnNilMutant == worker' = Idle /\ UNCHANGED <<queue, gauge>>

(* Reconcile returns nil, and reports the object as a success.             *)
ReturnNil ==
    /\ worker' = Idle
    /\ gauge' = [gauge EXCEPT ![worker.b] = @ \cup {"success"}]
    /\ UNCHANGED queue

(* ReturnErr, were the error not returned.                                 *)
ReturnErrMutant ==
    /\ worker' = Idle
    /\ gauge' = [gauge EXCEPT ![worker.b] = @ \cup {"failed"}]
    /\ UNCHANGED queue

(* Reconcile returns an error and reports a failure: the object is queued  *)
(* again.                                                                  *)
ReturnErr ==
    /\ worker' = Idle
    /\ gauge' = [gauge EXCEPT ![worker.b] = @ \cup {"failed"}]
    /\ queue' = queue \cup {worker.b}

(* Enter, were a stage that succeeded checked again.                       *)
EnterMutant(w, s) ==
    [w EXCEPT !.stage = s,
              !.pc = CASE w.obj.phase = Todo(s)                       -> "post"
                       [] w.obj.phase \in {Running(s), Succeeded(s)} -> "check"
                       [] OTHER                                      -> "final"]

(* createClickHouseBackup and uploadClickHouseBackup look at the phase.    *)
Enter(w, s) ==
    [w EXCEPT !.stage = s,
              !.pc = CASE w.obj.phase = Todo(s)    -> "post"
                       [] w.obj.phase = Running(s) -> "check"
                       [] OTHER                    -> "final"]

(* Leave, were the upload started without a look at the phase.             *)
LeaveMutant(w) ==
    IF w.stage = "create"
      THEN worker' = [w EXCEPT !.stage = "upload", !.pc = "post"] /\ UNCHANGED <<queue, gauge>>
      ELSE ReturnNil

(* A stage returns nil: the upload follows the create.                     *)
Leave(w) ==
    IF w.stage = "create"
      THEN worker' = Enter(w, "upload") /\ UNCHANGED <<queue, gauge>>
      ELSE ReturnNil

Goto(w) == worker' = w /\ UNCHANGED <<queue, gauge>>

(* Retry, were its error not returned.                                     *)
RetryMutant == worker' = Idle /\ UNCHANGED <<queue, gauge>>

(* DeleteClickHouseBackupObject failed: no metric changes.                 *)
Retry ==
    /\ worker' = Idle
    /\ queue' = queue \cup {worker.b}
    /\ UNCHANGED gauge

-----------------------------------------------------------------------------
(* Reconcile and ProccessClickHouseBackupObject.                           *)

(* DeletePc, were the data of every backup deleted with it.                *)
DeletePcMutant(w) == "list"

(* Only the data of a backup that was not created is deleted.              *)
DeletePc(w) == IF w.obj.phase = "CreateFailed" THEN "list" ELSE "unfinalize"

Reconcile(b) ==
    LET w == [pc |-> "finalize", b |-> b, stage |-> "create",
              obj |-> Cached(b), rv |-> seen[b], todo |-> {}]
    IN  /\ worker = Idle
        /\ b \in queue
        /\ queue' = queue \ {b}
        /\ worker' =
             CASE w.obj.life = "absent" -> Idle
               [] w.obj.life = "deleting" -> [w EXCEPT !.pc = DeletePc(w)]
               [] w.obj.life = "live" /\ w.obj.phase = "" ->
                    IF w.obj.fin
                      THEN [w EXCEPT !.pc = "start", !.obj.phase = "Started"]
                      ELSE [w EXCEPT !.obj.fin = TRUE]
               [] OTHER -> Enter(w, "create")
        /\ UNCHANGED <<apiVars, expired, serverVars, gauge, budget>>

(* Every update of the object between two calls, and what follows it.      *)
AfterSave(w) ==
    \/ At("finalize") /\ Goto([w EXCEPT !.pc = "start", !.obj.phase = "Started"])
    \/ At("start") /\ Goto([w EXCEPT !.pc = "resolve"])
    \/ At("resolved") /\ Goto(Enter(w, "create"))
    \/ At("refused") /\ ReturnErr
    \/ At("accepted") /\ Goto([w EXCEPT !.pc = "check"])
    \/ worker.pc \in {"timeout", "final"} /\ Leave(w)

Save ==
    /\ worker.pc \in SavePcs
    /\ Saved(worker.obj)
    /\ AfterSave([worker EXCEPT !.rv = NewRv(worker.b)])
    /\ UNCHANGED <<seen, expired, serverVars>>

(* SaveFails, were the error of an update ignored.                         *)
SaveFailsMutant ==
    /\ worker.pc \in SavePcs
    /\ NotSaved(worker.obj)
    /\ AfterSave(worker)
    /\ UNCHANGED <<seen, expired, serverVars>>

SaveFails ==
    /\ worker.pc \in SavePcs
    /\ NotSaved(worker.obj)
    /\ ReturnErr
    /\ UNCHANGED <<seen, expired, serverVars>>

(* spec.apiAddress is parsed and its host resolved once, after phase       *)
(* Started; it may fail for every object.                                  *)
Resolve ==
    /\ At("resolve")
    /\ \/ Goto([worker EXCEPT !.pc = "resolved", !.obj.addr = TRUE])
       \/ ReturnErr
    /\ UNCHANGED <<apiVars, expired, serverVars, budget>>

-----------------------------------------------------------------------------
(* createClickHouseBackup and uploadClickHouseBackup.                      *)

Command(w) == [op |-> w.stage, name |-> w.b]

(* FailedObj, were status.error not set.                                   *)
FailedObjMutant(w, error) == [w.obj EXCEPT !.phase = Failed(w.stage)]

(* The in-memory object after its stage failed.                            *)
FailedObj(w, error) ==
    [w.obj EXCEPT !.phase = Failed(w.stage), !.error = error]

(* Without an address there is no server to reach.                         *)
HasServer(w) == w.obj.addr

(* Any answer counts as acceptance, whatever its HTTP status; a failing    *)
(* request may have reached the server.  Nothing bounds these failures:    *)
(* the server may be gone.                                                 *)
Post ==
    LET refused == Goto([worker EXCEPT !.pc = "refused",
                                       !.obj = FailedObj(worker, "request")])
    IN  /\ At("post")
        /\ \/ /\ HasServer(worker)
              /\ inbox' = inbox \cup {Command(worker)}
              /\ Goto([worker EXCEPT !.pc = "accepted",
                                     !.obj.phase = Running(worker.stage)])
           \/ /\ HasServer(worker)
              /\ inbox' \in {inbox, inbox \cup {Command(worker)}}
              /\ refused
           \/ /\ ~HasServer(worker)
              /\ refused
              /\ UNCHANGED inbox
        /\ UNCHANGED <<apiVars, expired, rows, local, remote, budget>>

CheckDeadline ==
    /\ At("check")
    /\ IF worker.b \in BadBackOff
         THEN ReturnErr
         ELSE Goto(IF worker.b \in expired
                     THEN [worker EXCEPT !.pc = "timeout",
                                         !.obj = FailedObj(worker, "timeout")]
                     ELSE [worker EXCEPT !.pc = "poll"])
    /\ UNCHANGED <<apiVars, expired, serverVars, budget>>

(* LastRowIs, were a command in progress taken for a success.              *)
LastRowIsMutant(status) ==
    \E i \in DOMAIN rows :
        /\ <<worker.b, rows[i].cmd.name>> \in Within
        /\ \A j \in DOMAIN rows :
              j > i => <<worker.b, rows[j].cmd.name>> \notin Within
        /\ rows[i].status \in {status, "in progress"}

(* LastRowIs, were the rows of all commands kept.                          *)
AnyLastRowIsMutant(status) == rows # <<>> /\ rows[Len(rows)].status = status

(* GetStatus keeps the rows whose command contains the object's name; the  *)
(* last of them decides.                                                   *)
LastRowIs(status) ==
    \E i \in DOMAIN rows :
        /\ <<worker.b, rows[i].cmd.name>> \in Within
        /\ \A j \in DOMAIN rows :
              j > i => <<worker.b, rows[j].cmd.name>> \notin Within
        /\ rows[i].status = status

(* The server reports an error.  The row's error text is stored if it can  *)
(* be, then Retry's own error replaces it.                                 *)
PollError ==
    LET told  == FailedObj(worker, "server")
        final == [worker EXCEPT !.pc = "final", !.obj = FailedObj(worker, "retry")]
    IN  /\ At("poll")
        /\ LastRowIs("error")
        /\ \/ Saved(told) /\ Goto([final EXCEPT !.rv = NewRv(worker.b)])
           \/ NotSaved(told) /\ Goto(final)
        /\ UNCHANGED <<seen, expired, serverVars>>

(* The server reports success: polled again until the phase is stored.     *)
PollSuccess ==
    LET w == [worker EXCEPT !.obj.phase = Succeeded(worker.stage)]
    IN  /\ At("poll")
        /\ LastRowIs("success")
        /\ \/ Saved(w.obj) /\ Goto([w EXCEPT !.pc = "final", !.rv = NewRv(worker.b)])
           \/ NotSaved(w.obj) /\ Goto(w)
        /\ UNCHANGED <<seen, expired, serverVars>>

(* Retry stops after maxElapsedTime, whatever failed last.                 *)
GiveUp ==
    /\ At("poll")
    /\ Goto([worker EXCEPT !.pc = "final", !.obj = FailedObj(worker, "retry")])
    /\ UNCHANGED <<apiVars, expired, serverVars, budget>>

-----------------------------------------------------------------------------
(* DeleteClickHouseBackupObject: DeleteBackup, then the finalizer is       *)
(* removed from the copy of the object the cache has by then.              *)

NextErase(w, todo) ==
    [w EXCEPT !.todo = todo, !.pc = IF todo = {} THEN "unfinalize" ELSE "erase"]

(* An error of every Reconcile as long as spec.apiAddress does not parse,  *)
(* its host is not found, or the server does not answer with a list.       *)
ListBackups ==
    LET found == {l \in Locations :
                    worker.b \in (IF l = "local" THEN local ELSE remote)}
    IN  /\ At("list")
        /\ \/ Goto(NextErase(worker, found))
           \/ Retry
        /\ UNCHANGED <<apiVars, expired, serverVars, budget>>

(* A copy the server declines to delete, with an error status, counts as   *)
(* deleted.                                                                *)
Erase(l) ==
    /\ At("erase")
    /\ l \in worker.todo
    /\ \/ UNCHANGED <<local, remote>>
       \/ /\ local'  = IF l = "local"  THEN local \ {worker.b}  ELSE local
          /\ remote' = IF l = "remote" THEN remote \ {worker.b} ELSE remote
    /\ \/ Goto(NextErase(worker, worker.todo \ {l}))
       \/ Retry
    /\ UNCHANGED <<apiVars, expired, inbox, rows, budget>>

RemoveFinalizer ==
    LET b     == worker.b
        fresh == seen[b] = Len(versions[b])
        done  == worker' = Idle /\ UNCHANGED <<queue, gauge>>
    IN  /\ At("unfinalize")
        /\ \/ Cached(b).life = "absent" /\ done /\ UNCHANGED <<versions, budget>>
           \/ /\ Cached(b).life # "absent"
              /\ \/ fresh /\ Store(b, Absent) /\ done /\ UNCHANGED budget
                 \/ ~fresh /\ Retry /\ UNCHANGED <<versions, budget>>
                 \/ /\ Spend("faults")
                    /\ UNCHANGED versions \/ (fresh /\ Store(b, Absent))
                    /\ Retry
        /\ UNCHANGED <<seen, expired, serverVars>>

-----------------------------------------------------------------------------

WorkerStep ==
    \/ Save \/ SaveFails \/ Resolve
    \/ Post \/ CheckDeadline \/ PollError \/ PollSuccess
    \/ ListBackups \/ (\E l \in Locations : Erase(l)) \/ RemoveFinalizer

ServerStep ==
    \/ \E c \in inbox : StartCommand(c) \/ RefuseCommand(c)
    \/ \E i \in DOMAIN rows : FinishCommand(i)

Next ==
    \/ \E b \in Objects :
          \/ CreateObject(b) \/ EditObject(b) \/ DeleteObject(b)
          \/ Deliver(b) \/ Expire(b)
          \/ Reconcile(b)
    \/ Crash
    \/ ServerStep
    \/ WorkerStep \/ GiveUp

Spec == Init /\ [][Next]_vars

(* The informer and the worker run; a call ends; the queue serves every    *)
(* object in it; Retry stops.  Nothing is assumed of users, of the         *)
(* resolver or of the server.                                              *)
Fairness ==
    /\ WF_vars(WorkerStep)
    /\ WF_vars(GiveUp)
    /\ \A b \in Objects : WF_vars(Deliver(b)) /\ SF_vars(Reconcile(b))

FairSpec == Spec /\ Fairness

-----------------------------------------------------------------------------
(* Safety.                                                                 *)

Requested(op) == {c \in inbox \cup {rows[i].cmd : i \in DOMAIN rows} : c.op = op}

(* A backup reported as created is in the server's local storage, through  *)
(* lost answers, duplicated create commands, timeouts and restarts; this   *)
(* supposes that no backup's name is contained in another's.               *)
CreatedIsOnServer ==
    \A b \in Objects :
        Stored(b).phase \in {"Created", "Uploading", "UploadFailed", "Completed"}
            => b \in local

(* Once a backup is reported as CreateFailed no upload of it has been or   *)
(* will be requested, so that deleting its data removes no uploaded data.  *)
FailedCreateNotUploaded ==
    \A b \in Objects :
        Stored(b).phase = "CreateFailed" =>
            /\ b \notin remote
            /\ \A c \in Requested("upload") : c.name # b

(* The operator never asks the server for a thing it has not recorded the  *)
(* intention of: before a command reaches the server, a version of the     *)
(* object with the finalizer, the address of the server and the phase that *)
(* leads to the command has been stored.                                   *)
IntentBeforeCommand ==
    \A s \in Stages : \A c \in Requested(s) :
        \E i \in DOMAIN versions[c.name] :
            LET v == versions[c.name][i]
            IN  v.phase = Todo(s) /\ v.fin /\ v.addr

(* status.error explains exactly the phases that are failures.             *)
FailureIsExplained ==
    \A b \in Objects :
        Stored(b).error # "" <=> Stored(b).phase \in {Failed(s) : s \in Stages}

(* Data is deleted only for an object that was deleted as CreateFailed:    *)
(* never that of a backup that was created, whatever the cache shows.      *)
OnlyFailedErased ==
    [][\A b \in Objects :
          (b \in local /\ b \notin local') \/ (b \in remote /\ b \notin remote') =>
              \E i \in DOMAIN versions[b] :
                  /\ versions[b][i].life = "deleting"
                  /\ versions[b][i].phase = "CreateFailed"]_vars

(* The object keeps the promise of a backup: its phase follows the stages, *)
(* never leaves a final phase, is frozen by deletion, and an object whose  *)
(* processing began leaves through the finalizer.                          *)
PhaseEdges ==
    {<<"", "Started">>} \cup
    {<<Todo(s), Running(s)>> : s \in Stages} \cup
    {<<Todo(s), Failed(s)>> : s \in Stages} \cup
    {<<Running(s), Succeeded(s)>> : s \in Stages} \cup
    {<<Running(s), Failed(s)>> : s \in Stages}

Lifecycle == INSTANCE BackupLifecycle WITH
    Backups <- Objects,
    NoPhase <- "",
    Edges   <- PhaseEdges,
    life    <- [b \in Objects |-> Stored(b).life],
    phase   <- [b \in Objects |-> Stored(b).phase]

ImplementsLifecycle == Lifecycle!Spec

-----------------------------------------------------------------------------
(* Liveness.                                                               *)

FinalPhases == {"CreateFailed", "UploadFailed", "Completed"}

(* Every backup reaches a final phase unless it is deleted, also when its  *)
(* server is never found or never answers, and through every conflict,     *)
(* fault and restart; this supposes back-off settings that parse.          *)
EveryBackupEnds ==
    \A b \in Objects \ BadBackOff :
        Stored(b).life = "live" ~>
            (Stored(b).phase \in FinalPhases \/ Stored(b).life # "live")

(* A Reconcile of the deleted object b fails at the server's address, its  *)
(* list or a deletion of data.                                             *)
DataNotDeleted(b) == worker.pc \in {"list", "erase"} /\ worker.b = b /\ Retry

(* The finalizer holds up the deletion of an object that is not            *)
(* CreateFailed for no longer than conflicts and failing updates last,     *)
(* whatever has become of its server.  That of a CreateFailed one ends     *)
(* too, unless asking the server for its data fails again and again, as it *)
(* does for an address that does not parse or a server that is gone.       *)
EveryDeletionEnds ==
    \A b \in Objects :
        LET DeletionEnds(phases) ==
                Stored(b).life = "deleting" /\ Stored(b).phase \in phases
                    ~> Stored(b).life = "absent"
        IN  /\ DeletionEnds(Phases \ {"CreateFailed"})
            /\ DeletionEnds({"CreateFailed"}) \/ []<><<DataNotDeleted(b)>>_vars

(* "each backup object corresponds to one metric": a backup that is not    *)
(* deleted is reported at last, and again after a restart has lost the     *)
(* metrics, when nothing is left to be done for it.                        *)
EveryBackupReported ==
    \A b \in Objects :
        Stored(b).life = "live" ~> (gauge[b] # {} \/ Stored(b).life # "live")

-----------------------------------------------------------------------------
(* What the documentation says and the code does not do.                   *)

(* "Phase is current state of underlying operation": a backup whose phase  *)
(* is Completed is in remote storage.                                      *)
CompletedIsUploaded ==
    \A b \in Objects : Stored(b).phase = "Completed" => b \in remote
=============================================================================
