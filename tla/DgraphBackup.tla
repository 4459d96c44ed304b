---------------------------- MODULE DgraphBackup ----------------------------
(***************************************************************************)
(* The DgraphBackup controller: one worker that asks Dgraph to export into *)
(* an S3 bucket, records the files of the export in the object and deletes *)
(* them when the object is deleted.                                        *)
(*                                                                         *)
(* Every export has a directory of its own, and an object records one of   *)
(* them.  A directory no object has ever recorded may stand for several.   *)
(***************************************************************************)
EXTENDS ApiObjects

CONSTANTS
    Public,       \* objects whose spec.secrets is empty
    MaxEdits,     \* bound on changes of an object made by its users
    MaxCrashes,   \* bound on restarts of the operator
    MaxFaults,    \* bound on failing calls, of S3 excepted
    Exports,      \* directories of exports
    NoExport      \* what an object records that has no exported files

ASSUME PublicAssumption == Public \subseteq Objects
ASSUME BoundsAssumption == {MaxEdits, MaxCrashes, MaxFaults} \subseteq Nat
ASSUME NoExportAssumption == NoExport \notin Exports

VARIABLES
    worker,     \* the Reconcile in progress
    secrets,    \* whether the secrets the objects name exist
    bucket,     \* the exports whose files are in the bucket
    gauge,      \* gauge[b]: values of label status the metric backups_operator_backups has for b
    budget      \* what is left of the bounds on edits, crashes and faults

vars == <<apiVars, queue, worker, secrets, bucket, gauge, budget>>

-----------------------------------------------------------------------------

Phases == {"", "Started", "Failed", "Completed"}

(* url: whether spec.adminUrl parses.  export: whose files                 *)
(* status.exportResponse lists.                                            *)
Version == [life : {"absent", "live", "deleting"}, fin : BOOLEAN, url : BOOLEAN,
            phase : Phases, export : Exports \cup {NoExport}]

Absent == [life |-> "absent", fin |-> FALSE, url |-> FALSE, phase |-> "",
           export |-> NoExport]
New(url) == [Absent EXCEPT !.life = "live", !.url = url]

SavePcs == {"finalize", "start", "failed", "response", "completed"}
Pcs == SavePcs \cup {"credentials", "export", "erase", "unfinalize"}
Work == [pc : Pcs, b : Objects, obj : Version, rv : Nat \ {0}]
Bounded == {"edits", "crashes", "faults"}

TypeOK ==
    /\ versions \in [Objects -> Seq(Version)]
    /\ seen \in [Objects -> Nat \ {0}]
    /\ \A b \in Objects : seen[b] <= Len(versions[b])
    /\ queue \subseteq Objects
    /\ worker \in Work \cup {Idle}
    /\ worker # Idle => worker.rv <= Len(versions[worker.b])
    /\ secrets \in BOOLEAN
    /\ bucket \subseteq Exports
    /\ gauge \in [Objects -> SUBSET {"failed", "success"}]
    /\ budget \in [Bounded -> Nat]

Init ==
    /\ versions = [b \in Objects |-> <<Absent>>]
    /\ seen = [b \in Objects |-> 1]
    /\ queue = {}
    /\ worker = Idle
    /\ secrets \in BOOLEAN
    /\ bucket = {}
    /\ gauge = [b \in Objects |-> {}]
    /\ budget = [k \in Bounded |-> CASE k = "edits"   -> MaxEdits
                                     [] k = "crashes" -> MaxCrashes
                                     [] k = "faults"  -> MaxFaults]

Spend(what) ==
    /\ budget[what] > 0
    /\ budget' = [budget EXCEPT ![what] = @ - 1]

-----------------------------------------------------------------------------
(* The API server and its users, the informer, and restarts.               *)

CreateObject(b) ==
    /\ Len(versions[b]) = 1
    /\ \E url \in BOOLEAN : Store(b, New(url))
    /\ UNCHANGED <<seen, queue, worker, secrets, bucket, gauge, budget>>

(* A change of metadata, or of spec.adminUrl.                              *)
EditObject(b) ==
    /\ Exists(b)
    /\ Spend("edits")
    /\ \E url \in BOOLEAN : Store(b, [Stored(b) EXCEPT !.url = url])
    /\ UNCHANGED <<seen, queue, worker, secrets, bucket, gauge>>

DeleteObject(b) ==
    /\ Stored(b).life = "live"
    /\ Store(b, Deleted(Stored(b), Absent))
    /\ UNCHANGED <<seen, queue, worker, secrets, bucket, gauge, budget>>

CreateSecrets ==
    /\ ~secrets
    /\ secrets' = TRUE
    /\ UNCHANGED <<apiVars, queue, worker, bucket, gauge, budget>>

Deliver(b) ==
    /\ seen[b] < Len(versions[b])
    /\ seen' = [seen EXCEPT ![b] = @ + 1]
    /\ queue' = queue \cup {b}
    /\ UNCHANGED <<versions, worker, secrets, bucket, gauge, budget>>

(* The operator stops anywhere and starts again: the queue and the metrics *)
(* are lost, the informer lists the objects afresh.                        *)
Crash ==
    /\ Spend("crashes")
    /\ worker' = Idle
    /\ seen' = [b \in Objects |-> Len(versions[b])]
    /\ queue' = {b \in Objects : Exists(b)}
    /\ gauge' = [b \in Objects |-> {}]
    /\ UNCHANGED <<versions, secrets, bucket>>

-----------------------------------------------------------------------------
(* Writes of the worker, and how a Reconcile ends.                         *)

At(pc) == worker.pc = pc

Saved(v) == Fresh(worker) /\ Put(worker.b, v) /\ UNCHANGED budget

NotSaved(v) ==
    \/ ~Fresh(worker) /\ UNCHANGED <<versions, budget>>
    \/ Spend("faults") /\ (UNCHANGED versions \/ (Fresh(worker) /\ Put(worker.b, v)))

Goto(w) == worker' = w /\ UNCHANGED <<queue, gauge>>

Reports(b, status) == gauge' = [gauge EXCEPT ![b] = @ \cup {status}]

(* Reconcile returns nil, and reports the object as a success.             *)
ReturnNil == worker' = Idle /\ Reports(worker.b, "success") /\ UNCHANGED queue

(* ReturnErr, were the error not returned.                                 *)
ReturnErrMutant == worker' = Idle /\ Reports(worker.b, "failed") /\ UNCHANGED queue

(* ReturnErr, were failures not reported.                                  *)
SilentReturnErrMutant == worker' = Idle /\ queue' = queue \cup {worker.b} /\ UNCHANGED gauge

(* Reconcile returns an error and reports a failure: the object is queued  *)
(* again.                                                                  *)
ReturnErr == worker' = Idle /\ queue' = queue \cup {worker.b} /\ Reports(worker.b, "failed")

(* A deletion ends.  The metrics stay: Delete is given three of their four *)
(* labels, which deletes none.                                             *)
Gone == worker' = Idle /\ UNCHANGED <<queue, gauge>>

(* Retry, were its error not returned.                                     *)
RetryMutant == Gone

(* DeleteDgraphBackupObject failed.                                        *)
Retry == worker' = Idle /\ queue' = queue \cup {worker.b} /\ UNCHANGED gauge

HasCredentials(b) == b \in Public \/ secrets

-----------------------------------------------------------------------------
(* Reconcile and ProccessDgraphBackupObject.                               *)

(* NeedsExport, were a completed export repeated.                          *)
NeedsExportMutant(v) == v.phase \in {"Started", "Completed"}

(* ProccessDgraphBackupObject exports only from phase Started.             *)
NeedsExport(v) == v.phase = "Started"

(* DeletePc, were only completed exports erased.                           *)
DeletePcMutant(v) == IF v.phase = "Completed" THEN "erase" ELSE "unfinalize"

(* The files of every object are deleted before its finalizer is removed.  *)
DeletePc(v) == "erase"

Reconcile(b) ==
    LET w == [pc |-> "finalize", b |-> b, obj |-> Cached(b), rv |-> seen[b]]
    IN  /\ worker = Idle
        /\ b \in queue
        /\ queue' = queue \ {b}
        /\ worker' =
             CASE w.obj.life = "deleting" -> [w EXCEPT !.pc = DeletePc(w.obj)]
               [] w.obj.life = "live" /\ w.obj.phase = "" ->
                    IF w.obj.fin
                      THEN [w EXCEPT !.pc = "start", !.obj.phase = "Started"]
                      ELSE [w EXCEPT !.obj.fin = TRUE]
               [] w.obj.life = "live" /\ NeedsExport(w.obj) ->
                    [w EXCEPT !.pc = "credentials"]
               [] OTHER -> Idle
        /\ IF w.obj.life = "live" /\ w.obj.phase \in {"Failed", "Completed"}
             THEN Reports(b, "success")
             ELSE UNCHANGED gauge
        /\ UNCHANGED <<apiVars, secrets, bucket, budget>>

AfterSave(w) ==
    \/ At("finalize") /\ Goto([w EXCEPT !.pc = "start", !.obj.phase = "Started"])
    \/ At("start") /\ Goto([w EXCEPT !.pc = "credentials"])
    \/ At("failed") /\ ReturnErr
    \/ At("response") /\ Goto([w EXCEPT !.pc = "completed", !.obj.phase = "Completed"])
    \/ At("completed") /\ ReturnNil

Save ==
    /\ worker.pc \in SavePcs
    /\ Saved(worker.obj)
    /\ AfterSave([worker EXCEPT !.rv = NewRv(worker.b)])
    /\ UNCHANGED <<seen, secrets, bucket>>

SaveFails ==
    /\ worker.pc \in SavePcs
    /\ NotSaved(worker.obj)
    /\ ReturnErr
    /\ UNCHANGED <<seen, secrets, bucket>>

(* What createDgraphBackup needs before it exports.                        *)
CanExport(b, v) == HasCredentials(b) /\ v.url

(* getCredentials reads the secrets of the object, getFQDN parses its      *)
(* adminUrl.  No error of theirs is stored: the phase stays Started.       *)
GetCredentials ==
    /\ At("credentials")
    /\ \/ /\ CanExport(worker.b, worker.obj)
          /\ Goto([worker EXCEPT !.pc = "export"])
          /\ UNCHANGED budget
       \/ ~CanExport(worker.b, worker.obj) /\ ReturnErr /\ UNCHANGED budget
       \/ Spend("faults") /\ ReturnErr
    /\ UNCHANGED <<apiVars, secrets, bucket>>

(* ExportFailed, were the error of the export ignored.                     *)
ExportFailedMutant(w, e) == [w EXCEPT !.pc = "response", !.obj.export = e]

ExportFailed(w, e) == [w EXCEPT !.pc = "failed", !.obj.phase = "Failed"]

Recorded == {v.export : v \in UNION {{versions[b][i] : i \in DOMAIN versions[b]} : b \in Objects}}

(* One mutation answers with the files once they are written; a failing    *)
(* request may have been carried out, and an export may have no files.     *)
(* Which unrecorded directory the export gets makes no difference.         *)
Export ==
    LET e == CHOOSE f \in Exports : f \notin Recorded
    IN  /\ At("export")
        /\ ~(Exports \subseteq Recorded)
        /\ \/ /\ bucket' = bucket \cup {e}
              /\ Goto([worker EXCEPT !.pc = "response", !.obj.export = e])
              /\ UNCHANGED budget
           \/ /\ Spend("faults")
              /\ UNCHANGED bucket
              /\ Goto([worker EXCEPT !.pc = "response", !.obj.export = NoExport])
           \/ /\ Spend("faults")
              /\ bucket' \in {bucket, bucket \cup {e}}
              /\ Goto(ExportFailed(worker, e))
        /\ UNCHANGED <<apiVars, secrets>>

-----------------------------------------------------------------------------
(* DeleteDgraphBackupObject.                                               *)

(* DeleteExport needs the files of an export.                              *)
CanErase(v) == v.export # NoExport

(* Credentials, then the export's directory: an error of either ends the   *)
(* Reconcile, and the files may be gone all the same.  Nothing bounds the  *)
(* errors of S3.                                                           *)
Erase ==
    /\ At("erase")
    /\ \/ /\ HasCredentials(worker.b) /\ CanErase(worker.obj)
          /\ bucket' = bucket \ {worker.obj.export}
          /\ Goto([worker EXCEPT !.pc = "unfinalize"])
       \/ /\ ~(HasCredentials(worker.b) /\ CanErase(worker.obj))
          /\ Retry
          /\ UNCHANGED bucket
       \/ /\ HasCredentials(worker.b) /\ CanErase(worker.obj)
          /\ bucket' \in {bucket, bucket \ {worker.obj.export}}
          /\ Retry
    /\ UNCHANGED <<apiVars, secrets, budget>>

RemoveFinalizer ==
    LET b     == worker.b
        fresh == seen[b] = Len(versions[b])
    IN  /\ At("unfinalize")
        /\ \/ Cached(b).life = "absent" /\ Gone /\ UNCHANGED <<versions, budget>>
           \/ /\ Cached(b).life # "absent"
              /\ \/ fresh /\ Store(b, Absent) /\ Gone /\ UNCHANGED budget
                 \/ ~fresh /\ Retry /\ UNCHANGED <<versions, budget>>
                 \/ /\ Spend("faults")
                    /\ UNCHANGED versions \/ (fresh /\ Store(b, Absent))
                    /\ Retry
        /\ UNCHANGED <<seen, secrets, bucket>>

-----------------------------------------------------------------------------

WorkerStep ==
    Save \/ SaveFails \/ GetCredentials \/ Export \/ Erase \/ RemoveFinalizer

Next ==
    \/ \E b \in Objects :
          \/ CreateObject(b) \/ EditObject(b) \/ DeleteObject(b)
          \/ Deliver(b) \/ Reconcile(b)
    \/ CreateSecrets
    \/ Crash
    \/ WorkerStep

Spec == Init /\ [][Next]_vars

(* The informer and the worker run, a call ends and the queue serves every *)
(* object in it.  Nothing is assumed of users or of S3.                    *)
Fairness ==
    /\ WF_vars(WorkerStep)
    /\ \A b \in Objects : WF_vars(Deliver(b)) /\ SF_vars(Reconcile(b))

FairSpec == Spec /\ Fairness

-----------------------------------------------------------------------------
(* Safety.                                                                 *)

(* The export a live object records stays in the bucket: no Reconcile      *)
(* started from a stale copy, no retried deletion and no other object      *)
(* erases it.                                                              *)
RecordedExportKept ==
    \A b \in Objects :
        Stored(b).life = "live" /\ Stored(b).export # NoExport => Stored(b).export \in bucket

(* An object that had been exported leaves only once the export it records *)
(* last has been erased, also when exports were repeated after a restart.  *)
GoneWithItsExport ==
    \A b \in Objects :
        Stored(b).life = "absent" =>
            \A i \in DOMAIN versions[b] :
                versions[b][i].life = "deleting" => versions[b][i].export \notin bucket

(* The object keeps the promise of a backup.                               *)
PhaseEdges == {<<"", "Started">>, <<"Started", "Failed">>, <<"Started", "Completed">>}

Lifecycle == INSTANCE BackupLifecycle WITH
    Backups <- Objects,
    NoPhase <- "",
    Edges   <- PhaseEdges,
    life    <- [b \in Objects |-> Stored(b).life],
    phase   <- [b \in Objects |-> Stored(b).phase]

ImplementsLifecycle == Lifecycle!Spec

-----------------------------------------------------------------------------
(* Liveness.                                                               *)

(* A backup whose secrets exist and whose adminUrl parses ends, exported   *)
(* or failed, unless it is deleted or its users spoil the adminUrl; also   *)
(* one whose adminUrl they have repaired while copies with the former one  *)
(* were still read.                                                        *)
EveryBackupEnds ==
    \A b \in Objects :
        Stored(b).life = "live" /\ CanExport(b, Stored(b)) ~>
            \/ Stored(b).phase \in {"Completed", "Failed"}
            \/ Stored(b).life # "live"
            \/ ~CanExport(b, Stored(b))

(* A Reconcile of the deleted object b has all that the deletion of its    *)
(* export needs, and fails to read the secrets or at S3.                   *)
ExportNotDeleted(b) ==
    At("erase") /\ worker.b = b /\ HasCredentials(b) /\ CanErase(worker.obj) /\ Retry

(* The deletion of an object that records an export, and whose secrets     *)
(* exist, ends, unless reading them or S3 fails again and again.           *)
ExportedDeletionEnds ==
    \A b \in Objects :
        \/ Stored(b).life = "deleting" /\ CanErase(Stored(b)) /\ HasCredentials(b) ~>
                Stored(b).life = "absent"
        \/ []<><<ExportNotDeleted(b)>>_vars

(* "each backup object corresponds to one metric": a backup that is not    *)
(* deleted is reported at last, and again after a restart has lost the     *)
(* metrics, when nothing is left to be done for it; also when its secrets  *)
(* never exist or its adminUrl does not parse.                             *)
EveryBackupReported ==
    \A b \in Objects :
        Stored(b).life = "live" ~> (gauge[b] # {} \/ Stored(b).life # "live")

(* "retention - lifetime of backup objects": the deletion of every object  *)
(* ends, unless S3 fails again and again.  The code does not do this:      *)
(* DeleteExport fails for ever on an object that records no export.        *)
EveryDeletionEnds ==
    \A b \in Objects :
        \/ Stored(b).life = "deleting" /\ HasCredentials(b) ~> Stored(b).life = "absent"
        \/ []<><<ExportNotDeleted(b)>>_vars
=============================================================================
