----------------------- MODULE ClickHouseBackupSafety -----------------------
(* What the phase of a backup says of the clickhouse-backup server, proved *)
(* for every set of backups and every bound.                               *)
(*                                                                         *)
(* The invariant speaks of all versions of an object: the API server lets  *)
(* a phase move forward only, so that a version of long ago, the reason of *)
(* a command or of a deletion, still says something of the version that is *)
(* stored now.  The worker's copy is tied to the version it was made from. *)
EXTENDS ClickHouseBackupProofs

-----------------------------------------------------------------------------
(* The inductive invariant.                                                *)

CreatedPhases == {"Created", "Uploading", "UploadFailed", "Completed"}

Has(b, phase) == \E i \in DOMAIN versions[b] : versions[b][i].phase = phase

(* Processing begins with the finalizer, only failures are explained, and  *)
(* nothing is left of an object that is gone.                              *)
Sound(v) ==
    /\ v.life = "absent" => v.phase = ""
    /\ v.phase # "" => v.fin
    /\ v.error # "" <=> v.phase \in {Failed(s) : s \in Stages}

(* The versions of an object: a backup stays created, stays failed, and is *)
(* not brought back from its deletion.                                     *)
History(b) ==
    /\ versions[b][1] = Absent
    /\ \A i \in DOMAIN versions[b] : Sound(versions[b][i])
    /\ \A p \in CreatedPhases : Has(b, p) => Stored(b).phase \in CreatedPhases \/ ~Exists(b)
    /\ Has(b, "CreateFailed") => Stored(b).phase = "CreateFailed" \/ ~Exists(b)
    /\ \A i \in DOMAIN versions[b] :
          versions[b][i].life = "deleting" => Stored(b).life # "live"

(* The object in the worker's memory at each of its calls, given the       *)
(* version it was made from.                                               *)
CopyOf(w, base) ==
    LET s == w.stage
    IN  \/ w.pc = "finalize" /\ base.phase = "" /\ w.obj = [base EXCEPT !.fin = TRUE]
        \/ /\ w.pc = "start" /\ base.phase = "" /\ base.fin
           /\ w.obj = [base EXCEPT !.phase = "Started"]
        \/ w.pc = "resolve" /\ base.phase = "Started" /\ w.obj = base
        \/ w.pc = "resolved" /\ base.phase = "Started" /\ w.obj = [base EXCEPT !.addr = TRUE]
        \/ w.pc = "post" /\ base.phase = Todo(s) /\ w.obj = base
        \/ /\ w.pc = "refused" /\ base.phase = Todo(s)
           /\ w.obj = [base EXCEPT !.phase = Failed(s), !.error = "request"]
        \/ /\ w.pc = "accepted" /\ base.phase = Todo(s)
           /\ w.obj = [base EXCEPT !.phase = Running(s)]
        \/ w.pc = "check" /\ base.phase = Running(s) /\ w.obj = base
        \/ /\ w.pc = "timeout" /\ base.phase = Running(s)
           /\ w.obj = [base EXCEPT !.phase = Failed(s), !.error = "timeout"]
        \/ /\ w.pc = "poll" /\ base.phase = Running(s)
           /\ w.obj \in {base, [base EXCEPT !.phase = Succeeded(s)]}
        \/ w.pc = "final" /\ w.obj = base
        \/ /\ w.pc = "final" /\ base.phase \in {Running(s), Failed(s)}
           /\ w.obj = [base EXCEPT !.phase = Failed(s), !.error = "retry"]

Copy(w) ==
    LET base == versions[w.b][w.rv]
    IN  \/ base.life = "live" /\ CopyOf(w, base)
        \/ w.pc \in {"list", "erase"} /\ base.life = "deleting" /\ base.phase = "CreateFailed"
        \/ w.pc = "unfinalize" /\ base.life = "deleting"

(* What is on the server was created, and a created backup is on the       *)
(* server unless it was deleted as failed.                                 *)
OnServer ==
    /\ \A b \in remote : Has(b, "Created")
    /\ \A i \in DOMAIN rows :
          rows[i].status = "success" =>
              rows[i].cmd.name \in local \/ Has(rows[i].cmd.name, "CreateFailed")

Histories == \A b \in Objects : History(b)
Copies    == worker # Idle => Copy(worker)

IInv == TypeOK /\ Histories /\ Copies /\ IntentBeforeCommand /\ OnServer
-----------------------------------------------------------------------------
(* Versions.                                                               *)

(* Every version an object had it keeps.                                   *)
Grows ==
    \A b \in Objects : \A i \in DOMAIN versions[b] :
        i \in DOMAIN versions'[b] /\ versions'[b][i] = versions[b][i]

LEMMA UnchangedGrows ==
    ASSUME TypeOK, UNCHANGED versions
    PROVE  Grows
BY DEF Grows, TypeOK

LEMMA StoreGrows ==
    ASSUME TypeOK, NEW b \in Objects, NEW v \in Version, Store(b, v)
    PROVE  /\ Grows
           /\ Len(versions'[b]) = Len(versions[b]) + 1
           /\ versions'[b][Len(versions[b]) + 1] = v
           /\ Stored(b)' = v
           /\ \A c \in Objects : c # b => versions'[c] = versions[c]
<1>1. versions[b] \in Seq(Version) /\ Len(versions[b]) \in Nat \ {0}
  BY VersionsExist DEF TypeOK
<1>2. /\ versions'[b] = Append(versions[b], v)
      /\ \A c \in Objects : c # b => versions'[c] = versions[c]
  BY StoreAppends
<1>3. /\ Len(versions'[b]) = Len(versions[b]) + 1
      /\ versions'[b][Len(versions[b]) + 1] = v
      /\ \A i \in 1 .. Len(versions[b]) : versions'[b][i] = versions[b][i]
  BY <1>1, <1>2
<1>4. \A c \in Objects : DOMAIN versions[c] = 1 .. Len(versions[c])
  BY DEF TypeOK
<1>5. DOMAIN versions'[b] = 1 .. (Len(versions[b]) + 1)
  BY <1>1, <1>2
<1>6. \A i \in 1 .. Len(versions[b]) : i \in 1 .. (Len(versions[b]) + 1)
  BY <1>1
<1>7. Grows
  BY <1>2, <1>3, <1>4, <1>5, <1>6 DEF Grows
<1>. QED
  BY <1>2, <1>3, <1>7 DEF Stored

LEMMA HasKept ==
    ASSUME Grows, NEW b \in Objects, NEW p, Has(b, p)
    PROVE  Has(b, p)'
BY DEF Grows, Has

(* A phase an object has after a store is the new one or one it had.       *)
LEMMA HasAfterStore ==
    ASSUME TypeOK, NEW b \in Objects, NEW v \in Version, Store(b, v), NEW p, Has(b, p)'
    PROVE  Has(b, p) \/ v.phase = p
<1>1. PICK i \in DOMAIN versions'[b] : versions'[b][i].phase = p
  BY DEF Has
<1>2. /\ versions[b] \in Seq(Version) /\ Len(versions[b]) \in Nat
      /\ versions'[b] = Append(versions[b], v)
  BY StoreAppends, VersionsExist DEF TypeOK
<1>3. i \in 1 .. Len(versions[b]) \/ i = Len(versions[b]) + 1
  BY <1>2
<1>4. CASE i \in 1 .. Len(versions[b])
  BY <1>1, <1>2, <1>4 DEF Has
<1>5. CASE i = Len(versions[b]) + 1
  BY <1>1, <1>2, <1>5
<1>. QED
  BY <1>3, <1>4, <1>5

(* An object that was never stored has no phase.                           *)
LEMMA FirstVersion ==
    ASSUME TypeOK, NEW b \in Objects, History(b), Len(versions[b]) = 1
    PROVE  \A i \in DOMAIN versions[b] :
              /\ versions[b][i] = Absent
              /\ versions[b][i].phase = "" /\ versions[b][i].life = "absent"
<1>1. versions[b] \in Seq(Version)
  BY DEF TypeOK
<1>2. DOMAIN versions[b] = 1 .. 1
  BY <1>1
<1>3. Absent.phase = "" /\ Absent.life = "absent"
  BY DEF Absent
<1>. SUFFICES ASSUME NEW i \in 1 .. 1
              PROVE  /\ versions[b][i] = Absent
                     /\ versions[b][i].phase = "" /\ versions[b][i].life = "absent"
  BY <1>2
<1>4. i = 1
  OBVIOUS
<1>. QED
  BY <1>3, <1>4 DEF History

(* A created or failed version may only be followed by one of its kind, or *)
(* by the object's end.                                                    *)
Forward(u, v) ==
    \/ v.life = "absent"
    \/ /\ u.phase \in CreatedPhases => v.phase \in CreatedPhases
       /\ u.phase = "CreateFailed" => v.phase = "CreateFailed"

LEMMA StoreHistory ==
    ASSUME TypeOK, Histories, NEW b \in Objects, NEW v \in Version, Store(b, v),
           Sound(v), Forward(Stored(b), v),
           Exists(b) \/ Len(versions[b]) = 1,
           v.life = "live" => Stored(b).life = "live" \/ Len(versions[b]) = 1
    PROVE  Histories' /\ Grows
<1>. SUFFICES ASSUME NEW c \in Objects PROVE History(c)'
  BY StoreGrows DEF Histories
<1>1. CASE c # b
  <2>1. versions'[c] = versions[c]
    BY <1>1, StoreGrows
  <2>. QED
    BY <2>1 DEF Histories, History, Has, Stored, Exists
<1>2. CASE c = b
  <2>1. History(b) /\ Len(versions[b]) \in Nat \ {0}
    BY VersionsExist DEF Histories
  <2>2. /\ Stored(b)' = v
        /\ \A i \in DOMAIN versions[b] : versions'[b][i] = versions[b][i]
        /\ DOMAIN versions[b] = 1 .. Len(versions[b])
        /\ DOMAIN versions'[b] = 1 .. (Len(versions[b]) + 1)
        /\ versions'[b][Len(versions[b]) + 1] = v
    <3>. versions'[b] = Append(versions[b], v) /\ versions[b] \in Seq(Version)
      BY StoreAppends DEF TypeOK
    <3>. QED
      BY <2>1, StoreGrows DEF Grows
  <2>3. (versions[b][1] = Absent)'
    BY <2>1, <2>2 DEF History
  <2>4. (\A i \in DOMAIN versions[b] : Sound(versions[b][i]))'
    <3>. SUFFICES ASSUME NEW i \in 1 .. (Len(versions[b]) + 1) PROVE Sound(versions'[b][i])
      BY <2>2 DEF Sound
    <3>. QED
      BY <2>1, <2>2 DEF History
  <2>5. ASSUME NEW p \in CreatedPhases \cup {"CreateFailed"}, Has(b, p)
        PROVE  Exists(b)
    <3>1. CASE Len(versions[b]) = 1
      <4>3. \A i \in DOMAIN versions[b] : versions[b][i].phase = ""
        BY <2>1, <3>1, FirstVersion
      <4>. QED
        BY <2>5, <4>3 DEF Has, CreatedPhases
    <3>. QED
      BY <3>1
  <2>6. (\A p \in CreatedPhases : Has(b, p) => Stored(b).phase \in CreatedPhases \/ ~Exists(b))'
    BY <2>1, <2>2, <2>5, HasAfterStore DEF History, Forward, Exists
  <2>7. (Has(b, "CreateFailed") => Stored(b).phase = "CreateFailed" \/ ~Exists(b))'
    BY <2>1, <2>2, <2>5, HasAfterStore DEF History, Forward, Exists
  <2>8. (\A i \in DOMAIN versions[b] :
            versions[b][i].life = "deleting" => Stored(b).life # "live")'
    <3>. SUFFICES ASSUME NEW i \in 1 .. (Len(versions[b]) + 1),
                         versions'[b][i].life = "deleting", v.life = "live"
                  PROVE  FALSE
      BY <2>2
    <3>1. i \in 1 .. Len(versions[b])
      BY <2>1, <2>2
    <3>2. versions[b][i].life = "deleting" /\ Stored(b).life # "live"
      BY <2>1, <2>2, <3>1 DEF History
    <3>3. versions[b][i].life = "absent"
      BY <2>1, <2>2, <3>1, <3>2, FirstVersion
    <3>. QED
      BY <3>2, <3>3
  <2>. QED
    BY <1>2, <2>3, <2>4, <2>6, <2>7, <2>8 DEF History
<1>. QED
  BY <1>1, <1>2

(* Commands and rows name objects.                                         *)
LEMMA NamesExist ==
    ASSUME TypeOK
    PROVE  /\ \A i \in DOMAIN rows : rows[i] \in Rows /\ rows[i].cmd.name \in Objects
           /\ \A s : \A c \in Requested(s) : c \in Commands /\ c.name \in Objects
<1>1. \A i \in DOMAIN rows : rows[i] \in Rows
  BY DEF TypeOK
<1>2. \A i \in DOMAIN rows : rows[i].cmd \in Commands
  BY <1>1 DEF Rows
<1>3. \A c \in Commands : c.name \in Objects
  BY DEF Commands
<1>4. \A c \in inbox : c \in Commands
  BY DEF TypeOK
<1>. QED
  BY <1>1, <1>2, <1>3, <1>4 DEF Requested

(* The parts of the invariant a step may leave to the growth of versions.  *)
LEMMA IntentKept ==
    ASSUME TypeOK, IntentBeforeCommand, Grows,
           \A s \in Stages : Requested(s)' \subseteq Requested(s)
    PROVE  IntentBeforeCommand'
<1>. SUFFICES ASSUME NEW s \in Stages, NEW c \in Requested(s)'
              PROVE  \E i \in DOMAIN versions'[c.name] :
                        LET v == versions'[c.name][i]
                        IN  v.phase = Todo(s) /\ v.fin /\ v.addr
  BY DEF IntentBeforeCommand
<1>1. c \in Requested(s)
  OBVIOUS
<1>2. c.name \in Objects
  BY <1>1, NamesExist
<1>3. PICK i \in DOMAIN versions[c.name] :
        LET v == versions[c.name][i]
        IN  v.phase = Todo(s) /\ v.fin /\ v.addr
  BY <1>1 DEF IntentBeforeCommand
<1>. QED
  BY <1>2, <1>3 DEF Grows

LEMMA OnServerKept ==
    ASSUME TypeOK, OnServer, Grows, UNCHANGED <<rows, local, remote>>
    PROVE  OnServer'
<1>1. \A b \in remote : b \in Objects
  BY DEF TypeOK
<1>2. \A i \in DOMAIN rows : rows[i].cmd.name \in Objects
  BY NamesExist
<1>. QED
  BY <1>1, <1>2, HasKept DEF OnServer

(* A step that leaves the worker and the server alone.                     *)
LEMMA OthersKept ==
    ASSUME IInv, Grows, UNCHANGED <<inbox, rows, local, remote>>
    PROVE  IntentBeforeCommand' /\ OnServer'
<1>1. \A s \in Stages : Requested(s)' \subseteq Requested(s)
  BY DEF Requested
<1>. QED
  BY <1>1, IntentKept, OnServerKept DEF IInv

(* The worker's copy is tied to a version, and versions stay.              *)
LEMMA CopyKept ==
    ASSUME TypeOK, Grows, worker # Idle, Copy(worker)
    PROVE  worker' = worker => Copy(worker)'
<1>1. worker.b \in Objects /\ worker.rv \in DOMAIN versions[worker.b]
  BY BusyWorker DEF TypeOK
<1>2. versions'[worker.b][worker.rv] = versions[worker.b][worker.rv]
  BY <1>1 DEF Grows
<1>. QED
  BY <1>2 DEF Copy

-----------------------------------------------------------------------------
(* Users, the informer, time, restarts and the server.                     *)

LEMMA InitInv == Init => IInv
<1>. SUFFICES ASSUME Init PROVE IInv
  OBVIOUS
<1>1. TypeOK
  BY InitType
<1>2. \A b \in Objects : versions[b] = <<Absent>>
  BY DEF Init
<1>3. Absent.phase = "" /\ Absent.life = "absent" /\ Sound(Absent)
  BY DEF Absent, Sound, Stages, Failed
<1>4. Histories
  <2>. SUFFICES ASSUME NEW b \in Objects PROVE History(b)
    BY DEF Histories
  <2>1. versions[b][1] = Absent /\ \A i \in DOMAIN versions[b] : versions[b][i] = Absent
    BY <1>2
  <2>. QED
    BY <1>3, <2>1 DEF History, Has, CreatedPhases
<1>5. Copies
  BY DEF Init, Copies
<1>6. IntentBeforeCommand
  BY DEF Init, IntentBeforeCommand, Requested
<1>7. OnServer
  BY DEF Init, OnServer
<1>. QED
  BY <1>1, <1>4, <1>5, <1>6, <1>7 DEF IInv

LEMMA EnvironmentInv ==
    ASSUME IInv, NEW b \in Objects,
           \/ CreateObject(b) \/ EditObject(b) \/ DeleteObject(b)
           \/ Deliver(b) \/ Expire(b) \/ Crash
    PROVE  IInv'
<1>1. TypeOK /\ TypeOK' /\ Histories
  BY EnvironmentType DEF IInv
<1>2. Stored(b) \in Version /\ Stored(b) = versions[b][Len(versions[b])]
      /\ Len(versions[b]) \in DOMAIN versions[b]
  BY <1>1, VersionsExist DEF Stored, TypeOK
<1>3. Sound(Stored(b))
  BY <1>1, <1>2 DEF Histories, History
<1>4. Histories' /\ Grows
  <2>1. CASE CreateObject(b)
    <3>1. Stored(b).phase = ""
      BY <1>1, <1>2, <2>1, FirstVersion DEF CreateObject, Histories
    <3>2. New \in Version /\ Sound(New) /\ Forward(Stored(b), New)
      BY <3>1 DEF New, Absent, Version, Phases, Errors, Sound, Forward, Stages, Failed, CreatedPhases
    <3>. QED
      BY <1>1, <2>1, <3>2, StoreHistory DEF CreateObject
  <2>2. CASE EditObject(b)
    <3>. Forward(Stored(b), Stored(b))
      BY DEF Forward
    <3>. QED
      BY <1>1, <1>2, <1>3, <2>2, StoreHistory DEF EditObject
  <2>3. CASE DeleteObject(b)
    <3>. DEFINE v == Deleted(Stored(b), Absent)
    <3>1. v \in Version /\ Sound(v) /\ Forward(Stored(b), v)
      BY <1>2, <1>3 DEF Deleted, Absent, Version, Phases, Errors, Sound, Forward, Stages, Failed
    <3>2. Exists(b) /\ Store(b, v) /\ Stored(b).life = "live"
      BY <2>3 DEF DeleteObject, Exists
    <3>. QED
      BY <1>1, <3>1, <3>2, StoreHistory
  <2>4. CASE Deliver(b) \/ Expire(b) \/ Crash
    <3>1. UNCHANGED versions
      BY <2>4 DEF Deliver, Expire, Crash, apiVars
    <3>. QED
      BY <1>1, <3>1, UnchangedGrows DEF Histories, History, Has, Stored, Exists
  <2>. QED
    BY <2>1, <2>2, <2>3, <2>4
<1>5. Copies'
  <2>1. worker' = worker \/ worker' = Idle
    BY DEF CreateObject, EditObject, DeleteObject, Deliver, Expire, Crash
  <2>. QED
    BY <1>1, <1>4, <2>1, CopyKept DEF IInv, Copies
<1>6. UNCHANGED <<inbox, rows, local, remote>>
  BY DEF CreateObject, EditObject, DeleteObject, Deliver, Expire, Crash, serverVars
<1>. QED
  BY <1>1, <1>4, <1>5, <1>6, OthersKept DEF IInv

LEMMA ServerInv ==
    ASSUME IInv, ServerStep
    PROVE  IInv'
<1>1. TypeOK /\ TypeOK' /\ Histories /\ IntentBeforeCommand /\ OnServer
  BY ServerType DEF IInv
<1>2. UNCHANGED <<versions, worker>>
  BY DEF ServerStep, StartCommand, RefuseCommand, FinishCommand, apiVars
<1>3. Histories' /\ Grows
  BY <1>1, <1>2, UnchangedGrows DEF Histories, History, Has, Stored, Exists
<1>4. Copies'
  BY <1>1, <1>2, <1>3, CopyKept DEF IInv, Copies
<1>5. rows \in Seq(Rows)
  BY <1>1 DEF TypeOK
<1>6. ASSUME NEW c \in inbox, StartCommand(c) \/ RefuseCommand(c)
      PROVE  /\ \A s \in Stages : Requested(s)' \subseteq Requested(s)
             /\ OnServer'
  <2>1. CASE RefuseCommand(c)
    BY <1>1, <1>3, <2>1, OnServerKept DEF RefuseCommand, Requested
  <2>2. CASE StartCommand(c)
    <3>1. /\ rows' = Append(rows, [cmd |-> c, status |-> "in progress"])
          /\ inbox' \subseteq inbox
          /\ UNCHANGED <<local, remote>>
      BY <2>2 DEF StartCommand
    <3>. DEFINE row == [cmd |-> c, status |-> "in progress"]
    <3>2. \A i \in DOMAIN rows' :
             \/ i \in DOMAIN rows /\ rows'[i] = rows[i]
             \/ rows'[i] = row /\ row.cmd = c /\ row.status = "in progress"
      <4>. HIDE DEF row
      <4>1. row \in Rows
        BY <1>1 DEF row, Rows, TypeOK
      <4>2. rows' = Append(rows, row)
        BY <3>1 DEF row
      <4>3. row.cmd = c /\ row.status = "in progress"
        BY DEF row
      <4>4. /\ DOMAIN rows = 1 .. Len(rows) /\ Len(rows) \in Nat
            /\ DOMAIN Append(rows, row) = 1 .. (Len(rows) + 1)
            /\ \A i \in 1 .. Len(rows) : Append(rows, row)[i] = rows[i]
            /\ Append(rows, row)[Len(rows) + 1] = row
        BY <1>5, <4>1
      <4>. SUFFICES ASSUME NEW i \in 1 .. (Len(rows) + 1)
                    PROVE  \/ i \in 1 .. Len(rows) /\ rows'[i] = rows[i]
                           \/ rows'[i] = row
        BY <4>2, <4>3, <4>4
      <4>5. i \in 1 .. Len(rows) \/ i = Len(rows) + 1
        BY <4>4
      <4>. QED
        BY <4>2, <4>4, <4>5
    <3>. HIDE DEF row
    <3>3. \A s \in Stages : Requested(s)' \subseteq Requested(s)
      <4>1. \A i \in DOMAIN rows' : rows'[i].cmd = c \/ (i \in DOMAIN rows /\ rows'[i].cmd = rows[i].cmd)
        BY <3>2
      <4>. QED
        BY <3>1, <4>1 DEF Requested
    <3>4. OnServer'
      <4>1. \A i \in DOMAIN rows' :
               rows'[i].status = "success" => i \in DOMAIN rows /\ rows'[i] = rows[i]
        BY <3>2
      <4>2. \A b, p : Has(b, p)' = Has(b, p)
        BY <1>2 DEF Has
      <4>. QED
        BY <1>1, <3>1, <4>1, <4>2 DEF OnServer
    <3>. QED
      BY <3>3, <3>4
  <2>. QED
    BY <1>6, <2>1, <2>2
<1>7. ASSUME NEW i \in DOMAIN rows, FinishCommand(i)
      PROVE  /\ \A s \in Stages : Requested(s)' \subseteq Requested(s)
             /\ OnServer'
  <2>. DEFINE c == rows[i].cmd
  <2>1. /\ rows[i] \in Rows /\ c \in Commands
        /\ UNCHANGED inbox
        /\ \E st \in {"success", "error"} : rows' = [rows EXCEPT ![i].status = st]
    BY <1>1, <1>7, NamesExist DEF FinishCommand, Rows
  <2>2. /\ DOMAIN rows' = DOMAIN rows
        /\ \A j \in DOMAIN rows : rows'[j].cmd = rows[j].cmd
        /\ \A j \in DOMAIN rows : j # i => rows'[j] = rows[j]
    <3>1. PICK st \in {"success", "error"} : rows' = [rows EXCEPT ![i].status = st]
      BY <2>1
    <3>2. rows'[i] = [rows[i] EXCEPT !.status = st]
      BY <1>5, <3>1
    <3>3. rows'[i].cmd = rows[i].cmd
      BY <2>1, <3>2 DEF Rows
    <3>. QED
      BY <1>5, <3>1, <3>3
  <2>3. \A s \in Stages : Requested(s)' \subseteq Requested(s)
    BY <2>1, <2>2 DEF Requested
  <2>4. c \in Requested(c.op) /\ c.op \in Stages
    BY <2>1 DEF Requested, Commands
  <2>5. c.op = "upload" => Has(c.name, "Created")
    BY <1>1, <2>4 DEF IntentBeforeCommand, Has, Todo
  <2>6. \A b : Has(b, "Created")' = Has(b, "Created")
        /\ Has(b, "CreateFailed")' = Has(b, "CreateFailed")
    BY <1>2 DEF Has
  <2>7. \A b \in remote' : Has(b, "Created")'
    <3>1. \A b \in remote' : b \in remote \/ (b = c.name /\ c.op = "upload")
      BY <1>7, <2>4 DEF FinishCommand, Stages
    <3>. QED
      BY <1>1, <2>5, <2>6, <3>1 DEF OnServer
  <2>8. local \subseteq local' /\ (rows'[i].status = "success" => c.name \in local')
    BY <1>5, <1>7, <2>1, <2>4 DEF FinishCommand, Stages, Rows
  <2>9. ASSUME NEW j \in DOMAIN rows', rows'[j].status = "success"
        PROVE  (rows[j].cmd.name \in local \/ Has(rows[j].cmd.name, "CreateFailed"))'
    <3>1. CASE j = i
      BY <2>2, <2>8, <2>9, <3>1
    <3>2. CASE j # i
      <4>1. j \in DOMAIN rows /\ rows'[j] = rows[j]
        BY <2>2, <3>2
      <4>2. rows[j].cmd.name \in local \/ Has(rows[j].cmd.name, "CreateFailed")
        BY <1>1, <2>9, <4>1 DEF OnServer
      <4>. QED
        BY <1>2, <2>8, <4>1, <4>2 DEF Has
    <3>. QED
      BY <3>1, <3>2
  <2>. QED
    BY <2>3, <2>7, <2>9 DEF OnServer
<1>8. (\A s \in Stages : Requested(s)' \subseteq Requested(s)) /\ OnServer'
  BY <1>6, <1>7 DEF ServerStep
<1>. QED
  BY <1>1, <1>3, <1>4, <1>8, IntentKept DEF IInv

-----------------------------------------------------------------------------
(* The worker.                                                             *)

(* The version the worker's copy was made from is a version of the object. *)
LEMMA BaseExists ==
    ASSUME IInv, worker # Idle
    PROVE  LET base == versions[worker.b][worker.rv]
           IN  /\ worker.rv \in DOMAIN versions[worker.b]
               /\ base \in Version
               /\ Sound(base)
               /\ Fresh(worker) => base = Stored(worker.b)
<1>1. /\ worker.b \in Objects /\ worker.rv \in 1 .. Len(versions[worker.b])
      /\ TypeOK
  BY BusyWorker DEF IInv
<1>2. versions[worker.b] \in Seq(Version)
  BY <1>1 DEF TypeOK
<1>3. worker.rv \in DOMAIN versions[worker.b]
  BY <1>1, <1>2
<1>. QED
  BY <1>1, <1>2, <1>3 DEF IInv, Histories, History, Fresh, Stored

(* A stage is entered with the object as it was read or stored.            *)
LEMMA EnterCopy ==
    ASSUME NEW w \in Work, NEW s \in Stages
    PROVE  LET x == Enter(w, s)
           IN  CopyOf(x, w.obj) /\ x.b = w.b /\ x.rv = w.rv
<1>. DEFINE x == Enter(w, s)
<1>1. x.stage = s /\ x.obj = w.obj /\ x.b = w.b /\ x.rv = w.rv
  BY DEF Enter, Work
<1>2. \/ w.obj.phase = Todo(s) /\ x.pc = "post"
      \/ w.obj.phase = Running(s) /\ x.pc = "check"
      \/ x.pc = "final"
  BY DEF Enter, Work
<1>. HIDE DEF x
<1>. QED
  BY <1>1, <1>2 DEF CopyOf, x

(* What the worker is about to store is sound and moves the phase forward. *)
LEMMA CopyMoves ==
    ASSUME NEW w \in Work, NEW base \in Version, Sound(base), base.life = "live",
           CopyOf(w, base), w.pc \in SavePcs
    PROVE  w.obj.life = "live" /\ Sound(w.obj) /\ Forward(base, w.obj)
<1>1. w.stage \in Stages
  BY DEF Work
<1>. QED
  BY <1>1 DEF CopyOf, SavePcs, Sound, Forward, Version, Phases, CreatedPhases, Stages,
              Todo, Running, Succeeded, Failed

(* An update by the worker, stored or not.                                 *)
LEMMA UpdateInv ==
    ASSUME IInv, worker # Idle, NEW v \in Version, Saved(v) \/ NotSaved(v),
           v.life = "live", Sound(v), versions[worker.b][worker.rv].life = "live",
           Forward(versions[worker.b][worker.rv], v)
    PROVE  /\ Histories' /\ Grows
           /\ Saved(v) => versions'[worker.b][NewRv(worker.b)] = v
<1>1. TypeOK /\ Histories /\ worker.b \in Objects
  BY BusyWorker DEF IInv
<1>2. UNCHANGED versions \/ (Fresh(worker) /\ Store(worker.b, v))
  BY DEF Saved, NotSaved, Put
<1>3. CASE UNCHANGED versions
  <2>1. Histories' /\ Grows
    BY <1>1, <1>3, UnchangedGrows DEF Histories, History, Has, Stored, Exists
  <2>2. ASSUME Saved(v) PROVE versions'[worker.b][NewRv(worker.b)] = v
    <3>1. v = Stored(worker.b) \/ Store(worker.b, v)
      BY <2>2 DEF Saved, Put
    <3>2. ~Store(worker.b, v)
      <4>. SUFFICES ASSUME Store(worker.b, v) PROVE FALSE
        OBVIOUS
      <4>1. Len(versions'[worker.b]) = Len(versions[worker.b]) + 1
        BY <1>1, StoreGrows
      <4>. QED
        BY <1>1, <1>3, <4>1, VersionsExist
    <3>. QED
      BY <1>3, <3>1, <3>2 DEF Stored, NewRv
  <2>. QED
    BY <2>1, <2>2
<1>4. CASE Fresh(worker) /\ Store(worker.b, v)
  <2>1. versions[worker.b][worker.rv] = Stored(worker.b)
    BY <1>4, BaseExists
  <2>2. /\ Exists(worker.b) /\ Stored(worker.b).life = "live"
        /\ Forward(Stored(worker.b), v)
    BY <2>1 DEF Exists
  <2>. QED
    BY <1>1, <1>4, <2>2, StoreHistory, StoreGrows DEF NewRv, Stored
<1>. QED
  BY <1>2, <1>3, <1>4

(* A step of the worker that reaches no server.                            *)
LEMMA QuietStep ==
    ASSUME IInv, TypeOK', Histories', Grows, Copies', UNCHANGED <<inbox, rows, local, remote>>
    PROVE  IInv'
BY OthersKept DEF IInv

LEMMA ReconcileInv ==
    ASSUME IInv, NEW b \in Objects, Reconcile(b)
    PROVE  IInv'
<1>. DEFINE w == [pc |-> "finalize", b |-> b, stage |-> "create",
                  obj |-> Cached(b), rv |-> seen[b], todo |-> {}]
<1>1. TypeOK /\ TypeOK' /\ Histories
  BY ReconcileType DEF IInv
<1>2. UNCHANGED <<versions, inbox, rows, local, remote>>
  BY DEF Reconcile, apiVars, serverVars
<1>3. Histories' /\ Grows
  BY <1>1, <1>2, UnchangedGrows DEF Histories, History, Has, Stored, Exists
<1>4. Cached(b) \in Version /\ Cached(b) = versions[b][seen[b]] /\ seen[b] \in Nat \ {0}
  BY <1>1, VersionsExist DEF Cached
<1>5. w \in Work
  BY <1>4 DEF Work, Pcs, SavePcs, Stages, Locations
<1>6. ASSUME worker' # Idle PROVE Copy(worker)'
  <2>1. CASE Cached(b).life = "deleting" /\ worker' = [w EXCEPT !.pc = DeletePc(w)]
    <3>1. /\ worker'.b = b /\ worker'.rv = seen[b]
          /\ worker'.pc = DeletePc(w)
      BY <2>1
    <3>2. worker'.pc = "unfinalize" \/ (worker'.pc = "list" /\ Cached(b).phase = "CreateFailed")
      BY <3>1 DEF DeletePc
    <3>. QED
      BY <1>2, <1>4, <2>1, <3>1, <3>2 DEF Copy
  <2>2. CASE /\ Cached(b).life = "live" /\ Cached(b).phase = "" /\ Cached(b).fin
             /\ worker' = [w EXCEPT !.pc = "start", !.obj.phase = "Started"]
    <3>1. /\ worker'.b = b /\ worker'.rv = seen[b]
          /\ worker'.pc = "start" /\ worker'.obj = [Cached(b) EXCEPT !.phase = "Started"]
      BY <2>2
    <3>. QED
      BY <1>2, <1>4, <2>2, <3>1 DEF Copy, CopyOf
  <2>3. CASE /\ Cached(b).life = "live" /\ Cached(b).phase = ""
             /\ worker' = [w EXCEPT !.obj.fin = TRUE]
    <3>1. /\ worker'.b = b /\ worker'.rv = seen[b]
          /\ worker'.pc = "finalize" /\ worker'.obj = [Cached(b) EXCEPT !.fin = TRUE]
      BY <2>3
    <3>. QED
      BY <1>2, <1>4, <2>3, <3>1 DEF Copy, CopyOf
  <2>4. CASE Cached(b).life = "live" /\ worker' = Enter(w, "create")
    <3>1. CopyOf(worker', Cached(b)) /\ worker'.b = b /\ worker'.rv = seen[b]
      BY <1>5, <2>4, EnterCopy DEF Stages
    <3>. QED
      BY <1>2, <1>4, <2>4, <3>1 DEF Copy
  <2>5. Cached(b).life \in {"absent", "live", "deleting"}
    BY <1>4 DEF Version
  <2>. QED
    BY <1>6, <2>1, <2>2, <2>3, <2>4, <2>5 DEF Reconcile
<1>. QED
  BY <1>1, <1>2, <1>3, <1>6, QuietStep DEF Copies

(* Away from a deletion the worker works on a live object.                 *)
LEMMA LiveCopy ==
    ASSUME IInv, worker # Idle, worker.pc \notin {"list", "erase", "unfinalize"}
    PROVE  LET base == versions[worker.b][worker.rv]
           IN  base.life = "live" /\ CopyOf(worker, base)
BY DEF IInv, Copies, Copy

(* After a stored update the worker goes on with the version it stored.    *)
LEMMA SaveCopy ==
    ASSUME IInv, worker # Idle, worker.pc \in SavePcs,
           NEW rv \in Nat \ {0}, AfterSave([worker EXCEPT !.rv = rv])
    PROVE  \/ worker' = Idle
           \/ CopyOf(worker', worker.obj) /\ worker'.b = worker.b /\ worker'.rv = rv
<1>. DEFINE w == [worker EXCEPT !.rv = rv]
<1>1. worker \in Work /\ worker.obj \in Version /\ worker.stage \in Stages
  BY BusyWorker DEF IInv
<1>2. w \in Work /\ w.obj = worker.obj /\ w.b = worker.b /\ w.rv = rv /\ w.stage = worker.stage
  BY <1>1 DEF Work
<1>3. CopyOf(worker, versions[worker.b][worker.rv])
  BY LiveCopy DEF SavePcs
<1>4. CASE At("finalize") /\ Goto([w EXCEPT !.pc = "start", !.obj.phase = "Started"])
  <2>. DEFINE x == [w EXCEPT !.pc = "start", !.obj.phase = "Started"]
  <2>1. worker.obj.phase = "" /\ worker.obj.fin
    BY <1>1, <1>3, <1>4, BaseExists DEF CopyOf, At, Version
  <2>2. /\ x.pc = "start" /\ x.obj = [worker.obj EXCEPT !.phase = "Started"]
        /\ x.b = worker.b /\ x.rv = rv
    BY <1>1, <1>2 DEF Work
  <2>. QED
    BY <1>4, <2>1, <2>2 DEF CopyOf, Goto
<1>5. ASSUME NEW pc \in {"resolve", "check"}, Goto([w EXCEPT !.pc = pc]),
             \/ pc = "resolve" /\ At("start")
             \/ pc = "check" /\ At("accepted")
      PROVE  CopyOf(worker', worker.obj) /\ worker'.b = worker.b /\ worker'.rv = rv
  <2>. DEFINE x == [w EXCEPT !.pc = pc]
  <2>1. \/ pc = "resolve" /\ worker.obj.phase = "Started"
        \/ pc = "check" /\ worker.obj.phase = Running(worker.stage)
    BY <1>1, <1>3, <1>5, BaseExists DEF CopyOf, At, Version
  <2>2. /\ x.pc = pc /\ x.obj = worker.obj /\ x.stage = worker.stage
        /\ x.b = worker.b /\ x.rv = rv
    BY <1>1, <1>2 DEF Work
  <2>. HIDE DEF x
  <2>3. worker' = x
    BY <1>5 DEF Goto, x
  <2>. QED
    BY <2>1, <2>2, <2>3 DEF CopyOf
<1>6. CASE Goto(Enter(w, "create")) \/ Leave(w)
  <2>1. \A s \in Stages :
           CopyOf(Enter(w, s), worker.obj) /\ Enter(w, s).b = worker.b /\ Enter(w, s).rv = rv
    BY <1>2, EnterCopy
  <2>. HIDE DEF w
  <2>. QED
    BY <1>6, <2>1 DEF Goto, Leave, ReturnNil, Stages
<1>. QED
  BY <1>4, <1>5, <1>6 DEF AfterSave, ReturnErr

LEMMA SaveInv ==
    ASSUME IInv, Save \/ SaveFails
    PROVE  IInv'
<1>. DEFINE base == versions[worker.b][worker.rv]
<1>1. worker # Idle /\ worker.pc \in SavePcs /\ TypeOK /\ TypeOK'
  BY SaveType DEF Save, SaveFails, SavePcs, Idle, IInv
<1>2. /\ worker \in Work /\ worker.obj \in Version /\ worker.b \in Objects
      /\ Len(versions[worker.b]) \in Nat
  BY <1>1, BusyWorker, VersionsExist
<1>3. base.life = "live" /\ CopyOf(worker, base) /\ base \in Version /\ Sound(base)
  BY <1>1, LiveCopy, BaseExists DEF SavePcs
<1>4. worker.obj.life = "live" /\ Sound(worker.obj) /\ Forward(base, worker.obj)
  <2>. HIDE DEF base
  <2>. QED
    BY <1>1, <1>2, <1>3, CopyMoves
<1>5. /\ Histories' /\ Grows
      /\ Saved(worker.obj) => versions'[worker.b][NewRv(worker.b)] = worker.obj
  <2>. Saved(worker.obj) \/ NotSaved(worker.obj)
    BY DEF Save, SaveFails
  <2>. QED
    BY <1>1, <1>2, <1>3, <1>4, UpdateInv
<1>6. Copies'
  <2>1. CASE SaveFails
    BY <2>1 DEF SaveFails, ReturnErr, Copies
  <2>2. CASE Save
    <3>1. NewRv(worker.b) \in Nat \ {0}
      BY <1>1, <1>2, <2>2, PutGrows DEF Save, Saved
    <3>2. \/ worker' = Idle
          \/ /\ CopyOf(worker', worker.obj)
             /\ worker'.b = worker.b /\ worker'.rv = NewRv(worker.b)
      BY <1>1, <2>2, <3>1, SaveCopy DEF Save
    <3>3. versions'[worker.b][NewRv(worker.b)] = worker.obj
      BY <1>5, <2>2 DEF Save
    <3>. QED
      BY <1>4, <3>2, <3>3 DEF Copies, Copy
  <2>. QED
    BY <2>1, <2>2, <1>1, Zenon
<1>7. UNCHANGED <<inbox, rows, local, remote>>
  BY DEF Save, SaveFails, serverVars
<1>. QED
  BY <1>1, <1>5, <1>6, <1>7, QuietStep

(* The calls that touch neither the object nor the server.                 *)
LEMMA CallInv ==
    ASSUME IInv, Resolve \/ CheckDeadline \/ GiveUp
    PROVE  IInv'
<1>. DEFINE base == versions[worker.b][worker.rv]
<1>1. /\ worker # Idle /\ TypeOK /\ TypeOK' /\ Histories
      /\ worker.pc \in {"resolve", "check", "poll"}
  BY CallType DEF Resolve, CheckDeadline, GiveUp, At, Idle, IInv
<1>2. worker \in Work /\ worker.obj \in Version /\ worker.stage \in Stages
  BY <1>1, BusyWorker
<1>3. base.life = "live" /\ CopyOf(worker, base) /\ base \in Version
  BY <1>1, LiveCopy, BaseExists
<1>4. UNCHANGED <<versions, inbox, rows, local, remote>>
  BY DEF Resolve, CheckDeadline, GiveUp, apiVars, serverVars
<1>5. Histories' /\ Grows
  BY <1>1, <1>4, UnchangedGrows DEF Histories, History, Has, Stored, Exists
<1>6. ASSUME NEW x, worker' = x, x.b = worker.b, x.rv = worker.rv, CopyOf(x, base)
      PROVE  Copies'
  BY <1>3, <1>4, <1>6 DEF Copies, Copy
<1>7. Copies'
  <2>1. CASE worker' = Idle
    BY <2>1 DEF Copies
  <2>2. CASE worker' = [worker EXCEPT !.pc = "resolved", !.obj.addr = TRUE] /\ At("resolve")
    <3>. DEFINE x == [worker EXCEPT !.pc = "resolved", !.obj.addr = TRUE]
    <3>1. /\ x.b = worker.b /\ x.rv = worker.rv /\ x.pc = "resolved"
          /\ x.obj = [worker.obj EXCEPT !.addr = TRUE]
      BY <1>2 DEF Work
    <3>2. base.phase = "Started" /\ worker.obj = base
      BY <1>3, <2>2 DEF CopyOf, At
    <3>3. CopyOf(x, base)
      <4>. HIDE DEF x, base
      <4>. QED
        BY <3>1, <3>2 DEF CopyOf
    <3>. QED
      BY <1>6, <2>2, <3>1, <3>3
  <2>3. CASE worker' = [worker EXCEPT !.pc = "poll"] /\ At("check")
    <3>. DEFINE x == [worker EXCEPT !.pc = "poll"]
    <3>1. /\ x.b = worker.b /\ x.rv = worker.rv /\ x.pc = "poll"
          /\ x.obj = worker.obj /\ x.stage = worker.stage
      BY <1>2 DEF Work
    <3>2. base.phase = Running(worker.stage) /\ worker.obj = base
      BY <1>3, <2>3 DEF CopyOf, At
    <3>3. CopyOf(x, base)
      <4>. HIDE DEF x, base
      <4>. QED
        BY <3>1, <3>2 DEF CopyOf
    <3>. QED
      BY <1>6, <2>3, <3>1, <3>3
  <2>4. ASSUME NEW pc, NEW e, worker' = [worker EXCEPT !.pc = pc, !.obj = FailedObj(worker, e)],
               \/ At("check") /\ pc = "timeout" /\ e = "timeout"
               \/ At("poll") /\ pc = "final" /\ e = "retry"
        PROVE  Copies'
    <3>. DEFINE x == [worker EXCEPT !.pc = pc, !.obj = FailedObj(worker, e)]
    <3>1. /\ x.b = worker.b /\ x.rv = worker.rv /\ x.pc = pc /\ x.stage = worker.stage
          /\ x.obj = [worker.obj EXCEPT !.phase = Failed(worker.stage), !.error = e]
      BY <1>2 DEF Work, FailedObj
    <3>2. /\ base.phase = Running(worker.stage)
          /\ worker.obj \in {base, [base EXCEPT !.phase = Succeeded(worker.stage)]}
      BY <1>3, <2>4 DEF CopyOf, At
    <3>3. x.obj = [base EXCEPT !.phase = Failed(worker.stage), !.error = e]
      BY <1>3, <3>1, <3>2 DEF Version
    <3>4. CopyOf(x, base)
      <4>. HIDE DEF x, base
      <4>. QED
        BY <2>4, <3>1, <3>2, <3>3 DEF CopyOf
    <3>. QED
      BY <1>6, <2>4, <3>1, <3>4
  <2>. QED
    BY <2>1, <2>2, <2>3, <2>4 DEF Resolve, CheckDeadline, GiveUp, Goto, ReturnErr
<1>. QED
  BY <1>1, <1>4, <1>5, <1>7, QuietStep

(* The command the worker posts is one whose intention is stored.          *)
LEMMA PostInv ==
    ASSUME IInv, Post
    PROVE  IInv'
<1>. DEFINE base == versions[worker.b][worker.rv]
<1>1. /\ worker # Idle /\ worker.pc = "post" /\ TypeOK /\ TypeOK' /\ Histories
      /\ IntentBeforeCommand /\ OnServer
  BY PostType DEF Post, At, Idle, IInv
<1>2. /\ worker \in Work /\ worker.obj \in Version /\ worker.stage \in Stages
      /\ worker.b \in Objects
  BY <1>1, BusyWorker
<1>3. /\ base.life = "live" /\ CopyOf(worker, base) /\ base \in Version /\ Sound(base)
      /\ worker.rv \in DOMAIN versions[worker.b]
  BY <1>1, LiveCopy, BaseExists
<1>4. base.phase = Todo(worker.stage) /\ worker.obj = base
  <2>. HIDE DEF base
  <2>. QED
    BY <1>1, <1>3 DEF CopyOf
<1>5. UNCHANGED <<versions, rows, local, remote>>
  BY DEF Post, apiVars
<1>6. Histories' /\ Grows
  BY <1>1, <1>5, UnchangedGrows DEF Histories, History, Has, Stored, Exists
<1>7. Copies'
  <2>. SUFFICES ASSUME NEW x, worker' = x, x.b = worker.b, x.rv = worker.rv,
                       x.stage = worker.stage,
                       \/ x.pc = "accepted" /\ x.obj = [base EXCEPT !.phase = Running(x.stage)]
                       \/ /\ x.pc = "refused"
                          /\ x.obj = [base EXCEPT !.phase = Failed(x.stage), !.error = "request"]
                PROVE  Copies'
    <3>1. \/ Goto([worker EXCEPT !.pc = "accepted", !.obj.phase = Running(worker.stage)])
          \/ Goto([worker EXCEPT !.pc = "refused", !.obj = FailedObj(worker, "request")])
      BY DEF Post
    <3>2. LET x == [worker EXCEPT !.pc = "accepted", !.obj.phase = Running(worker.stage)]
          IN  /\ x.b = worker.b /\ x.rv = worker.rv /\ x.stage = worker.stage
              /\ x.pc = "accepted" /\ x.obj = [base EXCEPT !.phase = Running(x.stage)]
      BY <1>2, <1>4 DEF Work
    <3>3. LET x == [worker EXCEPT !.pc = "refused", !.obj = FailedObj(worker, "request")]
          IN  /\ x.b = worker.b /\ x.rv = worker.rv /\ x.stage = worker.stage
              /\ x.pc = "refused"
              /\ x.obj = [base EXCEPT !.phase = Failed(x.stage), !.error = "request"]
      BY <1>2, <1>4 DEF Work, FailedObj
    <3>. QED
      BY <3>1, <3>2, <3>3 DEF Goto
  <2>1. CopyOf(x, base)
    <3>. HIDE DEF base
    <3>. QED
      BY <1>4 DEF CopyOf
  <2>. QED
    BY <1>3, <1>5, <2>1 DEF Copies, Copy
<1>8. IntentBeforeCommand'
  <2>. DEFINE c == Command(worker)
  <2>1. c.name = worker.b /\ c.op = worker.stage
    BY DEF Command
  <2>2. /\ inbox' \subseteq inbox \cup {c}
        /\ c \in inbox' => c \in inbox \/ base.addr
    BY <1>4 DEF Post, HasServer
  <2>. HIDE DEF c
  <2>3. base.fin
    BY <1>2, <1>3, <1>4 DEF Sound, Todo, Stages
  <2>. SUFFICES ASSUME NEW s \in Stages, NEW d \in Requested(s)'
                PROVE  \E i \in DOMAIN versions[d.name] :
                          LET v == versions[d.name][i]
                          IN  v.phase = Todo(s) /\ v.fin /\ v.addr
    BY <1>5 DEF IntentBeforeCommand
  <2>4. CASE d \in Requested(s)
    BY <1>1, <2>4 DEF IntentBeforeCommand
  <2>5. CASE d \notin Requested(s)
    <3>1. d = c /\ d \in inbox' /\ d \notin inbox /\ d.op = s
      BY <1>5, <2>2, <2>5 DEF Requested
    <3>2. d.name = worker.b /\ s = worker.stage /\ base.addr
      BY <2>1, <2>2, <3>1
    <3>. QED
      BY <1>3, <1>4, <2>3, <3>2
  <2>. QED
    BY <2>4, <2>5
<1>9. OnServer'
  BY <1>1, <1>5, <1>6, OnServerKept
<1>. QED
  BY <1>1, <1>6, <1>7, <1>8, <1>9 DEF IInv

(* What the server's last row says is stored or not.                       *)
LEMMA PollInv ==
    ASSUME IInv, PollError \/ PollSuccess
    PROVE  IInv'
<1>. DEFINE base == versions[worker.b][worker.rv]
            s    == worker.stage
<1>1. /\ worker # Idle /\ worker.pc = "poll" /\ TypeOK /\ TypeOK' /\ Histories
  BY PollType DEF PollError, PollSuccess, At, Idle, IInv
<1>2. /\ worker \in Work /\ worker.obj \in Version /\ s \in Stages
      /\ worker.b \in Objects
  BY <1>1, BusyWorker
<1>3. /\ base.life = "live" /\ CopyOf(worker, base) /\ base \in Version /\ Sound(base)
  BY <1>1, LiveCopy, BaseExists
<1>4. base.phase = Running(s) /\ worker.obj \in {base, [base EXCEPT !.phase = Succeeded(s)]}
  <2>. HIDE DEF base
  <2>. QED
    BY <1>1, <1>3 DEF CopyOf
<1>5. UNCHANGED <<inbox, rows, local, remote>>
  BY DEF PollError, PollSuccess, serverVars
<1>6. CASE PollError
  <2>. DEFINE told == FailedObj(worker, "server")
              last == FailedObj(worker, "retry")
              x == [worker EXCEPT !.pc = "final", !.obj = last]
              y == [x EXCEPT !.rv = NewRv(worker.b)]
  <2>1. /\ told = [base EXCEPT !.phase = Failed(s), !.error = "server"]
        /\ last = [told EXCEPT !.phase = Failed(s), !.error = "retry"]
        /\ last = [base EXCEPT !.phase = Failed(s), !.error = "retry"]
    BY <1>3, <1>4 DEF FailedObj, Version
  <2>2. told \in Version /\ told.life = "live" /\ Sound(told) /\ Forward(base, told)
        /\ told.phase = Failed(s)
    <3>1. told \in Version
      BY <1>2, FailedObjType DEF Errors
    <3>. HIDE DEF base
    <3>. QED
      BY <1>2, <1>3, <1>4, <2>1, <3>1
         DEF Sound, Forward, Version, CreatedPhases, Stages, Running, Failed
  <2>3. /\ x.b = worker.b /\ x.rv = worker.rv /\ x.pc = "final" /\ x.stage = s /\ x.obj = last
        /\ y.b = worker.b /\ y.rv = NewRv(worker.b) /\ y.pc = "final" /\ y.stage = s
        /\ y.obj = last
    BY <1>2 DEF Work
  <2>. HIDE DEF told, last, x, y, base
  <2>4. CopyOf(x, base) /\ CopyOf(y, told)
    BY <1>4, <2>1, <2>2, <2>3 DEF CopyOf
  <2>5. \/ Saved(told) /\ worker' = y
        \/ NotSaved(told) /\ worker' = x
    BY <1>6 DEF PollError, Goto, told, last, x, y
  <2>6. /\ Histories' /\ Grows
        /\ Saved(told) => versions'[worker.b][NewRv(worker.b)] = told
    BY <1>1, <1>3, <2>2, <2>5, UpdateInv DEF base
  <2>7. versions'[worker.b][worker.rv] = base
    BY <1>1, <1>2, <2>6, BaseExists DEF Grows, base
  <2>8. Copies'
    BY <1>3, <2>2, <2>3, <2>4, <2>5, <2>6, <2>7 DEF Copies, Copy
  <2>. QED
    BY <1>1, <1>5, <2>6, <2>8, QuietStep
<1>7. CASE PollSuccess
  <2>. DEFINE x == [worker EXCEPT !.obj.phase = Succeeded(s)]
              v == x.obj
              y == [x EXCEPT !.pc = "final", !.rv = NewRv(worker.b)]
  <2>1. v = [base EXCEPT !.phase = Succeeded(s)]
    BY <1>2, <1>3, <1>4 DEF Version, Work
  <2>2. v \in Version /\ v.life = "live" /\ Sound(v) /\ Forward(base, v)
    <3>1. v \in Version
      BY <1>2, StagePhases DEF Version, Work
    <3>. HIDE DEF base, v
    <3>. QED
      BY <1>2, <1>3, <1>4, <2>1, <3>1
         DEF Sound, Forward, Version, CreatedPhases, Stages, Running, Succeeded, Failed
  <2>3. /\ x.b = worker.b /\ x.rv = worker.rv /\ x.pc = "poll" /\ x.stage = s /\ x.obj = v
        /\ y.b = worker.b /\ y.rv = NewRv(worker.b) /\ y.pc = "final" /\ y.obj = v
    BY <1>1, <1>2 DEF Work
  <2>4. \/ Saved(v) /\ worker' = y
        \/ NotSaved(v) /\ worker' = x
    BY <1>7 DEF PollSuccess, Goto
  <2>. HIDE DEF x, v, y, base
  <2>5. CopyOf(x, base) /\ CopyOf(y, v)
    BY <1>4, <2>1, <2>3 DEF CopyOf
  <2>6. /\ Histories' /\ Grows
        /\ Saved(v) => versions'[worker.b][NewRv(worker.b)] = v
    BY <1>1, <1>3, <2>2, <2>4, UpdateInv DEF base
  <2>7. versions'[worker.b][worker.rv] = base
    BY <1>1, <1>2, <2>6, BaseExists DEF Grows, base
  <2>8. Copies'
    BY <1>3, <2>2, <2>3, <2>4, <2>5, <2>6, <2>7 DEF Copies, Copy
  <2>. QED
    BY <1>1, <1>5, <2>6, <2>8, QuietStep
<1>. QED
  BY <1>6, <1>7

(* Data is deleted from the server only by a Reconcile that read a version *)
(* of the object that is being deleted and failed to be created.           *)
LEMMA EraseReason ==
    ASSUME IInv, worker # Idle, worker.pc = "erase" \/ worker.pc = "list"
    PROVE  \E i \in DOMAIN versions[worker.b] :
              /\ versions[worker.b][i].life = "deleting"
              /\ versions[worker.b][i].phase = "CreateFailed"
<1>1. Copy(worker) /\ worker.rv \in DOMAIN versions[worker.b]
  BY BaseExists DEF IInv, Copies
<1>. QED
  BY <1>1 DEF Copy, CopyOf

LEMMA DeletionInv ==
    ASSUME IInv, NEW l \in Locations, ListBackups \/ Erase(l) \/ RemoveFinalizer
    PROVE  IInv'
<1>. DEFINE base == versions[worker.b][worker.rv]
<1>1. /\ worker # Idle /\ worker.pc \in {"list", "erase", "unfinalize"}
      /\ TypeOK /\ TypeOK' /\ Histories /\ OnServer /\ Copy(worker)
  <2>1. worker # Idle /\ worker.pc \in {"list", "erase", "unfinalize"}
    BY DEF ListBackups, Erase, RemoveFinalizer, At, Idle
  <2>2. TypeOK'
    BY DeletionType DEF IInv
  <2>. QED
    BY <2>1, <2>2 DEF IInv, Copies
<1>2. worker \in Work /\ worker.b \in Objects
  BY <1>1, BusyWorker
<1>3. Histories' /\ Grows
  <2>1. CASE UNCHANGED versions
    BY <1>1, <2>1, UnchangedGrows DEF Histories, History, Has, Stored, Exists
  <2>2. CASE /\ Store(worker.b, Absent) /\ Cached(worker.b).life # "absent"
             /\ seen[worker.b] = Len(versions[worker.b])
    <3>1. Absent \in Version /\ Sound(Absent) /\ Absent.life = "absent"
      BY DEF Absent, Version, Phases, Errors, Sound, Stages, Failed
    <3>2. Exists(worker.b)
      BY <2>2 DEF Exists, Stored, Cached
    <3>. QED
      BY <1>1, <1>2, <2>2, <3>1, <3>2, StoreHistory DEF Forward
  <2>. QED
    BY <2>1, <2>2 DEF ListBackups, Erase, RemoveFinalizer, apiVars
<1>4. Copies'
  <2>1. CASE worker' = Idle
    BY <2>1 DEF Copies
  <2>2. ASSUME NEW todo, worker' = NextErase(worker, todo), worker.pc \in {"list", "erase"}
        PROVE  Copies'
    <3>1. /\ worker'.b = worker.b /\ worker'.rv = worker.rv
          /\ worker'.pc \in {"unfinalize", "erase"}
      BY <1>2, <2>2 DEF NextErase, Work
    <3>2. base.life = "deleting" /\ base.phase = "CreateFailed"
      BY <1>1, <2>2 DEF Copy, CopyOf
    <3>3. versions'[worker.b][worker.rv] = base
      BY <1>1, <1>2, <1>3, BaseExists DEF Grows
    <3>. QED
      BY <3>1, <3>2, <3>3 DEF Copies, Copy
  <2>. QED
    BY <2>1, <2>2 DEF ListBackups, Erase, RemoveFinalizer, Goto, Retry, At
<1>5. UNCHANGED <<inbox, rows>>
  BY DEF ListBackups, Erase, RemoveFinalizer, serverVars
<1>6. IntentBeforeCommand'
  <2>. \A s \in Stages : Requested(s)' \subseteq Requested(s)
    BY <1>5 DEF Requested
  <2>. QED
    BY <1>1, <1>3, IntentKept DEF IInv
<1>7. OnServer'
  <2>1. CASE UNCHANGED <<local, remote>>
    BY <1>1, <1>3, <1>5, <2>1, OnServerKept
  <2>2. CASE Erase(l)
    <3>1. remote' \subseteq remote /\ local \ {worker.b} \subseteq local'
      BY <2>2 DEF Erase
    <3>2. Has(worker.b, "CreateFailed")
      BY <1>1, <2>2, EraseReason DEF Has, Erase, At
    <3>3. /\ \A b \in remote : b \in Objects
          /\ \A i \in DOMAIN rows : rows[i].cmd.name \in Objects
      BY <1>1, NamesExist DEF TypeOK
    <3>4. \A b \in remote' : Has(b, "Created")'
      BY <1>1, <1>3, <3>1, <3>3, HasKept DEF OnServer
    <3>5. ASSUME NEW i \in DOMAIN rows, rows[i].status = "success"
          PROVE  (rows[i].cmd.name \in local \/ Has(rows[i].cmd.name, "CreateFailed"))'
      <4>1. rows[i].cmd.name \in local' \/ Has(rows[i].cmd.name, "CreateFailed")
        BY <1>1, <3>1, <3>2, <3>5 DEF OnServer
      <4>2. CASE Has(rows[i].cmd.name, "CreateFailed")
        BY <1>3, <1>5, <3>3, <4>2 DEF Has, Grows
      <4>. QED
        BY <1>5, <4>1, <4>2
    <3>. QED
      BY <1>5, <3>4, <3>5 DEF OnServer
  <2>. QED
    BY <2>1, <2>2 DEF ListBackups, RemoveFinalizer, serverVars
<1>. QED
  BY <1>1, <1>3, <1>4, <1>6, <1>7 DEF IInv

-----------------------------------------------------------------------------
(* The theorems.                                                           *)

LEMMA NextInv == IInv /\ [Next]_vars => IInv'
<1>. SUFFICES ASSUME IInv, [Next]_vars PROVE IInv'
  OBVIOUS
<1>1. CASE UNCHANGED vars
  BY <1>1 DEF vars, apiVars, serverVars, IInv, TypeOK, Histories, History, Has, Stored, Exists,
              Copies, Copy, IntentBeforeCommand, Requested, OnServer
<1>2. ASSUME NEW b \in Objects,
             \/ CreateObject(b) \/ EditObject(b) \/ DeleteObject(b)
             \/ Deliver(b) \/ Expire(b) \/ Reconcile(b)
      PROVE  IInv'
  BY <1>2, EnvironmentInv, ReconcileInv
<1>3. CASE Crash
  <2>1. CASE Objects = {}
    <3>1. TypeOK /\ TypeOK'
      BY <1>3, NextType DEF IInv, Next
    <3>2. worker' = Idle /\ UNCHANGED <<versions, inbox, rows, local, remote>>
      BY <1>3 DEF Crash, serverVars
    <3>3. Histories' /\ Copies' /\ Grows
      BY <2>1, <3>2 DEF Histories, Copies, Grows
    <3>. QED
      BY <3>1, <3>2, <3>3, QuietStep
  <2>. QED
    BY <1>3, <2>1, EnvironmentInv
<1>4. CASE ServerStep
  BY <1>4, ServerInv
<1>5. CASE WorkerStep \/ GiveUp
  <2>1. "local" \in Locations
    BY DEF Locations
  <2>. QED
    BY <1>5, <2>1, SaveInv, CallInv, PostInv, PollInv, DeletionInv DEF WorkerStep
<1>. QED
  BY <1>1, <1>2, <1>3, <1>4, <1>5 DEF Next

THEOREM Inductive == Spec => []IInv
BY InitInv, NextInv, PTL DEF Spec

(* The operator never asks the server for a thing it has not recorded the  *)
(* intention of: createClickHouseBackup and uploadClickHouseBackup post a  *)
(* command only from an object read, or stored, in the phase before it.    *)
THEOREM IntentRecorded == Spec => []IntentBeforeCommand
<1>1. IInv => IntentBeforeCommand
  BY DEF IInv
<1>. QED
  BY <1>1, Inductive, PTL

(* status.error is set by every failure of a stage, and by nothing else.   *)
THEOREM FailureExplained == Spec => []FailureIsExplained
<1>1. IInv => FailureIsExplained
  <2>. SUFFICES ASSUME IInv, NEW b \in Objects PROVE Sound(Stored(b))
    BY DEF FailureIsExplained, Sound
  <2>1. versions[b] \in Seq(Version) /\ Len(versions[b]) \in Nat \ {0}
    BY VersionsExist DEF IInv, TypeOK
  <2>2. Len(versions[b]) \in DOMAIN versions[b]
    BY <2>1
  <2>. QED
    BY <2>2 DEF IInv, Histories, History, Stored
<1>. QED
  BY <1>1, Inductive, PTL

(* A backup that is reported as CreateFailed, and whose data a deletion    *)
(* will therefore remove, was not uploaded and is not going to be: its     *)
(* upload would have needed it to be Created, which it can never have been.*)
THEOREM FailedNotUploaded == Spec => []FailedCreateNotUploaded
<1>1. IInv => FailedCreateNotUploaded
  <2>. SUFFICES ASSUME IInv, NEW b \in Objects, Stored(b).phase = "CreateFailed"
                PROVE  b \notin remote /\ \A c \in Requested("upload") : c.name # b
    BY DEF FailedCreateNotUploaded
  <2>1. versions[b] \in Seq(Version) /\ Len(versions[b]) \in Nat \ {0}
    BY VersionsExist DEF IInv, TypeOK
  <2>2. Len(versions[b]) \in DOMAIN versions[b]
    BY <2>1
  <2>3. History(b) /\ Sound(Stored(b))
    BY <2>2 DEF IInv, Histories, History, Stored
  <2>4. ~Has(b, "Created")
    BY <2>3 DEF History, Sound, Exists, CreatedPhases
  <2>5. b \notin remote
    BY <2>4 DEF IInv, OnServer
  <2>6. \A c \in Requested("upload") : Has(c.name, "Created")
    BY DEF IInv, IntentBeforeCommand, Has, Stages, Todo
  <2>. QED
    BY <2>4, <2>5, <2>6
<1>. QED
  BY <1>1, Inductive, PTL

(* DeleteBackup is reached only through an object that was being deleted   *)
(* in phase CreateFailed, so that no step removes the data of another.     *)
THEOREM ErasedOnlyFailed == Spec => OnlyFailedErased
<1>. DEFINE Reason(b) == \E i \in DOMAIN versions[b] :
                            /\ versions[b][i].life = "deleting"
                            /\ versions[b][i].phase = "CreateFailed"
            Erased(b) == (b \in local /\ b \notin local') \/ (b \in remote /\ b \notin remote')
            Justified == \A b \in Objects : Erased(b) => Reason(b)
<1>1. IInv /\ [Next]_vars => [Justified]_vars
  <2>. SUFFICES ASSUME IInv, Next, NEW b \in Objects, Erased(b)
                PROVE  Reason(b)
    OBVIOUS
  <2>1. PICK l \in Locations : Erase(l)
    <3>1. local \subseteq local' /\ remote \subseteq remote' => FALSE
      OBVIOUS
    <3>2. ASSUME NEW i \in DOMAIN rows, FinishCommand(i)
          PROVE  local \subseteq local' /\ remote \subseteq remote'
      BY <3>2 DEF FinishCommand
    <3>. QED
      BY <3>1, <3>2 DEF Next, ServerStep, WorkerStep, CreateObject, EditObject, DeleteObject,
         Deliver, Expire, Reconcile, Crash, StartCommand, RefuseCommand, Save, SaveFails,
         Resolve, Post, CheckDeadline, PollError, PollSuccess, GiveUp, ListBackups,
         RemoveFinalizer, serverVars
  <2>2. worker # Idle /\ worker.pc = "erase" /\ b = worker.b
    BY <2>1 DEF Erase, At, Idle
  <2>. QED
    BY <2>2, EraseReason
<1>. QED
  BY <1>1, Inductive, PTL DEF Spec, OnlyFailedErased

-----------------------------------------------------------------------------
(* Backups whose names are not contained in one another.                   *)

Distinct == \A p \in Within : p[1] = p[2]

(* A store that does not make a backup a created one.                      *)
LEMMA StoreCreated ==
    ASSUME TypeOK, CreatedIsOnServer, NEW b \in Objects, NEW v \in Version, Store(b, v),
           v.phase \in CreatedPhases => Stored(b).phase \in CreatedPhases \/ b \in local,
           UNCHANGED local
    PROVE  CreatedIsOnServer'
<1>1. Stored(b)' = v /\ \A c \in Objects : c # b => Stored(c)' = Stored(c)
  BY StoreGrows DEF Stored
<1>. QED
  BY <1>1 DEF CreatedIsOnServer, CreatedPhases

LEMMA UpdateCreated ==
    ASSUME IInv, CreatedIsOnServer, worker # Idle, NEW v \in Version, Saved(v) \/ NotSaved(v),
           \/ v.phase \in CreatedPhases => versions[worker.b][worker.rv].phase \in CreatedPhases
           \/ Fresh(worker) => worker.b \in local,
           UNCHANGED local
    PROVE  CreatedIsOnServer'
<1>1. UNCHANGED versions \/ (Fresh(worker) /\ Store(worker.b, v))
  BY DEF Saved, NotSaved, Put
<1>2. CASE UNCHANGED versions
  BY <1>2 DEF CreatedIsOnServer, Stored
<1>3. CASE Fresh(worker) /\ Store(worker.b, v)
  <2>1. worker.b \in Objects /\ TypeOK /\ versions[worker.b][worker.rv] = Stored(worker.b)
    BY <1>3, BusyWorker, BaseExists DEF IInv
  <2>. QED
    BY <1>3, <2>1, StoreCreated
<1>. QED
  BY <1>1, <1>2, <1>3

(* The worker believes a row of the server only of its own backup, whose   *)
(* data is still there since the object has not failed.                    *)
LEMMA SuccessCreated ==
    ASSUME Distinct, IInv, CreatedIsOnServer, PollSuccess
    PROVE  CreatedIsOnServer'
<1>. DEFINE base == versions[worker.b][worker.rv]
            v    == [worker.obj EXCEPT !.phase = Succeeded(worker.stage)]
<1>1. worker # Idle /\ worker.pc = "poll"
  BY DEF PollSuccess, At, Idle
<1>2. /\ worker \in Work /\ worker.obj \in Version /\ worker.stage \in Stages
      /\ worker.b \in Objects
  BY <1>1, BusyWorker DEF IInv
<1>3. base.life = "live" /\ CopyOf(worker, base)
  BY <1>1, LiveCopy
<1>4. base.phase = Running(worker.stage)
  <2>. HIDE DEF base
  <2>. QED
    BY <1>1, <1>3 DEF CopyOf
<1>5. v \in Version
  BY <1>2, StagePhases DEF Version
<1>6. Saved(v) \/ NotSaved(v)
  <2>. [worker EXCEPT !.obj.phase = Succeeded(worker.stage)].obj = v
    BY <1>2 DEF Work
  <2>. QED
    BY DEF PollSuccess
<1>7. UNCHANGED local
  BY DEF PollSuccess, serverVars
<1>8. worker.stage = "upload" => base.phase \in CreatedPhases
  BY <1>4 DEF Running, CreatedPhases
<1>9. ASSUME worker.stage = "create", Fresh(worker) PROVE worker.b \in local
  <2>1. PICK i \in DOMAIN rows : /\ <<worker.b, rows[i].cmd.name>> \in Within
                                 /\ rows[i].status = "success"
    BY DEF PollSuccess, LastRowIs
  <2>2. rows[i].cmd.name = worker.b
    BY <2>1 DEF Distinct
  <2>3. worker.b \in local \/ Has(worker.b, "CreateFailed")
    BY <2>1, <2>2 DEF IInv, OnServer
  <2>4. Stored(worker.b).phase = "Creating" /\ Stored(worker.b).life = "live"
    BY <1>1, <1>3, <1>4, <1>9, BaseExists DEF Running
  <2>5. ~Has(worker.b, "CreateFailed")
    BY <1>2, <2>4 DEF IInv, Histories, History, Exists
  <2>. QED
    BY <2>3, <2>5
<1>. QED
  <2>. HIDE DEF v
  <2>. QED
    BY <1>1, <1>2, <1>5, <1>6, <1>7, <1>8, <1>9, UpdateCreated DEF Stages

LEMMA CreatedKept ==
    ASSUME Distinct, IInv, CreatedIsOnServer, [Next]_vars
    PROVE  CreatedIsOnServer'
<1>1. TypeOK /\ Histories
  BY DEF IInv
<1>2. CASE UNCHANGED versions /\ local \subseteq local'
  BY <1>2 DEF CreatedIsOnServer, Stored
<1>3. ASSUME NEW b \in Objects, CreateObject(b) \/ EditObject(b) \/ DeleteObject(b)
      PROVE  CreatedIsOnServer'
  <2>1. /\ New \in Version /\ New.phase = ""
        /\ Absent \in Version /\ Absent.phase = ""
    BY DEF New, Absent, Version, Phases, Errors
  <2>2. /\ Stored(b) \in Version
        /\ Deleted(Stored(b), Absent) \in Version
        /\ Deleted(Stored(b), Absent).phase \in {"", Stored(b).phase}
    BY <1>1, <2>1, VersionsExist DEF Deleted, Version
  <2>3. UNCHANGED local
    BY <1>3 DEF CreateObject, EditObject, DeleteObject, serverVars
  <2>. QED
    BY <1>1, <1>3, <2>1, <2>2, <2>3, StoreCreated
       DEF CreateObject, EditObject, DeleteObject, CreatedPhases
<1>4. CASE Save \/ SaveFails
  <2>. DEFINE base == versions[worker.b][worker.rv]
  <2>1. worker # Idle /\ worker.pc \in SavePcs
    BY <1>4 DEF Save, SaveFails, SavePcs, Idle
  <2>2. worker \in Work /\ worker.obj \in Version /\ worker.stage \in Stages
    BY <1>1, <2>1, BusyWorker
  <2>3. CopyOf(worker, base) /\ base \in Version
    BY <2>1, LiveCopy, BaseExists DEF SavePcs
  <2>4. worker.obj.phase \in CreatedPhases => base.phase \in CreatedPhases
    <3>. HIDE DEF base
    <3>. QED
      BY <2>1, <2>2, <2>3
         DEF CopyOf, SavePcs, Version, CreatedPhases, Stages, Todo, Running, Failed
  <2>5. UNCHANGED local /\ (Saved(worker.obj) \/ NotSaved(worker.obj))
    BY <1>4 DEF Save, SaveFails, serverVars
  <2>. QED
    BY <2>1, <2>2, <2>4, <2>5, UpdateCreated
<1>5. CASE PollError
  <2>. DEFINE base == versions[worker.b][worker.rv]
              told == FailedObj(worker, "server")
  <2>1. worker # Idle /\ worker.pc = "poll"
    BY <1>5 DEF PollError, At, Idle
  <2>2. worker \in Work /\ worker.obj \in Version /\ worker.stage \in Stages
    BY <1>1, <2>1, BusyWorker
  <2>3. CopyOf(worker, base)
    BY <2>1, LiveCopy
  <2>4. base.phase = Running(worker.stage)
    <3>. HIDE DEF base
    <3>. QED
      BY <2>1, <2>3 DEF CopyOf
  <2>5. told \in Version /\ told.phase = Failed(worker.stage)
    BY <2>2, FailedObjType DEF Errors, FailedObj, Version
  <2>6. told.phase \in CreatedPhases => base.phase \in CreatedPhases
    BY <2>2, <2>4, <2>5 DEF Stages, Failed, Running, CreatedPhases
  <2>7. UNCHANGED local /\ (Saved(told) \/ NotSaved(told))
    BY <1>5 DEF PollError, serverVars
  <2>. QED
    BY <2>1, <2>5, <2>6, <2>7, UpdateCreated
<1>6. CASE PollSuccess
  BY <1>6, SuccessCreated
<1>7. ASSUME NEW l \in Locations, Erase(l)
      PROVE  CreatedIsOnServer'
  <2>1. /\ worker # Idle /\ worker.pc = "erase"
        /\ local \ {worker.b} \subseteq local'
        /\ UNCHANGED versions
    BY <1>7 DEF Erase, At, Idle, apiVars
  <2>2. worker.b \in Objects
    BY <1>1, <2>1, BusyWorker
  <2>3. Has(worker.b, "CreateFailed")
    BY <2>1, EraseReason DEF Has
  <2>4. Stored(worker.b) \in Version /\ Sound(Stored(worker.b))
    <3>1. versions[worker.b] \in Seq(Version) /\ Len(versions[worker.b]) \in Nat \ {0}
      BY <1>1, <2>2, VersionsExist DEF TypeOK
    <3>2. Len(versions[worker.b]) \in DOMAIN versions[worker.b]
      BY <3>1
    <3>. QED
      BY <1>1, <2>2, <3>1, <3>2 DEF Histories, History, Stored
  <2>5. Stored(worker.b).phase \notin CreatedPhases
    BY <1>1, <2>2, <2>3, <2>4 DEF Histories, History, Exists, Sound, CreatedPhases
  <2>. QED
    BY <2>1, <2>5 DEF CreatedIsOnServer, CreatedPhases, Stored
<1>8. CASE RemoveFinalizer
  <2>1. worker # Idle
    BY <1>8 DEF RemoveFinalizer, At, Idle
  <2>2. worker.b \in Objects
    BY <1>1, <2>1, BusyWorker
  <2>3. Absent \in Version /\ Absent.phase \notin CreatedPhases
    BY DEF Absent, Version, Phases, Errors, CreatedPhases
  <2>4. UNCHANGED local /\ (UNCHANGED versions \/ Store(worker.b, Absent))
    BY <1>8 DEF RemoveFinalizer, serverVars
  <2>. QED
    BY <1>1, <1>2, <2>2, <2>3, <2>4, StoreCreated
<1>9. CASE Next /\ ~(Save \/ SaveFails \/ PollError \/ PollSuccess \/ RemoveFinalizer)
           /\ (\A l \in Locations : ~Erase(l))
           /\ (\A b \in Objects : ~(CreateObject(b) \/ EditObject(b) \/ DeleteObject(b)))
  <2>1. ASSUME NEW i \in DOMAIN rows, FinishCommand(i)
        PROVE  UNCHANGED versions /\ local \subseteq local'
    BY <2>1 DEF FinishCommand, apiVars
  <2>. QED
    BY <1>2, <1>9, <2>1 DEF Next, ServerStep, WorkerStep, Deliver, Expire, Reconcile, Crash,
       StartCommand, RefuseCommand, Resolve, Post, CheckDeadline, GiveUp, ListBackups,
       apiVars, serverVars
<1>10. CASE UNCHANGED vars
  BY <1>2, <1>10 DEF vars, apiVars, serverVars
<1>. QED
  BY <1>3, <1>4, <1>5, <1>6, <1>7, <1>8, <1>9, <1>10

(* When no backup's name is contained in another's, so that GetStatus      *)
(* takes no row of another backup for one of this one, a backup that is    *)
(* reported as created is in the server's local storage.                   *)
THEOREM CreatedOnServer ==
    ASSUME Distinct
    PROVE  Spec => []CreatedIsOnServer
<1>1. Init => CreatedIsOnServer
  <2>. Absent.phase = ""
    BY DEF Absent
  <2>. SUFFICES ASSUME Init, NEW b \in Objects PROVE Stored(b) = Absent
    BY DEF CreatedIsOnServer
  <2>. QED
    BY DEF Init, Stored
<1>2. IInv /\ CreatedIsOnServer /\ [Next]_vars => CreatedIsOnServer'
  BY CreatedKept
<1>. QED
  BY <1>1, <1>2, Inductive, PTL DEF Spec
=============================================================================
