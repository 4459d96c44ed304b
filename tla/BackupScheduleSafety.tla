------------------------ MODULE BackupScheduleSafety ------------------------
(* What the status of a schedule says of the tasks in the cron: proved for *)
(* every set of schedules and controllers and every bound, with and        *)
(* without --leader-elect.                                                 *)
(*                                                                         *)
(* A worker removes tasks by the ids of a copy that may be of long ago, so *)
(* that the invariant speaks of the ids that any version or copy of a      *)
(* schedule names, and of the versions that are followed by a settled one. *)
EXTENDS BackupScheduleProofs

-----------------------------------------------------------------------------
(* The inductive invariant: the parts that hold in every process.          *)

Last(b) == Len(versions[b])

(* The versions of a schedule: it is absent before and after all others,   *)
(* being deleted just before the last one, and it has the finalizer when   *)
(* its tasks are registered.                                               *)
History(b) ==
    /\ versions[b][1] = Absent
    /\ \A i \in DOMAIN versions[b] :
          LET v == versions[b][i]
          IN  /\ v.life = "absent" => v = Absent /\ i \in {1, Last(b)}
              /\ v.life = "deleting" => i = Last(b) \/ (i = Last(b) - 1 /\ Stored(b) = Absent)
              /\ v.createId # 0 \/ v.active # 0 => v.fin
              /\ v.active <= v.gen

(* No entry of b creates backups under this id.                            *)
NoTask(b, id) == \A e \in cron : e.b = b /\ e.task = "create" => e.id # id

WorksOn(c, b) == workers[c] # Idle /\ workers[c].b = b

(* A schedule that is gone: nothing was ever registered for it, or it was  *)
(* being deleted, its task is removed and no Reconcile of an earlier       *)
(* version is to come.                                                     *)
GoneFor(b) ==
    LET v == versions[b][Last(b) - 1]
    IN  \/ v.createId = 0
        \/ /\ v.life = "deleting"
           /\ seen[b] >= Last(b) - 1
           /\ NoTask(b, v.createId)
           /\ \A c \in Controllers : WorksOn(c, b) => workers[c].pc = "unfinalize"

Gone == \A b \in Objects : Last(b) > 1 /\ Stored(b) = Absent => GoneFor(b)

(* The object in a worker's memory at each of its calls, given the version *)
(* it was made from.                                                       *)
CopyOf(w, base) ==
    \/ w.pc = "finalize" /\ w.obj = [base EXCEPT !.fin = TRUE]
    \/ /\ w.pc = "schedule"
       /\ base.fin
       /\ w.obj = base
    \/ /\ w.pc = "retain"
       /\ base.fin
       /\ base.spec.schedule = "good"
       /\ base.spec.retention = "good"
       /\ w.obj = [base EXCEPT !.createId = w.obj.createId, !.active = base.gen,
                               !.updated = w.obj.updated]
    \/ /\ w.pc = "status"
       /\ base.fin
       /\ w.obj = [base EXCEPT !.createId = w.obj.createId, !.active = base.gen,
                               !.updated = w.obj.updated, !.retainId = w.obj.retainId]

Copy(w) ==
    LET base == versions[w.b][w.rv]
    IN  \/ base.life = "live" /\ NeedsUpdate(base) /\ CopyOf(w, base)
        \/ /\ w.pc = "unfinalize"
           /\ base.life = "deleting"
           /\ w.rv <= seen[w.b]
           /\ NoTask(w.b, base.createId)

Histories == \A b \in Objects : History(b)
Copies    == \A c \in Controllers : workers[c] # Idle => Copy(workers[c])

AnyProcess == Histories /\ Gone /\ Copies

-----------------------------------------------------------------------------
(* The parts that hold in the first process, in which an id is that of one *)
(* entry at most.                                                          *)

(* The ids a version of b names are given, and of no entry but its own.    *)
Owns(b, v) ==
    /\ v.createId < nextId
    /\ v.retainId < nextId
    /\ \A e \in cron :
          /\ e.id = v.createId => e.b = b /\ e.task = "create"
          /\ e.id = v.retainId => e.b = b /\ e.task = "retain"

NamesOwn ==
    /\ \A b \in Objects : \A i \in DOMAIN versions[b] : Owns(b, versions[b][i])
    /\ \A c \in Controllers : workers[c] # Idle => Owns(workers[c].b, workers[c].obj)

(* The tasks v names are in the cron, for its generation.                  *)
HasCreate(b, v) == [id |-> v.createId, task |-> "create", b |-> b, gen |-> v.gen] \in cron
HasRetain(b, v) == [id |-> v.retainId, task |-> "retain", b |-> b, gen |-> v.gen] \in cron

(* What is registered and not yet recorded is in the cron, and is named by *)
(* no version.                                                             *)
Unrecorded(w) ==
    /\ w.pc \in {"retain", "status"} =>
          /\ HasCreate(w.b, w.obj)
          /\ \A i \in DOMAIN versions[w.b] : versions[w.b][i].createId # w.obj.createId
    /\ w.pc = "status" /\ w.obj.spec.retention = "good" =>
          /\ HasRetain(w.b, w.obj)
          /\ \A i \in DOMAIN versions[w.b] : versions[w.b][i].retainId # w.obj.retainId

AllUnrecorded == \A c \in Controllers : workers[c] # Idle => Unrecorded(workers[c])

(* A version that a worker may register again names other tasks than one   *)
(* that is settled.                                                        *)
Replaced(b) ==
    Settled(b) =>
        \A i \in DOMAIN versions[b] :
            versions[b][i].life = "live" /\ NeedsUpdate(versions[b][i]) =>
                /\ versions[b][i].createId # Stored(b).createId
                /\ Stored(b).spec.retention = "good" =>
                       versions[b][i].retainId # Stored(b).retainId

Tasks == \A b \in Objects : Replaced(b) /\ TasksRegistered(b)

FirstProcess == NamesOwn /\ AllUnrecorded /\ Tasks

IInv == TypeOK /\ AnyProcess /\ (process = 1 => FirstProcess)

-----------------------------------------------------------------------------
(* Versions.                                                               *)

(* Every version a schedule had it keeps.                                  *)
Grows ==
    \A b \in Objects : \A i \in DOMAIN versions[b] :
        i \in DOMAIN versions'[b] /\ versions'[b][i] = versions[b][i]

LEMMA StoreGrows ==
    ASSUME TypeOK, NEW b \in Objects, NEW v \in Version, Store(b, v)
    PROVE  /\ Grows
           /\ Len(versions'[b]) = Last(b) + 1
           /\ DOMAIN versions'[b] = 1 .. (Last(b) + 1)
           /\ versions'[b][Last(b) + 1] = v
           /\ \A i \in DOMAIN versions[b] : versions'[b][i] = versions[b][i]
           /\ \A c \in Objects : c # b => versions'[c] = versions[c]
<1>1. versions[b] \in Seq(Version) /\ Len(versions[b]) \in Nat \ {0}
  BY VersionsExist
<1>2. /\ versions'[b] = Append(versions[b], v)
      /\ \A c \in Objects : c # b => versions'[c] = versions[c]
  BY StoreAppends
<1>3. /\ Len(versions'[b]) = Len(versions[b]) + 1
      /\ versions'[b][Len(versions[b]) + 1] = v
      /\ \A i \in 1 .. Len(versions[b]) : versions'[b][i] = versions[b][i]
      /\ DOMAIN versions'[b] = 1 .. (Len(versions[b]) + 1)
  BY <1>1, <1>2
<1>4. \A c \in Objects : DOMAIN versions[c] = 1 .. Len(versions[c])
  BY VersionsExist
<1>5. \A i \in 1 .. Len(versions[b]) : i \in 1 .. (Len(versions[b]) + 1)
  BY <1>1
<1>6. Grows
  BY <1>2, <1>3, <1>4, <1>5 DEF Grows
<1>. QED
  BY <1>2, <1>3, <1>4, <1>6 DEF Last

LEMMA LastVersion ==
    ASSUME IInv, NEW b \in Objects
    PROVE  /\ Last(b) \in Nat \ {0} /\ DOMAIN versions[b] = 1 .. Last(b)
           /\ Stored(b) = versions[b][Last(b)] /\ Stored(b) \in Version
           /\ \A i \in DOMAIN versions[b] : versions[b][i] \in Version
           /\ History(b)
<1>1. /\ versions[b] \in Seq(Version) /\ Last(b) \in Nat \ {0}
      /\ DOMAIN versions[b] = 1 .. Last(b) /\ Stored(b) \in Version
  BY VersionsExist DEF IInv, Last
<1>. QED
  BY <1>1 DEF IInv, AnyProcess, Histories, Stored, Last

(* What may be stored after the versions a schedule has.                   *)
Fits(b, v) ==
    /\ v.createId # 0 \/ v.active # 0 => v.fin
    /\ v.active <= v.gen
    /\ v.life = "live" => Stored(b).life = "live" \/ Last(b) = 1
    /\ v.life = "deleting" => Stored(b).life = "live"
    /\ v.life = "absent" => v = Absent /\ Stored(b).life \in {"live", "deleting"}

LEMMA StoreHistory ==
    ASSUME IInv, NEW b \in Objects, NEW v \in Version, Store(b, v), Fits(b, v)
    PROVE  Histories'
<1>. SUFFICES ASSUME NEW c \in Objects PROVE History(c)'
  BY DEF Histories
<1>1. TypeOK /\ History(c)
  BY LastVersion DEF IInv
<1>2. CASE c # b
  <2>. versions'[c] = versions[c]
    BY <1>1, <1>2, StoreGrows
  <2>. QED
    BY <1>1 DEF History, Stored, Last
<1>3. CASE c = b
  <2>. DEFINE n == Last(b)
  <2>1. /\ n \in Nat \ {0} /\ DOMAIN versions[b] = 1 .. n /\ History(b)
        /\ Stored(b) = versions[b][n] /\ v.life \in {"absent", "live", "deleting"}
    BY LastVersion DEF Version
  <2>2. /\ Len(versions'[b]) = n + 1
        /\ DOMAIN versions'[b] = 1 .. (n + 1)
        /\ versions'[b][n + 1] = v
        /\ \A i \in 1 .. n : versions'[b][i] = versions[b][i]
    BY <1>1, <2>1, StoreGrows
  <2>3. /\ versions[b][1] = Absent
        /\ \A i \in 1 .. n :
              LET u == versions[b][i]
              IN  /\ u.life = "absent" => u = Absent /\ i \in {1, n}
                  /\ u.life = "deleting" => i = n \/ (i = n - 1 /\ Stored(b) = Absent)
                  /\ u.createId # 0 \/ u.active # 0 => u.fin
                  /\ u.active <= u.gen
    BY <2>1 DEF History
  <2>4. Absent.life = "absent"
    BY DEF Absent
  <2>. HIDE DEF n
  <2>5. Stored(b).life = "absent" => n = 1 /\ v.life = "live"
    BY <2>1 DEF Fits, n
  <2>6. ASSUME NEW i \in 1 .. (n + 1)
        PROVE  LET u == versions'[b][i]
               IN  /\ u.life = "absent" => u = Absent /\ i \in {1, n + 1}
                   /\ u.life = "deleting" => i = n + 1 \/ (i = n /\ v = Absent)
                   /\ u.createId # 0 \/ u.active # 0 => u.fin
                   /\ u.active <= u.gen
    <3>1. CASE i = n + 1
      BY <2>2, <3>1 DEF Fits
    <3>2. CASE i \in 1 .. n
      <4>1. versions'[b][i] = versions[b][i]
        BY <2>2, <3>2
      <4>2. versions[b][i].life = "absent" => i = 1
        BY <2>1, <2>3, <2>5, <3>2
      <4>3. versions[b][i].life = "deleting" => i = n /\ v = Absent
        <5>. SUFFICES ASSUME versions[b][i].life = "deleting" PROVE i = n /\ v = Absent
          OBVIOUS
        <5>1. i = n
          BY <2>1, <2>3, <2>4, <2>5, <3>2
        <5>. QED
          BY <2>1, <2>3, <2>4, <5>1 DEF Fits, n
      <4>. QED
        BY <2>3, <3>2, <4>1, <4>2, <4>3
    <3>. QED
      BY <2>1, <3>1, <3>2
  <2>7. versions'[b][1] = Absent
    BY <2>1, <2>2, <2>3
  <2>8. versions'[b][Len(versions'[b])] = v /\ Len(versions'[b]) = n + 1 /\ (n + 1) - 1 = n
    BY <2>1, <2>2
  <2>. QED
    BY <1>3, <2>2, <2>6, <2>7, <2>8 DEF History, Stored, Last
<1>. QED
  BY <1>2, <1>3

LEMMA SameHistory ==
    ASSUME IInv, UNCHANGED versions
    PROVE  Histories' /\ Grows
BY DEF IInv, AnyProcess, Histories, History, Stored, Last, Grows

(* A version is followed by a settled one only if it is not being deleted. *)
LEMMA NotSettled ==
    ASSUME IInv, NEW b \in Objects, NEW i \in DOMAIN versions[b],
           versions[b][i].life = "deleting"
    PROVE  Stored(b).life # "live" /\ (Stored(b).life # "absent" => i = Last(b))
<1>1. i = Last(b) \/ Stored(b) = Absent
  BY LastVersion DEF History
<1>2. Absent.life = "absent"
  BY DEF Absent
<1>. QED
  BY <1>1, <1>2, LastVersion

(* A schedule that is gone is in the cache as deleted or gone, once it has *)
(* been registered.                                                        *)
LEMMA CachedGone ==
    ASSUME IInv, NEW b \in Objects, Last(b) > 1, Stored(b) = Absent, Cached(b).life = "live"
    PROVE  versions[b][Last(b) - 1].createId = 0
<1>1. /\ Last(b) \in Nat \ {0} /\ Stored(b) = versions[b][Last(b)]
      /\ seen[b] \in 1 .. Last(b) /\ Absent.life = "absent"
  BY LastVersion, VersionsExist DEF IInv, Last, Absent
<1>2. GoneFor(b)
  BY DEF IInv, AnyProcess, Gone
<1>3. seen[b] # Last(b)
  BY <1>1 DEF Cached
<1>4. seen[b] >= Last(b) - 1 => seen[b] = Last(b) - 1
  BY <1>1, <1>3
<1>. QED
  BY <1>2, <1>4 DEF GoneFor, Cached

-----------------------------------------------------------------------------
(* What a step leaves of the invariant, from what it leaves alone.         *)

LEMMA WorkerBase ==
    ASSUME IInv, NEW c \in Controllers, workers[c] # Idle
    PROVE  LET w    == workers[c]
               base == versions[w.b][w.rv]
           IN  /\ w \in Work /\ w.b \in Objects /\ ControllerOf[w.b] = c
               /\ w.rv \in DOMAIN versions[w.b] /\ w.obj \in Version
               /\ base \in Version /\ Copy(w)
               /\ base.createId # 0 \/ base.active # 0 => base.fin
               /\ base.active <= base.gen
               /\ Fresh(w) => base = Stored(w.b)
<1>1. /\ workers[c] \in Work /\ workers[c].b \in Objects /\ workers[c].obj \in Version
      /\ ControllerOf[workers[c].b] = c
      /\ workers[c].rv \in 1 .. Last(workers[c].b)
  BY BusyWorker DEF IInv, Last
<1>2. Copy(workers[c])
  BY DEF IInv, AnyProcess, Copies
<1>. QED
  BY <1>1, <1>2, LastVersion DEF History, Fresh, Stored, Last

(* A step of worker c in a Reconcile of b leaves everything else alone.    *)
ActsOn(c, b) ==
    /\ ControllerOf[b] = c
    /\ \A d \in Controllers : d # c => workers'[d] = workers[d]
    /\ workers'[c] # Idle => workers'[c].b = b
    /\ \A d \in Objects : d # b => versions'[d] = versions[d]
    /\ \A e \in cron' : e \in cron \/ (e.b = b /\ e.id = nextId)
    /\ Grows
    /\ UNCHANGED <<seen, process>>

(* The copy of a worker that takes no part in the step.                    *)
LEMMA OthersCopy ==
    ASSUME IInv, TypeOK', NEW d \in Controllers, workers[d] # Idle, workers'[d] = workers[d],
           Grows, UNCHANGED process, \A b \in Objects : seen[b] <= seen'[b],
           \A e \in cron' : e \in cron \/ e.b # workers[d].b
    PROVE  Copy(workers[d])'
<1>. DEFINE w    == workers[d]
            base == versions[w.b][w.rv]
<1>1. /\ w.b \in Objects /\ w.rv \in DOMAIN versions[w.b] /\ w.rv \in Nat /\ Copy(w)
      /\ seen[w.b] \in Nat /\ seen'[w.b] \in Nat
  BY WorkerBase DEF Work, IInv, TypeOK
<1>2. w' = w /\ versions'[w.b][w.rv] = base
  BY <1>1 DEF Grows
<1>3. base.life = "live" /\ NeedsUpdate(base) /\ CopyOf(w, base) => Copy(w)'
  BY <1>2 DEF Copy, NeedsUpdate, StartedAt, CopyOf
<1>4. w.rv <= seen[w.b] => w.rv <= seen'[w.b]
  BY <1>1
<1>5. NoTask(w.b, base.createId) => \A e \in cron' : e.b = w.b /\ e.task = "create" => e.id # base.createId
  BY DEF NoTask
<1>. QED
  BY <1>1, <1>2, <1>3, <1>4, <1>5 DEF Copy, NoTask

LEMMA CopiesStep ==
    ASSUME IInv, TypeOK', NEW c \in Controllers, NEW b \in Objects, ActsOn(c, b),
           (workers[c] # Idle => Copy(workers[c]))'
    PROVE  Copies'
<1>. SUFFICES ASSUME NEW d \in Controllers, workers'[d] # Idle PROVE Copy(workers[d])'
  BY DEF Copies
<1>1. CASE d = c
  BY <1>1
<1>2. CASE d # c
  <2>1. workers'[d] = workers[d] /\ workers[d].b # b
    BY <1>2, WorkerBase DEF ActsOn
  <2>2. \A a \in Objects : seen[a] <= seen'[a]
    BY DEF ActsOn, IInv, TypeOK
  <2>. QED
    BY <1>2, <2>1, <2>2, OthersCopy DEF ActsOn
<1>. QED
  BY <1>1, <1>2

LEMMA GoneStep ==
    ASSUME IInv, NEW c \in Controllers, NEW b \in Objects, ActsOn(c, b),
           (Last(b) > 1 /\ Stored(b) = Absent => GoneFor(b))'
    PROVE  Gone'
<1>. SUFFICES ASSUME NEW d \in Objects, (Last(d) > 1 /\ Stored(d) = Absent)'
              PROVE  GoneFor(d)'
  BY DEF Gone
<1>1. CASE d = b
  BY <1>1
<1>2. CASE d # b
  <2>1. versions'[d] = versions[d] /\ seen' = seen
    BY <1>2 DEF ActsOn
  <2>2. GoneFor(d)
    BY <2>1 DEF IInv, AnyProcess, Gone, Last, Stored
  <2>3. \A id : NoTask(d, id) => NoTask(d, id)'
    BY <1>2 DEF NoTask, ActsOn
  <2>4. ASSUME NEW a \in Controllers, workers'[a] # Idle, workers'[a].b = d
        PROVE  workers'[a] = workers[a]
    BY <1>2, <2>4 DEF ActsOn
  <2>. QED
    BY <2>1, <2>2, <2>3, <2>4 DEF GoneFor, NoTask, WorksOn, Last
<1>. QED
  BY <1>1, <1>2

(* Of the ids that are given, a step brings no other entry into the cron.  *)
LEMMA NamesKept ==
    ASSUME IInv, NEW b, NEW v \in Version, Owns(b, v), nextId <= nextId', nextId' \in Nat,
           \A e \in cron' : e \in cron \/ e.id = nextId
    PROVE  Owns(b, v)'
<1>. v.createId \in Nat /\ v.retainId \in Nat /\ nextId \in Nat
  BY DEF Version, IInv, TypeOK
<1>. QED
  BY DEF Owns

(* The tasks of a schedule whose versions are left alone, and whose        *)
(* entries are too as far as its status names them.                        *)
LEMMA TasksKept ==
    ASSUME IInv, process = 1, process' = 1, NEW b \in Objects, versions'[b] = versions[b],
           Settled(b) =>
               \A e \in cron \ cron' :
                   /\ e.b = b => e.id # Stored(b).createId
                   /\ e.b = b /\ Stored(b).spec.retention = "good" => e.id # Stored(b).retainId
    PROVE  (Replaced(b) /\ TasksRegistered(b))'
<1>1. Stored(b)' = Stored(b) /\ StartedAt' = StartedAt
  BY DEF Stored, StartedAt
<1>2. Settled(b)' = Settled(b)
  BY <1>1 DEF Settled, NeedsUpdate
<1>3. Replaced(b) /\ TasksRegistered(b)
  BY DEF IInv, FirstProcess, Tasks
<1>4. Replaced(b)'
  BY <1>1, <1>2, <1>3 DEF Replaced, NeedsUpdate
<1>5. TasksRegistered(b)'
  <2>. SUFFICES ASSUME Settled(b)
                PROVE  /\ HasCreate(b, Stored(b)) => HasCreate(b, Stored(b))'
                       /\ Stored(b).spec.retention = "good" /\ HasRetain(b, Stored(b))
                             => HasRetain(b, Stored(b))'
    BY <1>1, <1>2, <1>3 DEF TasksRegistered, HasCreate, HasRetain
  <2>. QED
    BY <1>1 DEF HasCreate, HasRetain
<1>. QED
  BY <1>4, <1>5

LEMMA FirstStep ==
    ASSUME IInv, TypeOK', NEW c \in Controllers, NEW b \in Objects, ActsOn(c, b), process = 1,
           nextId <= nextId', \A e \in cron \ cron' : e.b = b,
           (\A i \in DOMAIN versions[b] : Owns(b, versions[b][i]))',
           (workers[c] # Idle => Owns(b, workers[c].obj) /\ Unrecorded(workers[c]))',
           (Replaced(b) /\ TasksRegistered(b))'
    PROVE  FirstProcess'
<1>1. FirstProcess /\ nextId' \in Nat /\ \A e \in cron' : e \in cron \/ e.id = nextId
  BY DEF IInv, TypeOK, ActsOn
<1>2. ASSUME NEW d \in Objects, NEW i \in DOMAIN versions'[d]
      PROVE  Owns(d, versions[d][i])'
  <2>1. CASE d = b
    BY <1>2, <2>1
  <2>2. CASE d # b
    <3>1. versions'[d] = versions[d]
      BY <2>2 DEF ActsOn
    <3>2. versions[d][i] \in Version /\ Owns(d, versions[d][i])
      BY <1>1, <1>2, <3>1, LastVersion DEF FirstProcess, NamesOwn
    <3>. QED
      BY <1>1, <3>1, <3>2, NamesKept DEF Owns
  <2>. QED
    BY <2>1, <2>2
<1>3. ASSUME NEW d \in Controllers, d # c, workers'[d] # Idle
      PROVE  Owns(workers[d].b, workers[d].obj)' /\ Unrecorded(workers[d])'
  <2>1. /\ workers'[d] = workers[d] /\ workers[d].b \in Objects /\ workers[d].b # b
        /\ workers[d].obj \in Version
    BY <1>3, WorkerBase DEF ActsOn
  <2>2. Owns(workers[d].b, workers[d].obj) /\ Unrecorded(workers[d])
    BY <1>1, <1>3, <2>1 DEF FirstProcess, NamesOwn, AllUnrecorded
  <2>3. Owns(workers[d].b, workers[d].obj)'
    BY <1>1, <2>1, <2>2, NamesKept DEF Owns
  <2>4. versions'[workers[d].b] = versions[workers[d].b]
    BY <2>1 DEF ActsOn
  <2>5. \A a \in Objects : \A v : a # b /\ HasCreate(a, v) => HasCreate(a, v)'
    BY DEF HasCreate
  <2>6. \A a \in Objects : \A v : a # b /\ HasRetain(a, v) => HasRetain(a, v)'
    BY DEF HasRetain
  <2>7. Unrecorded(workers[d])'
    BY <2>1, <2>2, <2>4, <2>5, <2>6 DEF Unrecorded, HasCreate, HasRetain
  <2>. QED
    BY <2>3, <2>7
<1>4. NamesOwn' /\ AllUnrecorded'
  BY <1>2, <1>3 DEF NamesOwn, AllUnrecorded, ActsOn
<1>5. ASSUME NEW d \in Objects
      PROVE  (Replaced(d) /\ TasksRegistered(d))'
  <2>1. CASE d = b
    BY <2>1
  <2>2. CASE d # b
    <3>. versions'[d] = versions[d] /\ process' = 1
      BY <2>2 DEF ActsOn
    <3>. QED
      BY <2>2, TasksKept
  <2>. QED
    BY <2>1, <2>2
<1>. QED
  BY <1>4, <1>5 DEF FirstProcess, Tasks

-----------------------------------------------------------------------------
(* Users, the informers and the processes.                                 *)

(* What v says of tasks u says as well, unless v says nothing.             *)
Keeps(u, v) ==
    \/ v.updated = 0
    \/ /\ v.createId = u.createId /\ v.retainId = u.retainId /\ v.updated = u.updated
       /\ v.active = v.gen => u.active = u.gen /\ v.spec = u.spec

(* What a user stores names no task that the schedule did not name, and is *)
(* not settled unless the version before it was the same.                  *)
LEMMA UserStores ==
    ASSUME IInv, NEW b \in Objects, CreateObject(b) \/ EditObject(b) \/ DeleteObject(b)
    PROVE  \E v \in Version :
              /\ Store(b, v) /\ Fits(b, v)
              /\ Keeps(Stored(b), v)
              /\ \E j \in DOMAIN versions[b] : /\ v.createId = versions[b][j].createId
                                              /\ v.retainId = versions[b][j].retainId
              /\ v = Absent => Stored(b).createId = 0
              /\ v = Stored(b) \/ v.life # "live" \/ NeedsUpdate(v)
<1>1. /\ Absent \in Version /\ Absent.life = "absent" /\ Absent.createId = 0
      /\ Absent.retainId = 0 /\ Absent.active = 0 /\ Absent.gen = 0 /\ Absent.updated = 0
  BY AbsentType DEF Absent
<1>2. /\ Last(b) \in Nat \ {0} /\ DOMAIN versions[b] = 1 .. Last(b)
      /\ Stored(b) = versions[b][Last(b)] /\ Stored(b) \in Version
      /\ versions[b][1] = Absent /\ (Stored(b).createId # 0 \/ Stored(b).active # 0 => Stored(b).fin)
      /\ Stored(b).active <= Stored(b).gen
      /\ 1 \in DOMAIN versions[b] /\ Last(b) \in DOMAIN versions[b]
  <2>1. /\ Last(b) \in Nat \ {0} /\ DOMAIN versions[b] = 1 .. Last(b)
        /\ Stored(b) = versions[b][Last(b)] /\ Stored(b) \in Version /\ History(b)
    BY LastVersion
  <2>2. 1 \in DOMAIN versions[b] /\ Last(b) \in DOMAIN versions[b]
    BY <2>1
  <2>. QED
    BY <2>1, <2>2 DEF History
<1>3. CASE CreateObject(b)
  <2>1. PICK s \in Specs : Store(b, New(s))
    BY <1>3 DEF CreateObject
  <2>2. /\ New(s) \in Version /\ New(s).life = "live" /\ New(s).createId = 0
        /\ New(s).retainId = 0 /\ New(s).active = 0 /\ New(s).gen = 1 /\ New(s).updated = 0
    BY AbsentType, SpecsAssumption DEF New, Absent
  <2>3. /\ Last(b) = 1 /\ NeedsUpdate(New(s)) /\ New(s) # Absent
        /\ Keeps(Stored(b), New(s))
    BY <1>1, <1>3, <2>2 DEF CreateObject, Last, NeedsUpdate, Keeps
  <2>. QED
    BY <1>1, <1>2, <2>1, <2>2, <2>3 DEF Fits
<1>4. CASE EditObject(b)
  <2>1. Stored(b).life = "live"
    BY <1>4 DEF EditObject
  <2>2. CASE Store(b, Stored(b))
    <3>. Fits(b, Stored(b)) /\ Stored(b) # Absent /\ Keeps(Stored(b), Stored(b))
      BY <1>1, <1>2, <2>1 DEF Fits, Keeps
    <3>. QED
      BY <1>2, <2>2
  <2>3. ASSUME NEW s \in Specs, Store(b, [Stored(b) EXCEPT !.spec = s, !.gen = @ + 1])
        PROVE  \E v \in Version :
                  /\ Store(b, v) /\ v.life = "live" /\ v.fin = Stored(b).fin
                  /\ v.createId = Stored(b).createId /\ v.retainId = Stored(b).retainId
                  /\ v.active = Stored(b).active /\ v.gen = Stored(b).gen + 1
                  /\ v.updated = Stored(b).updated
    <3>. DEFINE u == [Stored(b) EXCEPT !.spec = s]
                v == [u EXCEPT !.gen = u.gen + 1]
    <3>1. u \in Version /\ u.gen = Stored(b).gen /\ u.life = "live" /\ u.fin = Stored(b).fin
          /\ u.createId = Stored(b).createId /\ u.retainId = Stored(b).retainId
          /\ u.active = Stored(b).active /\ u.updated = Stored(b).updated
      BY <1>2, <2>1, SpecsAssumption DEF Version
    <3>. Store(b, v)
      BY <2>3
    <3>. HIDE DEF u
    <3>2. u.gen + 1 \in Nat
      BY <3>1 DEF Version
    <3>3. v \in Version /\ v.gen = u.gen + 1 /\ v.life = u.life /\ v.fin = u.fin
          /\ v.createId = u.createId /\ v.retainId = u.retainId /\ v.active = u.active
          /\ v.updated = u.updated
      BY <3>1, <3>2 DEF Version
    <3>. HIDE DEF v
    <3>. QED
      BY <3>1, <3>3
  <2>4. CASE \E s \in Specs \ {Stored(b).spec} :
                 Store(b, [Stored(b) EXCEPT !.spec = s, !.gen = @ + 1])
    <3>1. PICK v \in Version :
             /\ Store(b, v) /\ v.life = "live" /\ v.fin = Stored(b).fin
             /\ v.createId = Stored(b).createId /\ v.retainId = Stored(b).retainId
             /\ v.active = Stored(b).active /\ v.gen = Stored(b).gen + 1
             /\ v.updated = Stored(b).updated
      BY <2>3, <2>4
    <3>2. Stored(b).gen \in Nat /\ Stored(b).active \in Nat
      BY <1>2 DEF Version
    <3>3. NeedsUpdate(v) /\ v.active <= v.gen /\ v # Absent /\ Keeps(Stored(b), v)
      BY <1>1, <1>2, <3>1, <3>2 DEF NeedsUpdate, Keeps
    <3>. QED
      BY <1>2, <2>1, <3>1, <3>3 DEF Fits
  <2>. QED
    BY <1>4, <2>2, <2>4 DEF EditObject
<1>5. CASE DeleteObject(b)
  <2>1. Stored(b).life = "live" /\ Store(b, Deleted(Stored(b), Absent))
    BY <1>5 DEF DeleteObject
  <2>2. CASE Stored(b).fin
    <3>. DEFINE v == [Stored(b) EXCEPT !.life = "deleting"]
    <3>1. /\ v \in Version /\ v.life = "deleting" /\ v.fin /\ Store(b, v)
          /\ v.createId = Stored(b).createId /\ v.retainId = Stored(b).retainId
          /\ v.active = Stored(b).active /\ v.gen = Stored(b).gen
          /\ v.updated = Stored(b).updated /\ v.spec = Stored(b).spec
      BY <1>2, <2>1, <2>2 DEF Version, Deleted
    <3>. HIDE DEF v
    <3>2. Fits(b, v) /\ v # Absent /\ v.life # "live" /\ Keeps(Stored(b), v)
      BY <1>1, <1>2, <2>1, <3>1 DEF Fits, Keeps
    <3>. QED
      BY <1>2, <3>1, <3>2
  <2>3. CASE ~Stored(b).fin
    <3>1. /\ Store(b, Absent) /\ Stored(b).createId = 0 /\ Fits(b, Absent)
          /\ Keeps(Stored(b), Absent)
      BY <1>1, <1>2, <2>1, <2>3 DEF Deleted, Fits, Keeps
    <3>. QED
      BY <1>1, <1>2, <3>1
  <2>. QED
    BY <2>2, <2>3
<1>. QED
  BY <1>3, <1>4, <1>5

LEMMA UserInv ==
    ASSUME IInv, TypeOK', NEW b \in Objects, CreateObject(b) \/ EditObject(b) \/ DeleteObject(b)
    PROVE  AnyProcess' /\ (process' = 1 => FirstProcess')
<1>1. PICK v \in Version :
         /\ Store(b, v) /\ Fits(b, v)
         /\ \E j \in DOMAIN versions[b] : /\ v.createId = versions[b][j].createId
                                         /\ v.retainId = versions[b][j].retainId
         /\ v = Absent => Stored(b).createId = 0
         /\ v = Stored(b) \/ v.life # "live" \/ NeedsUpdate(v)
  BY UserStores
<1>2. /\ Grows
      /\ Len(versions'[b]) = Last(b) + 1
      /\ DOMAIN versions'[b] = 1 .. (Last(b) + 1)
      /\ versions'[b][Last(b) + 1] = v
      /\ \A i \in DOMAIN versions[b] : versions'[b][i] = versions[b][i]
      /\ \A c \in Objects : c # b => versions'[c] = versions[c]
  BY <1>1, StoreGrows DEF IInv
<1>3. UNCHANGED <<seen, queue, workers, cron, nextId, process>>
  BY DEF CreateObject, EditObject, DeleteObject, cronVars, processVars
<1>4. /\ Last(b) \in Nat \ {0} /\ DOMAIN versions[b] = 1 .. Last(b)
      /\ Stored(b) = versions[b][Last(b)] /\ Stored(b) \in Version
      /\ \A i \in DOMAIN versions[b] : versions[b][i] \in Version
  BY LastVersion
<1>5. Stored(b)' = v /\ \A c \in Objects : c # b => Stored(c)' = Stored(c)
  BY <1>2 DEF Stored
<1>6. \A i \in DOMAIN versions'[b] : i \in DOMAIN versions[b] \/ (i = Last(b) + 1 /\ versions'[b][i] = v)
  BY <1>2, <1>4
<1>7. Histories'
  BY <1>1, StoreHistory
<1>8. Gone'
  <2>. SUFFICES ASSUME NEW d \in Objects, (Last(d) > 1 /\ Stored(d) = Absent)'
                PROVE  GoneFor(d)'
    BY DEF Gone
  <2>1. CASE d = b
    <3>1. v = Absent
      BY <1>5, <2>1
    <3>2. versions'[b][Len(versions'[b]) - 1] = Stored(b)
      BY <1>2, <1>4
    <3>. QED
      BY <1>1, <2>1, <3>1, <3>2 DEF GoneFor, Last
  <2>2. CASE d # b
    <3>1. versions'[d] = versions[d] /\ GoneFor(d)
      BY <1>2, <2>2 DEF IInv, AnyProcess, Gone, Last, Stored
    <3>. QED
      BY <1>3, <3>1 DEF GoneFor, Last, NoTask, WorksOn
  <2>. QED
    BY <2>1, <2>2
<1>9. Copies'
  <2>. SUFFICES ASSUME NEW d \in Controllers, workers[d] # Idle PROVE Copy(workers[d])'
    BY <1>3 DEF Copies
  <2>. \A a \in Objects : seen[a] <= seen'[a]
    BY <1>3 DEF IInv, TypeOK
  <2>. QED
    BY <1>2, <1>3, OthersCopy
<1>10. ASSUME process = 1 PROVE FirstProcess'
  <2>1. FirstProcess
    BY <1>10 DEF IInv
  <2>2. Owns(b, v)
    BY <1>1, <2>1 DEF FirstProcess, NamesOwn, Owns
  <2>3. NamesOwn'
    <3>1. ASSUME NEW d \in Objects, NEW i \in DOMAIN versions'[d]
          PROVE  Owns(d, versions[d][i])'
      <4>. Owns(d, versions'[d][i])
        BY <1>2, <1>6, <2>1, <2>2 DEF FirstProcess, NamesOwn
      <4>. QED
        BY <1>3 DEF Owns
    <3>2. \A c \in Controllers : workers[c] # Idle => Owns(workers[c].b, workers[c].obj)'
      BY <1>3, <2>1 DEF FirstProcess, NamesOwn, Owns
    <3>. QED
      BY <1>3, <3>1, <3>2 DEF NamesOwn
  <2>4. AllUnrecorded'
    <3>. SUFFICES ASSUME NEW c \in Controllers, workers[c] # Idle PROVE Unrecorded(workers[c])'
      BY <1>3 DEF AllUnrecorded
    <3>1. Unrecorded(workers[c]) /\ workers[c].b \in Objects
      BY <2>1, WorkerBase DEF FirstProcess, AllUnrecorded
    <3>2. \A i \in DOMAIN versions'[workers[c].b] : \E j \in DOMAIN versions[workers[c].b] :
             /\ versions'[workers[c].b][i].createId = versions[workers[c].b][j].createId
             /\ versions'[workers[c].b][i].retainId = versions[workers[c].b][j].retainId
      BY <1>1, <1>2, <1>6, <3>1
    <3>. QED
      BY <1>3, <3>1, <3>2 DEF Unrecorded, HasCreate, HasRetain
  <2>5. ASSUME NEW d \in Objects PROVE (Replaced(d) /\ TasksRegistered(d))'
    <3>1. CASE d # b
      BY <1>2, <1>3, <1>10, <3>1, TasksKept
    <3>2. CASE d = b
      <4>. SUFFICES ASSUME Settled(b)' PROVE (Replaced(b) /\ TasksRegistered(b))'
        BY <3>2 DEF Replaced, TasksRegistered
      <4>1. v.life = "live" /\ ~NeedsUpdate(v)
        BY <1>3, <1>5 DEF Settled, NeedsUpdate, StartedAt
      <4>2. v = Stored(b)
        BY <1>1, <4>1
      <4>3. Settled(b) /\ Replaced(b) /\ TasksRegistered(b)
        BY <2>1, <4>1, <4>2 DEF Settled, FirstProcess, Tasks
      <4>4. Replaced(b)'
        BY <1>2, <1>3, <1>5, <1>6, <4>1, <4>2, <4>3 DEF Replaced, NeedsUpdate, StartedAt
      <4>5. TasksRegistered(b)'
        BY <1>3, <1>5, <4>2, <4>3 DEF TasksRegistered
      <4>. QED
        BY <4>4, <4>5
    <3>. QED
      BY <3>1, <3>2
  <2>. QED
    BY <2>3, <2>4, <2>5 DEF FirstProcess, Tasks
<1>. QED
  BY <1>3, <1>7, <1>8, <1>9, <1>10 DEF AnyProcess

(* Steps that change neither versions, nor workers, nor the cron.          *)
LEMMA QuietInv ==
    ASSUME IInv, TypeOK', UNCHANGED <<versions, workers, cron, nextId, process>>,
           \A b \in Objects : seen[b] <= seen'[b]
    PROVE  AnyProcess' /\ (process' = 1 => FirstProcess')
<1>1. Histories' /\ Grows
  BY SameHistory
<1>2. Copies'
  <2>. SUFFICES ASSUME NEW d \in Controllers, workers[d] # Idle PROVE Copy(workers[d])'
    BY DEF Copies
  <2>. QED
    BY <1>1, OthersCopy
<1>3. Gone'
  <2>. SUFFICES ASSUME NEW d \in Objects, (Last(d) > 1 /\ Stored(d) = Absent)'
                PROVE  GoneFor(d)'
    BY DEF Gone
  <2>1. GoneFor(d)
    BY DEF IInv, AnyProcess, Gone, Last, Stored
  <2>2. seen[d] >= Last(d) - 1 => seen'[d] >= Last(d) - 1
    BY LastVersion DEF IInv, TypeOK
  <2>. QED
    BY <2>1, <2>2 DEF GoneFor, Last, NoTask, WorksOn
<1>4. ASSUME process = 1 PROVE FirstProcess'
  <2>1. FirstProcess
    BY <1>4 DEF IInv
  <2>2. NamesOwn' /\ AllUnrecorded'
    <3>1. NamesOwn'
      BY <2>1 DEF FirstProcess, NamesOwn, Owns
    <3>2. AllUnrecorded'
      BY <2>1 DEF FirstProcess, AllUnrecorded, Unrecorded, HasCreate, HasRetain
    <3>. QED
      BY <3>1, <3>2
  <2>3. Tasks'
    BY <1>4, TasksKept DEF Tasks
  <2>. QED
    BY <2>1, <2>2, <2>3 DEF FirstProcess
<1>. QED
  BY <1>1, <1>2, <1>3, <1>4 DEF AnyProcess

(* A process that begins to lead has no worker and no task.                *)
LEMMA LeadsInv ==
    ASSUME IInv, Leads
    PROVE  AnyProcess'
<1>1. Histories'
  BY SameHistory DEF Leads
<1>2. /\ cron' = {} /\ \A c \in Controllers : workers'[c] = Idle
      /\ \A b \in Objects : versions'[b] = versions[b] /\ seen'[b] = Last(b)
  BY DEF Leads, Last
<1>3. Copies'
  BY <1>2 DEF Copies
<1>4. Gone'
  <2>. SUFFICES ASSUME NEW d \in Objects, (Last(d) > 1 /\ Stored(d) = Absent)'
                PROVE  GoneFor(d)'
    BY DEF Gone
  <2>1. GoneFor(d) /\ Last(d) \in Nat
    BY <1>2, LastVersion DEF IInv, AnyProcess, Gone, Last, Stored
  <2>. QED
    BY <1>2, <2>1 DEF GoneFor, Last, NoTask, WorksOn
<1>. QED
  BY <1>1, <1>3, <1>4 DEF AnyProcess

LEMMA EnvironmentInv ==
    ASSUME IInv, TypeOK', NEW b \in Objects,
           \/ CreateObject(b) \/ EditObject(b) \/ DeleteObject(b)
           \/ Deliver(b) \/ Enqueue(b)
    PROVE  AnyProcess' /\ (process' = 1 => FirstProcess')
<1>1. CASE Deliver(b) \/ Enqueue(b)
  <2>1. UNCHANGED <<versions, workers, cron, nextId, process>>
    BY <1>1 DEF Deliver, Enqueue, apiVars, cronVars, processVars
  <2>2. seen \in [Objects -> Nat \ {0}]
    BY DEF IInv, TypeOK
  <2>3. \A d \in Objects : seen[d] <= seen'[d]
    <3>. seen' \in {seen, [seen EXCEPT ![b] = @ + 1]}
      BY <1>1 DEF Deliver, Enqueue, apiVars
    <3>. QED
      BY <2>2
  <2>. QED
    BY <2>1, <2>3, QuietInv
<1>. QED
  BY <1>1, UserInv

LEMMA ProcessInv ==
    ASSUME IInv, TypeOK', SecondPasses \/ Restart \/ StandBy \/ TakeOver \/ UNCHANGED vars
    PROVE  AnyProcess' /\ (process' = 1 => FirstProcess')
<1>1. CASE SecondPasses \/ StandBy \/ UNCHANGED vars
  <2>. UNCHANGED <<versions, workers, cron, nextId, process, seen>>
    BY <1>1 DEF SecondPasses, StandBy, vars, apiVars, cronVars, processVars
  <2>. \A d \in Objects : seen[d] <= seen'[d]
    BY DEF IInv, TypeOK
  <2>. QED
    BY QuietInv
<1>2. CASE Restart \/ TakeOver
  <2>. Leads /\ process' # 1
    BY <1>2 DEF Restart, TakeOver, Leads, IInv, TypeOK
  <2>. QED
    BY LeadsInv
<1>. QED
  BY <1>1, <1>2

-----------------------------------------------------------------------------
(* The steps of the controllers.                                           *)

(* The task that a Reconcile removes is of a schedule being deleted, which *)
(* is not settled.                                                         *)
LEMMA ReconcileInv ==
    ASSUME IInv, TypeOK', NEW b \in Objects, Reconcile(b)
    PROVE  AnyProcess' /\ (process' = 1 => FirstProcess')
<1>. DEFINE c    == ControllerOf[b]
            base == Cached(b)
            w    == [pc |-> "finalize", b |-> b, obj |-> base, rv |-> seen[b]]
<1>1. /\ base \in Version /\ seen[b] \in DOMAIN versions[b] /\ base = versions[b][seen[b]]
      /\ c \in Controllers /\ seen[b] \in Nat
  BY VersionsExist, ControllerAssumption DEF IInv, Cached
<1>2. /\ UNCHANGED <<versions, seen, nextId, process>>
      /\ workers[c] = Idle /\ workers \in [Controllers -> Work \cup {Idle}]
  BY DEF Reconcile, apiVars, processVars, IInv, TypeOK
<1>3. \/ /\ workers'[c] = [w EXCEPT !.pc = "unfinalize"] /\ base.life = "deleting"
         /\ cron' = Without(base.createId)
      \/ /\ workers'[c] \in {[w EXCEPT !.pc = "schedule"], [w EXCEPT !.obj.fin = TRUE]}
         /\ workers'[c].pc = "schedule" => base.fin
         /\ base.life = "live" /\ NeedsUpdate(base) /\ cron' = cron
      \/ workers'[c] = Idle /\ cron' = cron
  BY <1>1, <1>2 DEF Reconcile, Registers
<1>. HIDE DEF c, base
<1>4. workers'[c] # Idle =>
         /\ workers'[c].b = b /\ workers'[c].rv = seen[b]
         /\ workers'[c].pc = "finalize" => workers'[c].obj = [base EXCEPT !.fin = TRUE]
         /\ workers'[c].pc # "finalize" => workers'[c].obj = base
         /\ workers'[c].pc \in {"finalize", "schedule", "unfinalize"}
         /\ workers'[c].pc = "unfinalize" <=> base.life = "deleting"
  BY <1>3
<1>5. ActsOn(c, b)
  <2>1. \A d \in Controllers : d # c => workers'[d] = workers[d]
    BY <1>1, <1>2 DEF Reconcile, c
  <2>2. cron' \subseteq cron
    BY <1>3 DEF Without
  <2>. QED
    BY <1>2, <1>4, <2>1, <2>2, SameHistory DEF ActsOn, c
<1>6. Copies'
  <2>. SUFFICES ASSUME workers'[c] # Idle PROVE Copy(workers[c])'
    BY <1>1, <1>5, CopiesStep
  <2>1. versions'[workers'[c].b][workers'[c].rv] = base
    BY <1>1, <1>2, <1>4
  <2>2. CASE workers'[c].pc = "unfinalize"
    <3>. base.life = "deleting" /\ cron' = Without(base.createId)
      BY <1>3, <1>4, <2>2
    <3>. QED
      BY <1>1, <1>2, <1>4, <2>1, <2>2 DEF Copy, NoTask, Without
  <2>3. CASE workers'[c].pc # "unfinalize"
    <3>. /\ base.life = "live" /\ NeedsUpdate(base)
         /\ workers'[c].pc = "schedule" => base.fin
      BY <1>3, <1>4, <2>3
    <3>. QED
      BY <1>2, <1>4, <2>1, <2>3 DEF Copy, CopyOf, NeedsUpdate, StartedAt
  <2>. QED
    BY <2>2, <2>3
<1>7. Gone'
  <2>. SUFFICES ASSUME Last(b) > 1, Stored(b) = Absent PROVE GoneFor(b)'
    BY <1>1, <1>2, <1>5, GoneStep DEF Last, Stored
  <2>1. GoneFor(b)
    BY DEF IInv, AnyProcess, Gone
  <2>2. base.life = "live" => versions[b][Last(b) - 1].createId = 0
    BY CachedGone DEF base
  <2>3. \A d \in Controllers : workers'[d] # Idle /\ workers'[d].b = b /\ base.life # "live"
           => workers'[d].pc = "unfinalize" \/ (workers'[d] = workers[d])
    BY <1>3, <1>4, <1>5 DEF ActsOn
  <2>4. \A id : NoTask(b, id) => \A e \in cron' : e.b = b /\ e.task = "create" => e.id # id
    BY <1>3 DEF NoTask, Without
  <2>. QED
    BY <1>2, <2>1, <2>2, <2>3, <2>4 DEF GoneFor, Last, NoTask, WorksOn
<1>8. ASSUME process = 1 PROVE FirstProcess'
  <2>1. FirstProcess /\ nextId <= nextId' /\ nextId' \in Nat
    BY <1>2, <1>8 DEF IInv, TypeOK
  <2>2. Owns(b, base)
    BY <1>1, <2>1 DEF FirstProcess, NamesOwn
  <2>3. \A e \in cron \ cron' : e.b = b /\ e.id = base.createId /\ base.life = "deleting"
    BY <1>3, <2>2 DEF Owns, Without
  <2>4. cron' \subseteq cron
    BY <1>3 DEF Without
  <2>5. (\A i \in DOMAIN versions[b] : Owns(b, versions[b][i]))'
    BY <1>2, <2>1, <2>4 DEF FirstProcess, NamesOwn, Owns
  <2>6. workers'[c] # Idle => workers'[c].obj.createId = base.createId
                              /\ workers'[c].obj.retainId = base.retainId
    BY <1>1, <1>4 DEF Version
  <2>7. (workers[c] # Idle => Owns(b, workers[c].obj) /\ Unrecorded(workers[c]))'
    BY <1>2, <1>4, <2>2, <2>4, <2>6 DEF Owns, Unrecorded
  <2>8. (Replaced(b) /\ TasksRegistered(b))'
    <3>. \A e \in cron \ cron' : ~Settled(b)
      BY <1>1, <2>3, NotSettled DEF Settled
    <3>. QED
      BY <1>2, <1>8, TasksKept
  <2>. QED
    BY <1>1, <1>5, <1>8, <2>1, <2>3, <2>5, <2>7, <2>8, FirstStep
<1>. QED
  BY <1>2, <1>5, <1>6, <1>7, <1>8, SameHistory DEF AnyProcess

(* The calls of a Reconcile of a live schedule.                            *)
RegisterPcs == {"finalize", "schedule", "retain", "status"}

(* The version a worker registers is not settled, and what CopyOf says of  *)
(* its object.                                                             *)
Registering(w, base) ==
    /\ base.life = "live" /\ NeedsUpdate(base) /\ CopyOf(w, base)
    /\ w.obj.life = "live" /\ w.obj.gen = base.gen /\ w.obj.spec = base.spec /\ w.obj.fin
    /\ w.pc # "finalize" => base.fin
    /\ w.pc \in {"finalize", "schedule"} =>
          /\ w.obj.createId = base.createId
          /\ w.obj.active = base.active
          /\ w.obj.updated = base.updated
    /\ w.pc # "status" => w.obj.retainId = base.retainId
    /\ w.pc \in {"retain", "status"} => w.obj.active = base.gen
    /\ w.pc = "schedule" => w.obj = base
    /\ w.pc = "retain" => base.spec.schedule = "good" /\ base.spec.retention = "good"

LEMMA RegisterBase ==
    ASSUME IInv, NEW c \in Controllers, workers[c].pc \in RegisterPcs
    PROVE  /\ workers[c] # Idle
           /\ Registering(workers[c], versions[workers[c].b][workers[c].rv])
<1>. DEFINE w    == workers[c]
            base == versions[w.b][w.rv]
<1>1. w # Idle
  BY DEF RegisterPcs, Idle
<1>2. base \in Version /\ Copy(w)
  BY <1>1, WorkerBase
<1>3. base.life = "live" /\ NeedsUpdate(base) /\ CopyOf(w, base)
  BY <1>2 DEF Copy, RegisterPcs
<1>4. w.pc \in RegisterPcs
  OBVIOUS
<1>. HIDE DEF base, w
<1>5. w.pc = "finalize" => Registering(w, base)
  BY <1>2, <1>3 DEF CopyOf, Version, Registering
<1>6. w.pc = "schedule" => Registering(w, base)
  BY <1>2, <1>3 DEF CopyOf, Registering
<1>7. w.pc = "retain" => Registering(w, base)
  BY <1>2, <1>3 DEF CopyOf, Version, Registering
<1>8. w.pc = "status" => Registering(w, base)
  BY <1>2, <1>3 DEF CopyOf, Version, Registering
<1>9. Registering(w, base)
  BY <1>4, <1>5, <1>6, <1>7, <1>8 DEF RegisterPcs
<1>. QED
  BY <1>1, <1>9 DEF w, base

(* Worker c alone changes, and versions and cron of its schedule alone.    *)
LEMMA StepActsOn ==
    ASSUME IInv, NEW c \in Controllers, workers[c] # Idle,
           \A d \in Controllers : d # c => workers'[d] = workers[d],
           workers'[c] # Idle => workers'[c].b = workers[c].b,
           UNCHANGED versions \/ \E v \in Version : Store(workers[c].b, v),
           \A e \in cron' : e \in cron \/ (e.b = workers[c].b /\ e.id = nextId),
           UNCHANGED <<seen, process>>
    PROVE  ActsOn(c, workers[c].b)
<1>1. workers[c].b \in Objects /\ ControllerOf[workers[c].b] = c /\ TypeOK
  BY WorkerBase DEF IInv
<1>2. Grows /\ \A d \in Objects : d # workers[c].b => versions'[d] = versions[d]
  BY <1>1, StoreGrows, SameHistory
<1>. QED
  BY <1>1, <1>2 DEF ActsOn

(* Of the schedules that are gone a worker registers only those for which  *)
(* nothing was ever registered; the update of such a one conflicts.        *)
LEMMA RegisterGone ==
    ASSUME IInv, NEW c \in Controllers, workers[c].pc \in RegisterPcs,
           ActsOn(c, workers[c].b),
           \/ UNCHANGED versions
           \/ Store(workers[c].b, workers[c].obj)
    PROVE  Gone'
<1>. DEFINE b == workers[c].b
            v == workers[c].obj
<1>1. workers[c] # Idle /\ b \in Objects /\ v \in Version /\ v.life = "live" /\ TypeOK
  BY RegisterBase, WorkerBase DEF Registering, IInv
<1>2. ASSUME Len(versions'[b]) > 1, versions'[b][Len(versions'[b])] = Absent
      PROVE  versions'[b][Len(versions'[b]) - 1].createId = 0
  <2>1. CASE UNCHANGED versions
    <3>. GoneFor(b) /\ WorksOn(c, b)
      BY <1>1, <1>2, <2>1 DEF IInv, AnyProcess, Gone, Stored, Last, WorksOn
    <3>. QED
      BY <1>1, <2>1 DEF GoneFor, RegisterPcs, Last
  <2>2. CASE Store(b, v)
    <3>. versions'[b][Len(versions'[b])] = v /\ Absent.life = "absent"
      BY <1>1, <2>2, StoreGrows DEF Absent
    <3>. QED
      BY <1>1, <1>2
  <2>. QED
    BY <2>1, <2>2
<1>. SUFFICES ASSUME NEW d \in Objects, d = b, (Last(d) > 1 /\ Stored(d) = Absent)'
              PROVE  GoneFor(d)'
  BY <1>1, GoneStep
<1>. QED
  BY <1>2 DEF GoneFor, Stored, Last

(* What a worker stores of a schedule it registers is read and written     *)
(* with no other version between.                                          *)
LEMMA UpdateStores ==
    ASSUME IInv, NEW c \in Controllers, workers[c].pc \in RegisterPcs,
           Saved(workers[c]) \/ NotSaved(workers[c])
    PROVE  /\ Histories'
           /\ \/ UNCHANGED versions
              \/ Fresh(workers[c]) /\ Store(workers[c].b, workers[c].obj)
<1>. DEFINE w == workers[c]
<1>1. /\ w # Idle /\ w.b \in Objects /\ w.obj \in Version
      /\ Registering(w, versions[w.b][w.rv]) /\ versions[w.b][w.rv] \in Version
      /\ versions[w.b][w.rv].active <= versions[w.b][w.rv].gen
      /\ Fresh(w) => versions[w.b][w.rv] = Stored(w.b)
  BY RegisterBase, WorkerBase
<1>2. UNCHANGED versions \/ (Fresh(w) /\ Store(w.b, w.obj))
  BY DEF Saved, NotSaved, Put
<1>3. CASE UNCHANGED versions
  BY <1>3, SameHistory
<1>4. CASE Fresh(w) /\ Store(w.b, w.obj)
  <2>1. w.obj.active <= w.obj.gen
    BY <1>1 DEF Registering, RegisterPcs, Version
  <2>2. Fits(w.b, w.obj)
    BY <1>1, <1>4, <2>1 DEF Fits, Registering
  <2>. QED
    BY <1>1, <1>4, <2>2, StoreHistory
<1>. QED
  BY <1>2, <1>3, <1>4

(* The names of the versions after an update.                              *)
LEMMA UpdateNames ==
    ASSUME IInv, NEW b \in Objects, NEW v \in Version, UNCHANGED cronVars,
           UNCHANGED versions \/ Store(b, v), NamesOwn, Owns(b, v)
    PROVE  (\A i \in DOMAIN versions[b] : Owns(b, versions[b][i]))'
<1>1. \A i \in DOMAIN versions'[b] : versions'[b][i] = v
                                  \/ (i \in DOMAIN versions[b] /\ versions'[b][i] = versions[b][i])
  BY StoreGrows, LastVersion DEF IInv
<1>2. \A i \in DOMAIN versions'[b] : Owns(b, versions'[b][i])
  BY <1>1 DEF NamesOwn
<1>. QED
  BY <1>2 DEF Owns, cronVars

LEMMA AddFinalizerInv ==
    ASSUME IInv, TypeOK', NEW c \in Controllers, AddFinalizer(c)
    PROVE  AnyProcess' /\ (process' = 1 => FirstProcess')
<1>. DEFINE w    == workers[c]
            b    == w.b
            v    == w.obj
            rv   == NewRv(b)
            base == versions[b][w.rv]
<1>1. w.pc = "finalize" /\ w.pc \in RegisterPcs
  BY DEF AddFinalizer, At, RegisterPcs
<1>2. /\ w # Idle /\ w \in Work /\ b \in Objects /\ v \in Version /\ base \in Version
      /\ ControllerOf[b] = c /\ Registering(w, base)
  BY <1>1, RegisterBase, WorkerBase
<1>3. /\ UNCHANGED <<seen, cron, nextId, process, cronVars>>
      /\ Saved(w) \/ NotSaved(w)
      /\ workers \in [Controllers -> Work \cup {Idle}]
  BY DEF AddFinalizer, cronVars, processVars, IInv, TypeOK
<1>4. /\ Histories'
      /\ UNCHANGED versions \/ (Fresh(w) /\ Store(b, v))
  BY <1>1, <1>3, UpdateStores
<1>5. /\ \A d \in Controllers : d # c => workers'[d] = workers[d]
      /\ \/ workers'[c] = Idle
         \/ Saved(w) /\ workers'[c] = [w EXCEPT !.pc = "schedule", !.rv = rv]
  BY <1>3 DEF AddFinalizer, Goto, Retry
<1>6. workers'[c] # Idle =>
         /\ Saved(w) /\ workers'[c].b = b /\ workers'[c].pc = "schedule"
         /\ workers'[c].obj = v /\ workers'[c].rv = rv
  <2>. HIDE DEF w, rv, b, v
  <2>1. w.b = b /\ w.obj = v
    BY DEF b, v
  <2>. QED
    BY <1>2, <1>5, <2>1 DEF Work
<1>7. ActsOn(c, b)
  BY <1>2, <1>3, <1>4, <1>5, <1>6, StepActsOn
<1>8. NeedsUpdate(v) /\ v.life = "live" /\ v.fin
  BY <1>1, <1>2 DEF Registering, NeedsUpdate
<1>9. Copies'
  <2>. SUFFICES ASSUME workers'[c] # Idle PROVE Copy(workers[c])'
    BY <1>2, <1>7, CopiesStep
  <2>1. versions'[b][rv] = v
    <3>1. Put(b, v)
      BY <1>6 DEF Saved
    <3>2. versions'[b][Len(versions'[b])] = v
      BY <1>2, <3>1, StoreGrows DEF Put, IInv, Stored
    <3>. QED
      BY <3>2 DEF NewRv
  <2>. HIDE DEF b, v, rv, w
  <2>. QED
    BY <1>3, <1>6, <1>8, <2>1 DEF Copy, CopyOf, NeedsUpdate, StartedAt
<1>10. Gone'
  BY <1>1, <1>4, <1>7, RegisterGone
<1>11. ASSUME process = 1 PROVE FirstProcess'
  <2>1. NamesOwn /\ Owns(b, v) /\ nextId <= nextId' /\ cron' = cron
    BY <1>2, <1>3, <1>11 DEF IInv, FirstProcess, NamesOwn, TypeOK
  <2>2. ASSUME NEW d \in Objects, d = b
        PROVE  (\A i \in DOMAIN versions[d] : Owns(d, versions[d][i]))'
    BY <1>2, <1>3, <1>4, <2>1, <2>2, UpdateNames
  <2>3. (workers[c] # Idle => Owns(workers[c].b, workers[c].obj) /\ Unrecorded(workers[c]))'
    BY <1>3, <1>6, <2>1 DEF Owns, Unrecorded
  <2>4. ASSUME NEW d \in Objects, d = b
        PROVE  (Replaced(d) /\ TasksRegistered(d))'
    <3>1. CASE UNCHANGED versions
      BY <1>3, <1>11, <2>4, <3>1, TasksKept
    <3>2. CASE Store(b, v)
      <4>. Stored(d)' = v
        BY <1>2, <2>4, <3>2, StoreGrows DEF Stored, IInv
      <4>. ~Settled(d)'
        BY <1>3, <1>8 DEF Settled, NeedsUpdate, StartedAt
      <4>. QED
        BY DEF Replaced, TasksRegistered
    <3>. QED
      BY <1>4, <3>1, <3>2
  <2>. QED
    BY <1>2, <1>6, <1>7, <1>11, <2>1, <2>2, <2>3, <2>4, FirstStep
<1>. QED
  BY <1>3, <1>4, <1>9, <1>10, <1>11 DEF AnyProcess

LEMMA UpdateStatusInv ==
    ASSUME IInv, TypeOK', NEW c \in Controllers, UpdateStatus(c)
    PROVE  AnyProcess' /\ (process' = 1 => FirstProcess')
<1>. DEFINE w    == workers[c]
            b    == w.b
            v    == w.obj
            base == versions[b][w.rv]
<1>1. w.pc = "status" /\ w.pc \in RegisterPcs
  BY DEF UpdateStatus, At, RegisterPcs
<1>2. /\ w # Idle /\ w \in Work /\ b \in Objects /\ v \in Version
      /\ ControllerOf[b] = c /\ Registering(w, base) /\ TypeOK
  BY <1>1, RegisterBase, WorkerBase DEF IInv
<1>3. /\ UNCHANGED <<seen, cron, nextId, process, cronVars>>
      /\ Saved(w) \/ NotSaved(w)
      /\ workers'[c] = Idle
      /\ \A d \in Controllers : d # c => workers'[d] = workers[d]
  BY DEF UpdateStatus, Done, Goto, Retry, cronVars, processVars, IInv, TypeOK
<1>4. /\ Histories'
      /\ UNCHANGED versions \/ (Fresh(w) /\ Store(b, v))
  BY <1>1, <1>3, UpdateStores
<1>5. ActsOn(c, b)
  BY <1>2, <1>3, <1>4, StepActsOn
<1>6. Copies'
  BY <1>2, <1>3, <1>5, CopiesStep
<1>7. Gone'
  BY <1>1, <1>4, <1>5, RegisterGone
<1>8. ASSUME process = 1 PROVE FirstProcess'
  <2>1. NamesOwn /\ Owns(b, v) /\ nextId <= nextId' /\ cron' = cron /\ Unrecorded(w)
    BY <1>2, <1>3, <1>8 DEF IInv, FirstProcess, NamesOwn, AllUnrecorded, TypeOK
  <2>2. ASSUME NEW d \in Objects, d = b
        PROVE  (\A i \in DOMAIN versions[d] : Owns(d, versions[d][i]))'
    BY <1>2, <1>3, <1>4, <2>1, <2>2, UpdateNames
  <2>3. ASSUME NEW d \in Objects, d = b
        PROVE  (Replaced(d) /\ TasksRegistered(d))'
    <3>1. CASE UNCHANGED versions
      BY <1>3, <1>8, <2>3, <3>1, TasksKept
    <3>2. CASE Store(b, v)
      <4>. SUFFICES ASSUME Settled(d)' PROVE (Replaced(d) /\ TasksRegistered(d))'
        BY DEF Replaced, TasksRegistered
      <4>1. /\ Stored(d)' = v
            /\ \A i \in DOMAIN versions'[d] :
                  versions'[d][i] = v \/ (i \in DOMAIN versions[d] /\ versions'[d][i] = versions[d][i])
        BY <1>2, <2>3, <3>2, StoreGrows, LastVersion DEF Stored
      <4>2. ~NeedsUpdate(v)
        BY <1>3, <4>1 DEF Settled, NeedsUpdate, StartedAt
      <4>3. /\ HasCreate(d, v)
            /\ \A i \in DOMAIN versions[d] : versions[d][i].createId # v.createId
            /\ v.spec.retention = "good" =>
                   /\ HasRetain(d, v)
                   /\ \A i \in DOMAIN versions[d] : versions[d][i].retainId # v.retainId
        BY <1>1, <2>1, <2>3 DEF Unrecorded
      <4>. HIDE DEF v
      <4>4. Replaced(d)'
        BY <1>3, <4>1, <4>2, <4>3 DEF Replaced, NeedsUpdate, StartedAt
      <4>5. TasksRegistered(d)'
        BY <2>1, <4>1, <4>3 DEF TasksRegistered, HasCreate, HasRetain
      <4>. QED
        BY <4>4, <4>5
    <3>. QED
      BY <1>4, <3>1, <3>2
  <2>. QED
    BY <1>2, <1>3, <1>5, <1>8, <2>1, <2>2, <2>3, FirstStep
<1>. QED
  BY <1>3, <1>4, <1>6, <1>7, <1>8 DEF AnyProcess

(* The finalizer goes from a schedule that is being deleted and whose task *)
(* is removed: the version in the cache is the one the worker read.        *)
LEMMA FinalizerInv ==
    ASSUME IInv, TypeOK', NEW c \in Controllers, RemoveFinalizer(c)
    PROVE  AnyProcess' /\ (process' = 1 => FirstProcess')
<1>. DEFINE w    == workers[c]
            b    == w.b
            base == versions[b][w.rv]
<1>1. w.pc = "unfinalize" /\ w # Idle
  BY DEF RemoveFinalizer, At, Idle
<1>2. /\ b \in Objects /\ ControllerOf[b] = c /\ w.rv \in DOMAIN versions[b] /\ TypeOK
      /\ base.life = "deleting" /\ NoTask(b, base.createId)
  BY <1>1, WorkerBase DEF Copy, CopyOf, IInv
<1>3. /\ UNCHANGED <<seen, cron, nextId, process, cronVars>>
      /\ workers'[c] = Idle
      /\ \A d \in Controllers : d # c => workers'[d] = workers[d]
      /\ \/ UNCHANGED versions
         \/ Store(b, Absent) /\ Cached(b).life # "absent" /\ seen[b] = Len(versions[b])
  BY DEF RemoveFinalizer, Done, Goto, Retry, cronVars, processVars, IInv, TypeOK
<1>4. /\ Absent \in Version /\ Absent.life = "absent" /\ Absent.createId = 0
      /\ Absent.retainId = 0 /\ Absent.active = 0 /\ Absent.gen = 0
  BY AbsentType DEF Absent
<1>5. ASSUME Store(b, Absent), Cached(b).life # "absent", seen[b] = Len(versions[b])
      PROVE  /\ Stored(b) = base /\ Last(b) \in Nat \ {0}
             /\ Len(versions'[b]) = Last(b) + 1
             /\ versions'[b][Last(b)] = base /\ versions'[b][Last(b) + 1] = Absent
  <2>1. Stored(b).life # "absent"
    BY <1>5 DEF Stored, Cached
  <2>2. w.rv = Last(b) /\ Stored(b) = base
    BY <1>2, <2>1, NotSettled, LastVersion
  <2>. QED
    BY <1>2, <1>4, <1>5, <2>2, StoreGrows, LastVersion
<1>6. Histories'
  <2>1. CASE UNCHANGED versions
    BY <2>1, SameHistory
  <2>2. CASE Store(b, Absent) /\ Cached(b).life # "absent" /\ seen[b] = Len(versions[b])
    <3>. Fits(b, Absent)
      BY <1>2, <1>4, <1>5, <2>2 DEF Fits
    <3>. QED
      BY <1>2, <1>4, <2>2, StoreHistory
  <2>. QED
    BY <1>3, <2>1, <2>2
<1>7. ActsOn(c, b)
  BY <1>1, <1>3, <1>4, StepActsOn
<1>8. Copies'
  BY <1>2, <1>3, <1>7, CopiesStep
<1>9. Gone'
  <2>. SUFFICES ASSUME NEW d \in Objects, d = b, (Last(d) > 1 /\ Stored(d) = Absent)'
                PROVE  GoneFor(d)'
    BY <1>2, <1>7, GoneStep
  <2>1. \A a \in Controllers : ~(workers'[a] # Idle /\ workers'[a].b = d)
    BY <1>2, <1>3, WorkerBase
  <2>2. CASE UNCHANGED versions
    <3>. GoneFor(d)
      BY <2>2 DEF IInv, AnyProcess, Gone, Stored, Last
    <3>. QED
      BY <1>3, <2>1, <2>2 DEF GoneFor, WorksOn, NoTask, Last
  <2>3. CASE Store(b, Absent) /\ Cached(b).life # "absent" /\ seen[b] = Len(versions[b])
    <3>1. versions'[d][Len(versions'[d]) - 1] = base /\ Len(versions'[d]) - 1 = Last(d)
      BY <1>5, <2>3
    <3>2. seen'[d] >= Len(versions'[d]) - 1
      BY <1>3, <1>5, <2>3, <3>1 DEF Last
    <3>3. \A e \in cron' : e.b = d /\ e.task = "create" => e.id # base.createId
      BY <1>2, <1>3 DEF NoTask
    <3>. HIDE DEF base
    <3>. QED
      BY <1>2, <2>1, <3>1, <3>2, <3>3 DEF GoneFor, WorksOn, NoTask, Last
  <2>. QED
    BY <1>3, <2>2, <2>3
<1>10. ASSUME process = 1 PROVE FirstProcess'
  <2>1. NamesOwn /\ nextId <= nextId' /\ cron' = cron /\ Owns(b, Absent)
    <3>. /\ NamesOwn /\ nextId \in Nat \ {0} /\ \A e \in cron : e.id # 0
      BY <1>10 DEF IInv, FirstProcess, TypeOK, Entry
    <3>. QED
      BY <1>3, <1>4 DEF Owns
  <2>2. ASSUME NEW d \in Objects, d = b
        PROVE  (\A i \in DOMAIN versions[d] : Owns(d, versions[d][i]))'
    BY <1>3, <1>4, <2>1, <2>2, UpdateNames
  <2>3. ASSUME NEW d \in Objects, d = b
        PROVE  (Replaced(d) /\ TasksRegistered(d))'
    <3>1. CASE UNCHANGED versions
      BY <1>3, <1>10, <2>3, <3>1, TasksKept
    <3>2. CASE Store(b, Absent)
      <4>. Stored(d)' = Absent
        BY <1>2, <1>4, <2>3, <3>2, StoreGrows DEF Stored
      <4>. ~Settled(d)'
        BY <1>4 DEF Settled
      <4>. QED
        BY DEF Replaced, TasksRegistered
    <3>. QED
      BY <1>3, <3>1, <3>2
  <2>. QED
    BY <1>2, <1>3, <1>7, <1>10, <2>1, <2>2, <2>3, FirstStep
<1>. QED
  BY <1>3, <1>6, <1>8, <1>9, <1>10 DEF AnyProcess

(* A call to the cron removes an entry by an id that the version to be     *)
(* registered names, and adds at most one, for the same schedule: what     *)
(* other schedules name, and what a settled one names, stays.              *)
LEMMA CallTasks ==
    ASSUME IInv, TypeOK', NEW c \in Controllers, process = 1, process' = 1,
           workers[c].pc \in {"schedule", "retain"}, UNCHANGED versions,
           NEW removed \in {"create", "retain"},
           removed = "retain" => workers[c].pc = "retain",
           \A e \in cron \ cron' : e.id = IF removed = "create"
                                             THEN versions[workers[c].b][workers[c].rv].createId
                                             ELSE versions[workers[c].b][workers[c].rv].retainId,
           \A e \in cron' : e \in cron \/ e.id = nextId,
           nextId <= nextId'
    PROVE  /\ \A e \in cron \ cron' : e.b = workers[c].b /\ e.task = removed
           /\ \A d \in Objects : (\A i \in DOMAIN versions[d] : Owns(d, versions[d][i]))'
           /\ \A d \in Objects : (Replaced(d) /\ TasksRegistered(d))'
<1>. DEFINE b    == workers[c].b
            base == versions[b][workers[c].rv]
<1>1. workers[c].pc \in RegisterPcs
  BY DEF RegisterPcs
<1>2. /\ b \in Objects /\ workers[c].rv \in DOMAIN versions[b]
      /\ base.life = "live" /\ NeedsUpdate(base) /\ FirstProcess
      /\ nextId' \in Nat
  BY <1>1, RegisterBase, WorkerBase DEF Registering, IInv, TypeOK
<1>3. Owns(b, base) /\ Replaced(b) /\ Owns(b, Stored(b))
  <2>. Last(b) \in DOMAIN versions[b] /\ Stored(b) = versions[b][Last(b)]
    BY <1>2, LastVersion
  <2>. QED
    BY <1>2 DEF FirstProcess, NamesOwn, Tasks
<1>4. \A e \in cron \ cron' : e.b = b /\ e.task = removed
  BY <1>3 DEF Owns
<1>5. ASSUME NEW d \in Objects
      PROVE  (\A i \in DOMAIN versions[d] : Owns(d, versions[d][i]))'
  <2>. SUFFICES ASSUME NEW i \in DOMAIN versions[d] PROVE Owns(d, versions[d][i])'
    OBVIOUS
  <2>1. Owns(d, versions[d][i]) /\ versions[d][i] \in Version
    BY <1>2, LastVersion DEF FirstProcess, NamesOwn
  <2>. QED
    BY <1>2, <2>1, NamesKept DEF Owns
<1>6. ASSUME Settled(b), NEW e \in cron \ cron'
      PROVE  /\ e.id # Stored(b).createId
             /\ Stored(b).spec.retention = "good" => e.id # Stored(b).retainId
  <2>1. /\ base.createId # Stored(b).createId
        /\ Stored(b).spec.retention = "good" => base.retainId # Stored(b).retainId
    BY <1>2, <1>3, <1>6 DEF Replaced
  <2>. QED
    BY <1>3, <1>4, <1>6, <2>1 DEF Owns
<1>7. ASSUME NEW d \in Objects
      PROVE  (Replaced(d) /\ TasksRegistered(d))'
  BY <1>4, <1>6, TasksKept
<1>. QED
  BY <1>4, <1>5, <1>7

(* The call that registers the task that creates backups.                  *)
LEMMA CreateCall ==
    ASSUME IInv, TypeOK', NEW c \in Controllers, ScheduleCreate(c)
    PROVE  LET w    == workers[c]
               b    == w.b
               base == versions[b][w.rv]
               A    == Added("create", w)
               v    == [base EXCEPT !.createId = nextId, !.active = base.gen, !.updated = Now]
           IN  /\ w.pc = "schedule" /\ w # Idle /\ b \in Objects /\ base \in Version
               /\ ControllerOf[b] = c /\ w.rv \in DOMAIN versions[b]
               /\ base.life = "live" /\ NeedsUpdate(base) /\ base.fin
               /\ UNCHANGED <<seen, versions, process, latest>>
               /\ nextId \in Nat /\ nextId' \in Nat
               /\ \A e \in cron : e.id \in Nat /\ e.id < nextId
               /\ A = [id |-> nextId, task |-> "create", b |-> b, gen |-> base.gen]
               /\ v \in Version /\ v.createId = nextId /\ v.retainId = base.retainId
               /\ v.active = base.gen /\ v.updated = Now /\ v.gen = base.gen /\ v.spec = base.spec
               /\ workers'[c] # Idle =>
                     /\ cron' = Without(base.createId) \cup {A} /\ nextId' = nextId + 1
                     /\ workers'[c].b = b /\ workers'[c].rv = w.rv /\ workers'[c].obj = v
                     /\ \/ /\ workers'[c].pc = "retain"
                           /\ base.spec.schedule = "good" /\ base.spec.retention = "good"
                        \/ workers'[c].pc = "status" /\ base.spec.retention = "none"
               /\ \A d \in Controllers : d # c => workers'[d] = workers[d]
               /\ \A e \in cron \ cron' : e.id = base.createId
               /\ \A e \in cron' : e \in cron \/ e = A
               /\ nextId <= nextId'
<1>. DEFINE w    == workers[c]
            b    == w.b
            base == versions[b][w.rv]
            A    == Added("create", w)
            v    == [base EXCEPT !.createId = nextId, !.active = base.gen, !.updated = Now]
<1>1. w.pc = "schedule" /\ w.pc \in RegisterPcs
  BY DEF ScheduleCreate, At, RegisterPcs
<1>2. /\ w # Idle /\ w \in Work /\ b \in Objects /\ base \in Version
      /\ ControllerOf[b] = c /\ w.rv \in DOMAIN versions[b]
      /\ base.life = "live" /\ NeedsUpdate(base) /\ base.fin /\ w.obj = base
  BY <1>1, RegisterBase, WorkerBase DEF Registering
<1>3. /\ UNCHANGED <<seen, versions, process, latest>>
      /\ workers \in [Controllers -> Work \cup {Idle}]
      /\ nextId \in Nat /\ nextId' \in Nat /\ Now \in Nat
      /\ \A e \in cron : e.id \in Nat /\ e.id < nextId
  BY NowType DEF ScheduleCreate, apiVars, processVars, IInv, TypeOK, Entry
<1>4. /\ \/ cron' = Without(base.createId) /\ nextId' = nextId /\ Retry(c)
         \/ /\ cron' = Without(base.createId) \cup {A} /\ nextId' = nextId + 1
            /\ \/ Retry(c)
               \/ /\ base.spec.schedule = "good" /\ base.spec.retention = "good"
                  /\ Goto(c, [w EXCEPT !.pc = "retain", !.obj = v])
               \/ /\ base.spec.retention = "none"
                  /\ Goto(c, [w EXCEPT !.pc = "status", !.obj = v])
  <2>. base.spec.retention \in {"none", "good", "bad"}
    BY <1>2 DEF Version, AllSpecs
  <2>. QED
    BY <1>2 DEF ScheduleCreate, ScheduleTask
<1>5. A = [id |-> nextId, task |-> "create", b |-> b, gen |-> base.gen]
  BY <1>2 DEF Added
<1>6. v \in Version /\ v.createId = nextId /\ v.retainId = base.retainId /\ v.active = base.gen
      /\ v.updated = Now /\ v.gen = base.gen /\ v.spec = base.spec
  BY <1>2, <1>3 DEF Version
<1>7. workers'[c] # Idle =>
         /\ cron' = Without(base.createId) \cup {A} /\ nextId' = nextId + 1
         /\ workers'[c].b = b /\ workers'[c].rv = w.rv /\ workers'[c].obj = v
         /\ \/ /\ workers'[c].pc = "retain"
               /\ base.spec.schedule = "good" /\ base.spec.retention = "good"
            \/ workers'[c].pc = "status" /\ base.spec.retention = "none"
  <2>. DEFINE y(pc) == [w EXCEPT !.pc = pc, !.obj = v]
  <2>1. ASSUME NEW pc
        PROVE  y(pc).pc = pc /\ y(pc).obj = v /\ y(pc).b = b /\ y(pc).rv = w.rv
    <3>. HIDE DEF w, v
    <3>. QED
      BY <1>2 DEF Work, b
  <2>. HIDE DEF y
  <2>2. ASSUME NEW pc, Goto(c, y(pc)) PROVE workers'[c] = y(pc)
    BY <1>3, <2>2 DEF Goto
  <2>3. Retry(c) => workers'[c] = Idle
    BY <1>3 DEF Retry
  <2>4. \/ Retry(c)
        \/ /\ cron' = Without(base.createId) \cup {A} /\ nextId' = nextId + 1
           /\ \/ /\ base.spec.schedule = "good" /\ base.spec.retention = "good"
                 /\ Goto(c, y("retain"))
              \/ base.spec.retention = "none" /\ Goto(c, y("status"))
    BY <1>4 DEF y
  <2>. HIDE DEF v, base, A
  <2>. QED
    BY <2>1, <2>2, <2>3, <2>4
<1>8. \A d \in Controllers : d # c => workers'[d] = workers[d]
  BY <1>3, <1>4 DEF Retry, Goto
<1>9. /\ \A e \in cron \ cron' : e.id = base.createId
      /\ \A e \in cron' : e \in cron \/ e = A
      /\ nextId <= nextId'
  BY <1>3, <1>4 DEF Without
<1>. HIDE DEF w, b, base, A, v
<1>. QED
  BY <1>1, <1>2, <1>3, <1>5, <1>6, <1>7, <1>8, <1>9 DEF w, b, base, A, v

LEMMA ScheduleCreateInv ==
    ASSUME IInv, TypeOK', NEW c \in Controllers, ScheduleCreate(c)
    PROVE  AnyProcess' /\ (process' = 1 => FirstProcess')
<1>. DEFINE w    == workers[c]
            b    == w.b
            base == versions[b][w.rv]
            A    == Added("create", w)
            v    == [base EXCEPT !.createId = nextId, !.active = base.gen, !.updated = Now]
<1>1. w.pc = "schedule" /\ w.pc \in RegisterPcs
  BY CreateCall DEF RegisterPcs
<1>2. /\ w # Idle /\ b \in Objects /\ base \in Version
      /\ ControllerOf[b] = c /\ w.rv \in DOMAIN versions[b]
      /\ base.life = "live" /\ NeedsUpdate(base) /\ base.fin
  BY CreateCall
<1>3. /\ UNCHANGED <<seen, versions, process>>
      /\ nextId \in Nat /\ nextId' \in Nat
      /\ \A e \in cron : e.id \in Nat /\ e.id < nextId
  BY CreateCall
<1>5. A = [id |-> nextId, task |-> "create", b |-> b, gen |-> base.gen]
  BY CreateCall
<1>6. v \in Version /\ v.createId = nextId /\ v.retainId = base.retainId /\ v.active = base.gen
      /\ v.updated = Now /\ v.gen = base.gen /\ v.spec = base.spec
  BY CreateCall
<1>7. workers'[c] # Idle =>
         /\ cron' = Without(base.createId) \cup {A} /\ nextId' = nextId + 1
         /\ workers'[c].b = b /\ workers'[c].rv = w.rv /\ workers'[c].obj = v
         /\ \/ /\ workers'[c].pc = "retain"
               /\ base.spec.schedule = "good" /\ base.spec.retention = "good"
            \/ workers'[c].pc = "status" /\ base.spec.retention = "none"
  BY CreateCall
<1>8. \A d \in Controllers : d # c => workers'[d] = workers[d]
  BY CreateCall
<1>9. /\ \A e \in cron \ cron' : e.id = base.createId
      /\ \A e \in cron' : e \in cron \/ e = A
      /\ nextId <= nextId'
  BY CreateCall
<1>. HIDE DEF A
<1>10. ActsOn(c, b)
  <2>. \A e \in cron' : e \in cron \/ (e.b = b /\ e.id = nextId)
    BY <1>5, <1>9
  <2>. QED
    BY <1>2, <1>3, <1>7, <1>8, StepActsOn
<1>11. Copies'
  <2>. SUFFICES ASSUME workers'[c] # Idle PROVE Copy(workers[c])'
    BY <1>2, <1>10, CopiesStep
  <2>1. versions'[workers'[c].b][workers'[c].rv] = base
    BY <1>3, <1>7
  <2>. HIDE DEF w, b, base
  <2>2. v = [base EXCEPT !.createId = v.createId, !.active = base.gen, !.updated = v.updated]
        /\ v = [base EXCEPT !.createId = v.createId, !.active = base.gen, !.updated = v.updated,
                            !.retainId = v.retainId]
    BY <1>2, <1>6 DEF Version
  <2>. HIDE DEF v
  <2>. QED
    BY <1>2, <1>3, <1>7, <2>1, <2>2 DEF Copy, CopyOf, NeedsUpdate, StartedAt
<1>12. Gone'
  BY <1>1, <1>3, <1>10, RegisterGone
<1>13. ASSUME process = 1 PROVE FirstProcess'
  <2>1. FirstProcess /\ Owns(b, base) /\ \A i \in DOMAIN versions[b] : Owns(b, versions[b][i])
    BY <1>2, <1>13 DEF IInv, FirstProcess, NamesOwn
  <2>2. \A e \in cron' : e \in cron \/ e.id = nextId
    BY <1>5, <1>9
  <2>3. /\ \A e \in cron \ cron' : e.b = b
        /\ \A d \in Objects : (\A i \in DOMAIN versions[d] : Owns(d, versions[d][i]))'
        /\ \A d \in Objects : (Replaced(d) /\ TasksRegistered(d))'
    BY <1>1, <1>3, <1>9, <1>13, <2>2, CallTasks
  <2>4. ASSUME workers'[c] # Idle
        PROVE  (Owns(workers[c].b, workers[c].obj) /\ Unrecorded(workers[c]))'
    <3>1. base.createId \in Nat /\ base.retainId \in Nat
      BY <1>2 DEF Version
    <3>2. base.retainId < nextId
      BY <2>1 DEF Owns
    <3>3. \A e \in cron' : /\ e.id = nextId => e = A
                           /\ e.id = base.retainId => e.b = b /\ e.task = "retain"
      <4>. SUFFICES ASSUME NEW e \in cron'
                    PROVE  /\ e.id = nextId => e = A
                           /\ e.id = base.retainId => e.b = b /\ e.task = "retain"
        OBVIOUS
      <4>1. CASE e \in cron
        BY <1>3, <2>1, <4>1 DEF Owns
      <4>2. CASE e = A
        <5>. A.id = nextId
          BY <1>5
        <5>. QED
          BY <1>3, <3>1, <3>2, <4>2
      <4>. QED
        BY <1>9, <4>1, <4>2
    <3>4. Owns(workers[c].b, workers[c].obj)'
      <4>1. /\ workers'[c].b = b /\ workers'[c].obj = v /\ nextId' = nextId + 1
            /\ v.createId = nextId /\ v.retainId = base.retainId
            /\ A.b = b /\ A.task = "create"
        BY <1>5, <1>6, <1>7, <2>4
      <4>. HIDE DEF w, b, base, v
      <4>. QED
        BY <1>3, <3>1, <3>2, <3>3, <4>1 DEF Owns
    <3>5. HasCreate(workers[c].b, workers[c].obj)'
      BY <1>5, <1>6, <1>7, <2>4 DEF HasCreate
    <3>6. \A i \in DOMAIN versions[b] : versions[b][i].createId # nextId
      <4>. \A i \in DOMAIN versions[b] : versions[b][i].createId < nextId
        BY <2>1 DEF Owns
      <4>. QED
        BY <1>3
    <3>7. Unrecorded(workers[c])'
      BY <1>3, <1>6, <1>7, <2>4, <3>5, <3>6 DEF Unrecorded
    <3>. QED
      BY <3>4, <3>7
  <2>5. (workers[c] # Idle => Owns(workers[c].b, workers[c].obj) /\ Unrecorded(workers[c]))'
    BY <2>4
  <2>6. ASSUME NEW d \in Objects, d = b
        PROVE  /\ (\A i \in DOMAIN versions[d] : Owns(d, versions[d][i]))'
               /\ (Replaced(d) /\ TasksRegistered(d))'
    BY <2>3
  <2>. QED
    BY <1>2, <1>7, <1>9, <1>10, <1>13, <2>3, <2>5, <2>6, FirstStep
<1>. QED
  BY <1>3, <1>11, <1>12, <1>13, SameHistory DEF AnyProcess

LEMMA ScheduleRetainInv ==
    ASSUME IInv, TypeOK', NEW c \in Controllers, ScheduleRetain(c)
    PROVE  AnyProcess' /\ (process' = 1 => FirstProcess')
<1>. DEFINE w    == workers[c]
            b    == w.b
            base == versions[b][w.rv]
            A    == Added("retain", w)
            v    == [w.obj EXCEPT !.retainId = nextId]
            x    == [w EXCEPT !.pc = "status", !.obj.retainId = nextId]
<1>1. w.pc = "retain" /\ w.pc \in RegisterPcs
  BY DEF ScheduleRetain, At, RegisterPcs
<1>2. /\ w # Idle /\ w \in Work /\ b \in Objects /\ base \in Version /\ w.obj \in Version
      /\ ControllerOf[b] = c /\ w.rv \in DOMAIN versions[b]
      /\ base.life = "live" /\ NeedsUpdate(base) /\ base.fin
      /\ base.spec.retention = "good" /\ w.obj.retainId = base.retainId
      /\ w.obj.gen = base.gen /\ w.obj.spec = base.spec
      /\ w.obj = [base EXCEPT !.createId = w.obj.createId, !.active = base.gen,
                              !.updated = w.obj.updated]
  BY <1>1, RegisterBase, WorkerBase DEF Registering, CopyOf
<1>3. /\ UNCHANGED <<seen, versions, process>>
      /\ workers \in [Controllers -> Work \cup {Idle}]
      /\ nextId \in Nat /\ nextId' \in Nat
      /\ \A e \in cron : e.id \in Nat /\ e.id < nextId
  BY DEF ScheduleRetain, apiVars, processVars, IInv, TypeOK, Entry
<1>4. /\ cron' = Without(base.retainId) \cup {A} /\ nextId' = nextId + 1
      /\ Goto(c, x)
  BY <1>2 DEF ScheduleRetain, ScheduleTask
<1>5. A = [id |-> nextId, task |-> "retain", b |-> b, gen |-> base.gen]
  BY <1>2 DEF Added
<1>6. /\ v.retainId = nextId /\ v.createId = w.obj.createId /\ v.gen = base.gen
      /\ v.spec = base.spec
      /\ v = [base EXCEPT !.createId = v.createId, !.active = base.gen,
                          !.updated = v.updated, !.retainId = v.retainId]
  <2>. HIDE DEF w, base
  <2>1. /\ v.retainId = nextId /\ v.createId = w.obj.createId /\ v.gen = base.gen
        /\ v.spec = base.spec /\ v.updated = w.obj.updated
    BY <1>2 DEF Version
  <2>2. v = [base EXCEPT !.createId = w.obj.createId, !.active = base.gen,
                         !.updated = w.obj.updated, !.retainId = nextId]
    BY <1>2 DEF Version
  <2>. HIDE DEF v
  <2>. QED
    BY <2>1, <2>2
<1>7. /\ workers'[c].b = b /\ workers'[c].rv = w.rv /\ workers'[c].pc = "status"
      /\ workers'[c].obj = v
      /\ \A d \in Controllers : d # c => workers'[d] = workers[d]
  <2>1. x.b = b /\ x.rv = w.rv /\ x.pc = "status" /\ x.obj = v
    <3>. HIDE DEF w
    <3>. QED
      BY <1>2 DEF Work, b
  <2>. HIDE DEF x
  <2>. QED
    BY <1>3, <1>4, <2>1 DEF Goto
<1>8. /\ \A e \in cron \ cron' : e.id = base.retainId
      /\ \A e \in cron' : e \in cron \/ e = A
      /\ nextId <= nextId'
  BY <1>3, <1>4 DEF Without
<1>. HIDE DEF A, x
<1>9. ActsOn(c, b)
  <2>. \A e \in cron' : e \in cron \/ (e.b = b /\ e.id = nextId)
    BY <1>5, <1>8
  <2>. QED
    BY <1>2, <1>3, <1>7, StepActsOn
<1>10. Copies'
  <2>. SUFFICES Copy(workers[c])'
    BY <1>2, <1>9, CopiesStep
  <2>1. versions'[workers'[c].b][workers'[c].rv] = base
    BY <1>3, <1>7
  <2>. HIDE DEF w, b, base, v
  <2>. QED
    BY <1>2, <1>3, <1>6, <1>7, <2>1 DEF Copy, CopyOf, NeedsUpdate, StartedAt
<1>11. Gone'
  BY <1>1, <1>3, <1>9, RegisterGone
<1>12. ASSUME process = 1 PROVE FirstProcess'
  <2>1. /\ Owns(b, w.obj) /\ \A i \in DOMAIN versions[b] : Owns(b, versions[b][i])
        /\ HasCreate(b, w.obj)
        /\ \A i \in DOMAIN versions[b] : versions[b][i].createId # w.obj.createId
    BY <1>1, <1>2, <1>12 DEF IInv, FirstProcess, NamesOwn, AllUnrecorded, Unrecorded
  <2>2. \A e \in cron' : e \in cron \/ e.id = nextId
    BY <1>5, <1>8
  <2>3. /\ \A e \in cron \ cron' : e.b = b /\ e.task = "retain"
        /\ \A d \in Objects : (\A i \in DOMAIN versions[d] : Owns(d, versions[d][i]))'
        /\ \A d \in Objects : (Replaced(d) /\ TasksRegistered(d))'
    BY <1>1, <1>3, <1>8, <1>12, <2>2, CallTasks
  <2>4. w.obj.createId \in Nat /\ w.obj.createId < nextId
    BY <1>2, <2>1 DEF Version, Owns
  <2>5. ASSUME NEW e \in cron'
        PROVE  /\ e.id = nextId => e = A
               /\ e.id = w.obj.createId => e.b = b /\ e.task = "create"
    <3>1. CASE e \in cron
      BY <1>3, <2>1, <3>1 DEF Owns
    <3>2. CASE e = A
      <4>. A.id = nextId
        BY <1>5
      <4>. QED
        BY <1>3, <2>4, <3>2
    <3>. QED
      BY <1>8, <3>1, <3>2
  <2>6. Owns(workers[c].b, workers[c].obj)'
    BY <1>3, <1>4, <1>5, <1>6, <1>7, <2>4, <2>5 DEF Owns
  <2>7. HasCreate(workers[c].b, workers[c].obj)' /\ HasRetain(workers[c].b, workers[c].obj)'
    <3>1. [id |-> w.obj.createId, task |-> "create", b |-> b, gen |-> w.obj.gen] \in cron'
      BY <2>1, <2>3 DEF HasCreate
    <3>. QED
      BY <1>2, <1>4, <1>5, <1>6, <1>7, <3>1 DEF HasCreate, HasRetain
  <2>8. \A i \in DOMAIN versions[b] : versions[b][i].retainId # nextId
    <3>. \A i \in DOMAIN versions[b] : versions[b][i].retainId < nextId
      BY <2>1 DEF Owns
    <3>. QED
      BY <1>3
  <2>9. Unrecorded(workers[c])'
    BY <1>3, <1>6, <1>7, <2>1, <2>7, <2>8 DEF Unrecorded
  <2>10. ASSUME NEW d \in Objects, d = b
         PROVE  /\ (\A i \in DOMAIN versions[d] : Owns(d, versions[d][i]))'
                /\ (Replaced(d) /\ TasksRegistered(d))'
    BY <2>3
  <2>11. (workers[c] # Idle => Owns(workers[c].b, workers[c].obj) /\ Unrecorded(workers[c]))'
    BY <2>6, <2>9
  <2>. QED
    BY <1>2, <1>7, <1>8, <1>9, <1>12, <2>3, <2>10, <2>11, FirstStep
<1>. QED
  BY <1>3, <1>10, <1>11, <1>12, SameHistory DEF AnyProcess

-----------------------------------------------------------------------------
(* The theorems.                                                           *)

LEMMA InitInv == Init => IInv
<1>. SUFFICES ASSUME Init PROVE IInv
  OBVIOUS
<1>1. TypeOK
  BY InitType
<1>2. \A b \in Objects : /\ DOMAIN versions[b] = {1} /\ versions[b][1] = Absent
                        /\ Stored(b) = Absent /\ Last(b) = 1
  BY DEF Init, Stored, Last
<1>3. /\ Absent.life = "absent" /\ Absent.createId = 0 /\ Absent.retainId = 0
      /\ Absent.active = 0 /\ Absent.gen = 0
  BY DEF Absent
<1>4. Histories
  BY <1>2, <1>3 DEF Histories, History
<1>5. Gone /\ Copies
  BY <1>2 DEF Gone, Copies, Init
<1>6. NamesOwn /\ AllUnrecorded
  BY <1>2, <1>3 DEF NamesOwn, AllUnrecorded, Owns, Init
<1>7. Tasks
  BY <1>2, <1>3 DEF Tasks, Replaced, TasksRegistered, Settled
<1>. QED
  BY <1>1, <1>4, <1>5, <1>6, <1>7 DEF IInv, AnyProcess, FirstProcess

LEMMA NextInv == IInv /\ [Next]_vars => IInv'
<1>. SUFFICES ASSUME IInv, [Next]_vars PROVE IInv'
  OBVIOUS
<1>1. TypeOK'
  BY NextType DEF IInv
<1>2. SUFFICES AnyProcess' /\ (process' = 1 => FirstProcess')
  BY <1>1 DEF IInv
<1>3. ASSUME NEW b \in Objects,
             \/ CreateObject(b) \/ EditObject(b) \/ DeleteObject(b)
             \/ Deliver(b) \/ Enqueue(b) \/ Reconcile(b)
      PROVE  AnyProcess' /\ (process' = 1 => FirstProcess')
  BY <1>1, <1>3, EnvironmentInv, ReconcileInv
<1>4. CASE SecondPasses \/ Restart \/ StandBy \/ TakeOver \/ UNCHANGED vars
  BY <1>1, <1>4, ProcessInv
<1>5. ASSUME NEW c \in Controllers, WorkerStep(c)
      PROVE  AnyProcess' /\ (process' = 1 => FirstProcess')
  BY <1>1, <1>5, AddFinalizerInv, ScheduleCreateInv, ScheduleRetainInv, UpdateStatusInv,
     FinalizerInv DEF WorkerStep
<1>. QED
  BY <1>3, <1>4, <1>5 DEF Next

LEMMA Inductive == Spec => []IInv
BY InitInv, NextInv, PTL DEF Spec

LEMMA InvScheduled == IInv => SettledIsScheduled
BY DEF IInv, FirstProcess, Tasks, SettledIsScheduled

LEMMA InvRemoved == IInv => GoneTaskRemoved
<1>. SUFFICES ASSUME IInv, NEW b \in Objects, Len(versions[b]) > 1, ~Exists(b),
                     NEW e \in TasksOf(b), e.task = "create"
              PROVE  e.id # versions[b][Len(versions[b]) - 1].createId
  BY DEF GoneTaskRemoved
<1>1. Last(b) > 1 /\ Stored(b) = Absent
  <2>. History(b) /\ Last(b) \in DOMAIN versions[b] /\ Stored(b) = versions[b][Last(b)]
    BY LastVersion
  <2>. QED
    BY DEF History, Exists, Last
<1>2. GoneFor(b)
  BY <1>1 DEF IInv, AnyProcess, Gone
<1>3. e \in cron /\ e.b = b /\ e.id # 0
  BY DEF TasksOf, IInv, TypeOK, Entry
<1>. QED
  BY <1>2, <1>3 DEF GoneFor, NoTask, Last

(* In the first process a settled schedule has in the cron the tasks its   *)
(* status names, for its present spec, however many schedules share the    *)
(* cron and however stale the copies are from which they are registered.   *)
THEOREM SettledScheduled == Spec => []SettledIsScheduled
BY InvScheduled, Inductive, PTL

(* The task that the status of a schedule names when it goes is not in the *)
(* cron, in any process.                                                   *)
THEOREM GoneRemoved == Spec => []GoneTaskRemoved
BY InvRemoved, Inductive, PTL

(* A call to the cron is made for the schedule of its worker, and the ids  *)
(* it removes by are of versions of that schedule.                         *)
LEMMA CallRemovesOwn ==
    ASSUME IInv, TypeOK', NEW c \in Controllers, process = 1,
           ScheduleCreate(c) \/ ScheduleRetain(c), NEW e \in cron \ cron'
    PROVE  workers[c] # Idle /\ workers[c].b = e.b /\ workers'[c] # workers[c]
<1>. DEFINE w    == workers[c]
            base == versions[w.b][w.rv]
<1>1. w.pc \in {"schedule", "retain"} /\ w.pc \in RegisterPcs
  BY DEF ScheduleCreate, ScheduleRetain, At, RegisterPcs
<1>2. /\ w # Idle /\ w \in Work /\ w.b \in Objects /\ w.rv \in DOMAIN versions[w.b]
      /\ workers \in [Controllers -> Work \cup {Idle}] /\ FirstProcess
      /\ w.pc = "schedule" => w.obj = base
      /\ w.pc = "retain" => w.obj.retainId = base.retainId
  <2>1. /\ w # Idle /\ w \in Work /\ w.b \in Objects /\ base \in Version
        /\ w.rv \in DOMAIN versions[w.b] /\ CopyOf(w, base)
    BY <1>1, RegisterBase, WorkerBase DEF Registering
  <2>2. workers \in [Controllers -> Work \cup {Idle}] /\ FirstProcess
    BY DEF IInv, TypeOK
  <2>. HIDE DEF base, w
  <2>3. /\ w.pc = "schedule" => w.obj = base
        /\ w.pc = "retain" => w.obj.retainId = base.retainId
    BY <2>1 DEF CopyOf, Version
  <2>. QED
    BY <2>1, <2>2, <2>3
<1>3. e.id \in {base.createId, base.retainId}
  <2>1. CASE ScheduleCreate(c)
    BY <1>2, <2>1 DEF ScheduleCreate, ScheduleTask, Without, At
  <2>2. CASE ScheduleRetain(c)
    BY <1>2, <2>2 DEF ScheduleRetain, ScheduleTask, Without, At
  <2>. QED
    BY <2>1, <2>2
<1>4. e.b = w.b
  BY <1>2, <1>3 DEF FirstProcess, NamesOwn, Owns
<1>5. workers'[c] # w
  <2>1. ASSUME NEW pc, NEW obj PROVE [w EXCEPT !.pc = pc, !.obj = obj].pc = pc
    <3>. HIDE DEF w
    <3>. QED
      BY <1>2 DEF Work
  <2>2. CASE ScheduleCreate(c)
    <3>. DEFINE v == [w.obj EXCEPT !.createId = nextId, !.active = w.obj.gen, !.updated = Now]
    <3>1. w.pc = "schedule"
      BY <2>2 DEF ScheduleCreate, At
    <3>2. \/ Retry(c)
          \/ Goto(c, [w EXCEPT !.pc = "retain", !.obj = v])
          \/ Goto(c, [w EXCEPT !.pc = "status", !.obj = v])
      <4>. w.obj.spec.retention \in {"none", "good", "bad"}
        BY <1>2 DEF Work, Version, AllSpecs
      <4>. QED
        BY <2>2 DEF ScheduleCreate
    <3>3. workers'[c] \in {Idle, [w EXCEPT !.pc = "retain", !.obj = v],
                           [w EXCEPT !.pc = "status", !.obj = v]}
      BY <1>2, <3>2 DEF Retry, Goto
    <3>. HIDE DEF v
    <3>. QED
      BY <1>2, <2>1, <3>1, <3>3
  <2>3. CASE ScheduleRetain(c)
    <3>. DEFINE v == [w.obj EXCEPT !.retainId = nextId]
    <3>1. w.pc = "retain" /\ workers'[c] = [w EXCEPT !.pc = "status", !.obj = v]
      BY <1>2, <2>3 DEF ScheduleRetain, At, Goto, Work
    <3>. HIDE DEF v
    <3>. QED
      BY <2>1, <3>1
  <2>. QED
    BY <2>2, <2>3
<1>. QED
  BY <1>2, <1>4, <1>5

LEMMA StepRemovesOwn == IInv /\ [Next]_vars => RemovesOwn
<1>. DEFINE Own(e) ==
              \E c \in Controllers :
                  \/ workers[c] # Idle /\ workers[c].b = e.b /\ workers'[c] # workers[c]
                  \/ workers[c] = Idle /\ workers'[c] # Idle /\ workers'[c].b = e.b
<1>. SUFFICES ASSUME IInv, [Next]_vars, NEW e \in cron \ cron', process' = 1
              PROVE  Own(e)
  BY DEF RemovesOwn
<1>1. TypeOK' /\ process \in Nat \ {0} /\ latest \in {process, process + 1}
  BY NextType DEF IInv, TypeOK
<1>2. cron' # cron
  OBVIOUS
<1>3. ASSUME NEW b \in Objects, Reconcile(b)
      PROVE  Own(e)
  <2>. DEFINE c    == ControllerOf[b]
              base == Cached(b)
              w    == [pc |-> "finalize", b |-> b, obj |-> base, rv |-> seen[b]]
  <2>1. /\ c \in Controllers /\ seen[b] \in DOMAIN versions[b] /\ base = versions[b][seen[b]]
    BY VersionsExist, ControllerAssumption DEF IInv, Cached
  <2>2. /\ process = 1 /\ workers[c] = Idle /\ workers \in [Controllers -> Work \cup {Idle}]
    BY <1>3 DEF Reconcile, processVars, IInv, TypeOK
  <2>3. \/ /\ workers'[c] = [w EXCEPT !.pc = "unfinalize"] /\ base.life = "deleting"
           /\ cron' = Without(base.createId)
        \/ cron' = cron
    BY <1>3, <2>1, <2>2 DEF Reconcile, Registers
  <2>4. /\ workers'[c] = [w EXCEPT !.pc = "unfinalize"]
        /\ cron' = Without(base.createId)
    BY <1>2, <2>3
  <2>5. e.b = b
    BY <2>1, <2>2, <2>4 DEF Without, IInv, FirstProcess, NamesOwn, Owns
  <2>6. workers'[c].b = b /\ workers'[c].pc = "unfinalize"
    <3>. HIDE DEF base, c
    <3>. QED
      BY <2>4
  <2>. QED
    BY <2>1, <2>2, <2>5, <2>6 DEF Idle
<1>4. ASSUME NEW b \in Objects,
             CreateObject(b) \/ EditObject(b) \/ DeleteObject(b) \/ Deliver(b) \/ Enqueue(b)
      PROVE  FALSE
  BY <1>2, <1>4 DEF CreateObject, EditObject, DeleteObject, Deliver, Enqueue, cronVars
<1>5. CASE Restart \/ TakeOver
  BY <1>1, <1>5 DEF Restart, TakeOver, Leads
<1>6. CASE SecondPasses \/ StandBy \/ UNCHANGED vars
  BY <1>2, <1>6 DEF SecondPasses, StandBy, cronVars, vars
<1>7. ASSUME NEW c \in Controllers, ScheduleCreate(c) \/ ScheduleRetain(c)
      PROVE  Own(e)
  <2>. process = 1
    BY <1>7 DEF ScheduleCreate, ScheduleRetain, processVars
  <2>. QED
    BY <1>1, <1>7, CallRemovesOwn
<1>8. ASSUME NEW c \in Controllers, AddFinalizer(c) \/ UpdateStatus(c) \/ RemoveFinalizer(c)
      PROVE  FALSE
  BY <1>2, <1>8 DEF AddFinalizer, UpdateStatus, RemoveFinalizer, cronVars
<1>. QED
  BY <1>3, <1>4, <1>5, <1>6, <1>7, <1>8 DEF Next, WorkerStep

(* While the first process leads, an entry leaves the cron only in a       *)
(* Reconcile of its own schedule, whatever versions of which schedules     *)
(* Reconciles are made from.                                               *)
THEOREM OnlyOwnRemoved == Spec => OnlyOwnTasksRemoved
BY StepRemovesOwn, Inductive, PTL DEF Spec, OnlyOwnTasksRemoved

-----------------------------------------------------------------------------
(* What a step may store, and what is in the cron for it.                  *)

(* The version v that is stored after u.                                   *)
Moves(u, v) ==
    \/ /\ v.life = u.life /\ v.gen = u.gen
       /\ v.active = u.active /\ v.updated = u.updated
    \/ u = Absent /\ v.life = "live" /\ v.gen = 1 /\ v.active = 0
    \/ /\ u.life = "live" /\ v.life = "live"
       /\ v.gen = u.gen + 1 /\ v.active = u.active /\ NeedsUpdate(v)
    \/ /\ u.life = "live" /\ v.life = "live" /\ NeedsUpdate(u)
       /\ v.gen = u.gen /\ v.active = u.gen
    \/ /\ u.life = "live" /\ v.life = "deleting"
       /\ v.gen = u.gen /\ v.active = u.active
    \/ u.life = "live" /\ u.active = 0 /\ v = Absent
    \/ u.life = "deleting" /\ v = Absent

Stores ==
    /\ UNCHANGED process
    /\ \E b \in Objects, v \in Version : Store(b, v) /\ Moves(Stored(b), v)

LEMMA UserMoves ==
    ASSUME IInv, NEW b \in Objects, CreateObject(b) \/ EditObject(b) \/ DeleteObject(b)
    PROVE  Stores
<1>1. /\ Last(b) \in DOMAIN versions[b] /\ Stored(b) \in Version
      /\ Stored(b).active # 0 => Stored(b).fin
      /\ Stored(b).active <= Stored(b).gen
      /\ Last(b) = 1 => Stored(b) = Absent
  <2>1. /\ Last(b) \in Nat \ {0} /\ DOMAIN versions[b] = 1 .. Last(b)
        /\ Stored(b) = versions[b][Last(b)] /\ Stored(b) \in Version /\ History(b)
    BY LastVersion
  <2>2. Last(b) \in DOMAIN versions[b]
    BY <2>1
  <2>. QED
    BY <2>1, <2>2 DEF History
<1>2. UNCHANGED process
  BY DEF CreateObject, EditObject, DeleteObject, processVars
<1>3. CASE CreateObject(b)
  <2>1. PICK s \in Specs : Store(b, New(s))
    BY <1>3 DEF CreateObject
  <2>2. New(s) \in Version /\ New(s).life = "live" /\ New(s).active = 0 /\ New(s).gen = 1
    BY AbsentType, SpecsAssumption DEF New, Absent
  <2>3. Stored(b) = Absent
    BY <1>1, <1>3 DEF CreateObject, Last
  <2>. QED
    BY <1>2, <2>1, <2>2, <2>3 DEF Stores, Moves
<1>4. CASE EditObject(b)
  <2>1. Stored(b).life = "live"
    BY <1>4 DEF EditObject
  <2>2. CASE Store(b, Stored(b))
    BY <1>1, <1>2, <2>2 DEF Stores, Moves
  <2>3. CASE \E s \in Specs \ {Stored(b).spec} :
                 Store(b, [Stored(b) EXCEPT !.spec = s, !.gen = @ + 1])
    <3>1. PICK s \in Specs : Store(b, [Stored(b) EXCEPT !.spec = s, !.gen = @ + 1])
      BY <2>3
    <3>. DEFINE u == [Stored(b) EXCEPT !.spec = s]
                v == [u EXCEPT !.gen = u.gen + 1]
    <3>2. u \in Version /\ u.gen = Stored(b).gen /\ u.life = "live" /\ u.active = Stored(b).active
      BY <1>1, <2>1, SpecsAssumption DEF Version
    <3>3. Store(b, v)
      BY <3>1
    <3>. HIDE DEF u
    <3>4. u.gen + 1 \in Nat
      BY <3>2 DEF Version
    <3>5. v \in Version /\ v.gen = u.gen + 1 /\ v.life = u.life /\ v.active = u.active
      BY <3>2, <3>4 DEF Version
    <3>. HIDE DEF v
    <3>6. NeedsUpdate(v)
      <4>. u.gen \in Nat /\ u.active \in Nat
        BY <3>2 DEF Version
      <4>. QED
        BY <1>1, <3>2, <3>5 DEF NeedsUpdate
    <3>. QED
      BY <1>2, <2>1, <3>2, <3>3, <3>5, <3>6 DEF Stores, Moves
  <2>. QED
    BY <1>4, <2>2, <2>3 DEF EditObject
<1>5. CASE DeleteObject(b)
  <2>1. Stored(b).life = "live" /\ Store(b, Deleted(Stored(b), Absent))
    BY <1>5 DEF DeleteObject
  <2>2. CASE Stored(b).fin
    <3>. DEFINE v == [Stored(b) EXCEPT !.life = "deleting"]
    <3>1. /\ v \in Version /\ v.life = "deleting" /\ Store(b, v)
          /\ v.active = Stored(b).active /\ v.gen = Stored(b).gen
      BY <1>1, <2>1, <2>2 DEF Version, Deleted
    <3>. HIDE DEF v
    <3>. QED
      BY <1>2, <2>1, <3>1 DEF Stores, Moves
  <2>3. CASE ~Stored(b).fin
    <3>. Store(b, Absent) /\ Stored(b).active = 0
      BY <1>1, <2>1, <2>3 DEF Deleted
    <3>. QED
      BY <1>2, <2>1, AbsentType DEF Stores, Moves
  <2>. QED
    BY <2>2, <2>3
<1>. QED
  BY <1>3, <1>4, <1>5

(* A worker stores the finalizer or a registration, of the version that is *)
(* stored, or takes the finalizer from a schedule that is being deleted.   *)
LEMMA WorkerMoves ==
    ASSUME IInv, NEW c \in Controllers,
           AddFinalizer(c) \/ UpdateStatus(c) \/ RemoveFinalizer(c)
    PROVE  UNCHANGED process /\ (UNCHANGED versions \/ Stores)
<1>. DEFINE w    == workers[c]
            base == versions[w.b][w.rv]
<1>1. UNCHANGED process
  BY DEF AddFinalizer, UpdateStatus, RemoveFinalizer, processVars
<1>2. CASE AddFinalizer(c) \/ UpdateStatus(c)
  <2>1. w.pc \in {"finalize", "status"} /\ w.pc \in RegisterPcs
    BY <1>2 DEF AddFinalizer, UpdateStatus, At, RegisterPcs
  <2>2. UNCHANGED versions \/ (Fresh(w) /\ Store(w.b, w.obj))
    BY <1>2, <2>1, UpdateStores DEF AddFinalizer, UpdateStatus
  <2>3. /\ w.b \in Objects /\ w.obj \in Version /\ base.life = "live" /\ NeedsUpdate(base)
        /\ w.obj.life = "live" /\ w.obj.gen = base.gen
        /\ w.pc = "finalize" => w.obj.active = base.active /\ w.obj.updated = base.updated
        /\ w.pc = "status" => w.obj.active = base.gen
        /\ Fresh(w) => base = Stored(w.b)
    BY <2>1, RegisterBase, WorkerBase DEF Registering
  <2>. HIDE DEF base
  <2>4. CASE Fresh(w) /\ Store(w.b, w.obj)
    BY <1>1, <2>1, <2>3, <2>4 DEF Stores, Moves
  <2>. QED
    BY <1>1, <2>2, <2>4
<1>3. CASE RemoveFinalizer(c)
  <2>1. w.pc = "unfinalize" /\ w # Idle
    BY <1>3 DEF RemoveFinalizer, At, Idle
  <2>2. w.b \in Objects /\ w.rv \in DOMAIN versions[w.b] /\ base.life = "deleting"
    BY <2>1, WorkerBase DEF Copy, CopyOf
  <2>3. \/ UNCHANGED versions
        \/ Store(w.b, Absent) /\ Cached(w.b).life # "absent" /\ seen[w.b] = Len(versions[w.b])
    BY <1>3 DEF RemoveFinalizer
  <2>4. ASSUME Cached(w.b).life # "absent", seen[w.b] = Len(versions[w.b])
        PROVE  Stored(w.b).life = "deleting"
    <3>1. Stored(w.b).life # "absent"
      BY <2>4 DEF Stored, Cached
    <3>2. w.rv = Last(w.b)
      BY <2>2, <3>1, NotSettled
    <3>. QED
      BY <2>2, <3>2, LastVersion
  <2>. QED
    BY <1>1, <2>2, <2>3, <2>4, AbsentType DEF Stores, Moves
<1>. QED
  BY <1>2, <1>3

LEMMA StepStores ==
    ASSUME IInv, [Next]_vars
    PROVE  Stores \/ (UNCHANGED versions /\ process <= process')
<1>1. ASSUME NEW b \in Objects, CreateObject(b) \/ EditObject(b) \/ DeleteObject(b)
      PROVE  Stores
  BY <1>1, UserMoves
<1>2. ASSUME NEW c \in Controllers, AddFinalizer(c) \/ UpdateStatus(c) \/ RemoveFinalizer(c)
      PROVE  UNCHANGED process /\ (UNCHANGED versions \/ Stores)
  BY <1>2, WorkerMoves
<1>3. ASSUME NEW b \in Objects, Deliver(b) \/ Enqueue(b) \/ Reconcile(b)
      PROVE  UNCHANGED <<versions, process>>
  BY <1>3 DEF Deliver, Enqueue, Reconcile, processVars, apiVars
<1>4. ASSUME NEW c \in Controllers, ScheduleCreate(c) \/ ScheduleRetain(c)
      PROVE  UNCHANGED <<versions, process>>
  BY <1>4 DEF ScheduleCreate, ScheduleRetain, processVars, apiVars
<1>5. process \in Nat /\ latest \in {process, process + 1}
  BY DEF IInv, TypeOK
<1>6. UNCHANGED process => process <= process'
  BY <1>5
<1>7. CASE SecondPasses \/ StandBy \/ UNCHANGED vars
  BY <1>6, <1>7 DEF SecondPasses, StandBy, vars, apiVars, processVars
<1>8. CASE Restart \/ TakeOver
  BY <1>5, <1>8 DEF Restart, TakeOver, Leads
<1>. QED
  BY <1>1, <1>2, <1>3, <1>4, <1>6, <1>7, <1>8 DEF Next, WorkerStep

LEMMA StepGrows ==
    ASSUME IInv, [Next]_vars
    PROVE  Grows
<1>1. CASE UNCHANGED versions
  BY <1>1, SameHistory
<1>2. CASE Stores
  BY <1>2, StoreGrows DEF Stores, IInv
<1>. QED
  BY <1>1, <1>2, StepStores
-----------------------------------------------------------------------------
(* What was asked for.                                                     *)

(* A call adds an entry for the version that its copy was made from.       *)
LEMMA CallAsked ==
    ASSUME IInv, NEW c \in Controllers, ScheduleCreate(c) \/ ScheduleRetain(c),
           NEW e \in cron' \ cron
    PROVE  /\ e.b \in Objects /\ workers[c].rv \in DOMAIN versions[e.b]
           /\ AsksFor(e.task, versions[e.b][workers[c].rv])
           /\ versions[e.b][workers[c].rv].gen = e.gen
<1>. DEFINE w    == workers[c]
            base == versions[w.b][w.rv]
<1>1. w.pc \in {"schedule", "retain"} /\ w.pc \in RegisterPcs
  BY DEF ScheduleCreate, ScheduleRetain, At, RegisterPcs
<1>2. /\ w.b \in Objects /\ w.rv \in DOMAIN versions[w.b]
      /\ base.life = "live" /\ base.fin
      /\ w.obj.gen = base.gen /\ w.obj.spec = base.spec
      /\ w.pc = "retain" => base.spec.schedule = "good" /\ base.spec.retention = "good"
  BY <1>1, RegisterBase, WorkerBase DEF Registering
<1>3. CASE ScheduleCreate(c)
  <2>1. e = Added("create", w) /\ w.obj.spec.schedule = "good"
    BY <1>3 DEF ScheduleCreate, ScheduleTask, Without
  <2>2. e.b = w.b /\ e.gen = w.obj.gen /\ e.task = "create"
    BY <2>1 DEF Added
  <2>. QED
    BY <1>2, <2>1, <2>2 DEF AsksFor
<1>4. CASE ScheduleRetain(c)
  <2>1. e = Added("retain", w) /\ w.pc = "retain"
    BY <1>4 DEF ScheduleRetain, ScheduleTask, Without, At
  <2>2. e.b = w.b /\ e.gen = w.obj.gen
    BY <2>1 DEF Added
  <2>. QED
    BY <1>2, <2>1, <2>2 DEF AsksFor
<1>. QED
  BY <1>3, <1>4

LEMMA StepAdds ==
    ASSUME IInv, [Next]_vars, NEW e \in cron' \ cron
    PROVE  \E c \in Controllers : ScheduleCreate(c) \/ ScheduleRetain(c)
<1>1. ASSUME NEW b \in Objects,
             \/ CreateObject(b) \/ EditObject(b) \/ DeleteObject(b)
             \/ Deliver(b) \/ Enqueue(b) \/ Reconcile(b)
      PROVE  FALSE
  BY <1>1 DEF CreateObject, EditObject, DeleteObject, Deliver, Enqueue, Reconcile, cronVars,
              Without
<1>2. CASE SecondPasses \/ Restart \/ StandBy \/ TakeOver \/ UNCHANGED vars
  BY <1>2 DEF SecondPasses, Restart, StandBy, TakeOver, Leads, cronVars, vars
<1>3. ASSUME NEW c \in Controllers, AddFinalizer(c) \/ UpdateStatus(c) \/ RemoveFinalizer(c)
      PROVE  FALSE
  BY <1>3 DEF AddFinalizer, UpdateStatus, RemoveFinalizer, cronVars
<1>. QED
  BY <1>1, <1>2, <1>3 DEF Next, WorkerStep

LEMMA AskedStep ==
    ASSUME IInv, [Next]_vars, TasksWereAsked
    PROVE  TasksWereAsked'
<1>. SUFFICES ASSUME NEW e \in cron'
              PROVE  \E i \in DOMAIN versions'[e.b] :
                         AsksFor(e.task, versions'[e.b][i]) /\ versions'[e.b][i].gen = e.gen
  BY DEF TasksWereAsked, AsksFor
<1>1. /\ e.b \in Objects
      /\ \E i \in DOMAIN versions[e.b] :
            AsksFor(e.task, versions[e.b][i]) /\ versions[e.b][i].gen = e.gen
  <2>1. CASE e \in cron
    <3>. e.b \in Objects
      BY <2>1 DEF IInv, TypeOK, Entry
    <3>. QED
      BY <2>1 DEF TasksWereAsked
  <2>2. CASE e \notin cron
    <3>1. PICK c \in Controllers : ScheduleCreate(c) \/ ScheduleRetain(c)
      BY <2>2, StepAdds
    <3>. QED
      BY <2>2, <3>1, CallAsked
  <2>. QED
    BY <2>1, <2>2
<1>2. \A i \in DOMAIN versions[e.b] :
         i \in DOMAIN versions'[e.b] /\ versions'[e.b][i] = versions[e.b][i]
  BY <1>1, StepGrows DEF Grows
<1>. QED
  BY <1>1, <1>2

(* What the cron runs was asked for, by a version that was stored with the *)
(* finalizer, in every process.                                            *)
THEOREM OnlyAsked == Spec => []TasksWereAsked
<1>1. Init => TasksWereAsked
  BY DEF Init, TasksWereAsked
<1>. QED
  BY <1>1, AskedStep, Inductive, PTL DEF Spec

-----------------------------------------------------------------------------
(* The parts that hold in every process, if none waits to be elected: ids  *)
(* of a registration of this process, told by its time, are of no entry    *)
(* but its own.                                                            *)

OwnsCreate(b, v) == v.createId < nextId /\ NamesOwnCreate(b, v)
OwnsRetain(b, v) == v.retainId < nextId /\ NamesOwnRetain(b, v)

Registered(b, v) ==
    v.updated >= StartedAt =>
        /\ OwnsCreate(b, v)
        /\ v.active = v.gen /\ v.spec.retention = "good" => OwnsRetain(b, v)

(* No time is later than this process, so that the next one finds none of  *)
(* its own.                                                                *)
Dated(b, v) == v.updated <= StartedAt /\ Registered(b, v)

DatedWork(w) ==
    /\ w.pc \in {"retain", "status"} => w.obj.updated <= StartedAt /\ OwnsCreate(w.b, w.obj)
    /\ w.pc = "status" /\ w.obj.spec.retention = "good" => OwnsRetain(w.b, w.obj)

Current ==
    /\ latest = process
    /\ \A b \in Objects : \A i \in DOMAIN versions[b] : Dated(b, versions[b][i])
    /\ \A c \in Controllers : workers[c] # Idle => DatedWork(workers[c])

(* Ids that are given stay those of the entries they are of.               *)
LEMMA OwnedKept ==
    ASSUME TypeOK, TypeOK', nextId <= nextId', \A e \in cron' : e \in cron \/ e.id = nextId,
           NEW b, NEW v \in Version
    PROVE  /\ OwnsCreate(b, v) => OwnsCreate(b, v)'
           /\ OwnsRetain(b, v) => OwnsRetain(b, v)'
           /\ UNCHANGED process /\ Dated(b, v) => Dated(b, v)'
<1>. v.createId \in Nat /\ v.retainId \in Nat /\ nextId \in Nat /\ nextId' \in Nat
  BY DEF Version, TypeOK
<1>1. /\ OwnsCreate(b, v) => OwnsCreate(b, v)'
      /\ OwnsRetain(b, v) => OwnsRetain(b, v)'
  BY DEF OwnsCreate, OwnsRetain, NamesOwnCreate, NamesOwnRetain
<1>. QED
  BY <1>1 DEF Dated, Registered, StartedAt

(* It suffices that a version that is stored and a worker that goes on are *)
(* as they should be.                                                      *)
LEMMA CurrentStep ==
    ASSUME IInv, TypeOK', Current, UNCHANGED <<process, latest>>, nextId <= nextId',
           \A e \in cron' : e \in cron \/ e.id = nextId,
           UNCHANGED versions \/ \E b \in Objects, v \in Version : Store(b, v) /\ Dated(b, v),
           \A c \in Controllers :
               workers'[c] \in {Idle, workers[c]} \/ DatedWork(workers[c])'
    PROVE  Current'
<1>1. ASSUME NEW b \in Objects, NEW i \in DOMAIN versions'[b]
      PROVE  versions'[b][i] \in Version /\ Dated(b, versions'[b][i])
  <2>1. CASE UNCHANGED versions
    BY <1>1, <2>1, LastVersion DEF Current
  <2>2. ASSUME NEW d \in Objects, NEW v \in Version, Store(d, v), Dated(d, v)
        PROVE  versions'[b][i] \in Version /\ Dated(b, versions'[b][i])
    <3>1. \/ versions'[b][i] = v /\ b = d
          \/ i \in DOMAIN versions[b] /\ versions'[b][i] = versions[b][i]
      BY <1>1, <2>2, StoreGrows, LastVersion DEF IInv
    <3>. QED
      BY <2>2, <3>1, LastVersion DEF Current
  <2>. QED
    BY <2>1, <2>2
<1>2. StartedAt' = StartedAt
  BY DEF StartedAt
<1>3. ASSUME NEW b \in Objects, NEW i \in DOMAIN versions'[b]
      PROVE  Dated(b, versions[b][i])'
  <2>1. ASSUME NEW v \in Version, v = versions'[b][i]
        PROVE  Dated(b, v)'
    BY <1>1, <1>3, <2>1, OwnedKept DEF IInv
  <2>. QED
    BY <1>1, <1>3, <2>1 DEF Dated, Registered, OwnsCreate, OwnsRetain, NamesOwnCreate,
                            NamesOwnRetain
<1>4. ASSUME NEW c \in Controllers, workers'[c] # Idle
      PROVE  DatedWork(workers[c])'
  <2>. SUFFICES ASSUME workers'[c] = workers[c] PROVE DatedWork(workers[c])'
    BY <1>4
  <2>1. DatedWork(workers[c]) /\ workers[c].obj \in Version /\ TypeOK
    BY <1>4, WorkerBase DEF Current, IInv
  <2>2. ASSUME NEW b, NEW v \in Version, b = workers[c].b, v = workers[c].obj
        PROVE  /\ OwnsCreate(b, v) => OwnsCreate(b, v)'
               /\ OwnsRetain(b, v) => OwnsRetain(b, v)'
    BY <2>1, OwnedKept
  <2>. QED
    BY <1>2, <2>1, <2>2 DEF DatedWork, OwnsCreate, OwnsRetain, NamesOwnCreate, NamesOwnRetain
<1>. QED
  BY <1>3, <1>4 DEF Current

(* A version that says no more of tasks than one that is stored.           *)
LEMMA KeepsDated ==
    ASSUME IInv, Current, NEW b \in Objects, NEW i \in DOMAIN versions[b], NEW v \in Version,
           Keeps(versions[b][i], v)
    PROVE  Dated(b, v)
<1>1. Dated(b, versions[b][i]) /\ StartedAt \in Nat /\ StartedAt > 0
  BY DEF Current, IInv, TypeOK, StartedAt
<1>. QED
  BY <1>1 DEF Keeps, Dated, Registered, OwnsCreate, OwnsRetain, NamesOwnCreate, NamesOwnRetain

(* The first version a process stores after the ones it finds: none of     *)
(* these was registered in it.                                             *)
LEMMA LeadsCurrent ==
    ASSUME IInv, Current, Leads, latest' = latest + 1
    PROVE  Current'
<1>1. /\ versions' = versions /\ process' = process + 1 /\ latest' = process'
      /\ process \in Nat /\ StartedAt = 2 * process /\ StartedAt' = 2 * process'
      /\ \A c \in Controllers : workers'[c] = Idle
  BY DEF Leads, Current, IInv, TypeOK, StartedAt
<1>2. ASSUME NEW b \in Objects, NEW i \in DOMAIN versions[b]
      PROVE  versions[b][i].updated <= StartedAt' /\ ~(versions[b][i].updated >= StartedAt')
  <2>. versions[b][i].updated \in Nat /\ versions[b][i].updated <= StartedAt
    BY <1>2, LastVersion DEF Current, Dated, Version
  <2>. QED
    BY <1>1
<1>. QED
  BY <1>1, <1>2 DEF Current, Dated, Registered

LEMMA UserCurrent ==
    ASSUME IInv, TypeOK', Current, NEW b \in Objects,
           \/ CreateObject(b) \/ EditObject(b) \/ DeleteObject(b)
           \/ Deliver(b) \/ Enqueue(b)
    PROVE  Current'
<1>1. UNCHANGED <<workers, cron, nextId, process, latest>> /\ nextId \in Nat
  BY DEF CreateObject, EditObject, DeleteObject, Deliver, Enqueue, cronVars, processVars,
         IInv, TypeOK
<1>2. CASE CreateObject(b) \/ EditObject(b) \/ DeleteObject(b)
  <2>1. PICK v \in Version : Store(b, v) /\ Keeps(Stored(b), v)
    BY <1>2, UserStores
  <2>2. Last(b) \in DOMAIN versions[b] /\ Stored(b) = versions[b][Last(b)]
    BY LastVersion
  <2>3. Dated(b, v)
    BY <2>1, <2>2, KeepsDated
  <2>. QED
    BY <1>1, <2>1, <2>3, CurrentStep
<1>3. CASE Deliver(b) \/ Enqueue(b)
  <2>. UNCHANGED versions
    BY <1>3 DEF Deliver, Enqueue, apiVars
  <2>. QED
    BY <1>1, CurrentStep
<1>. QED
  BY <1>2, <1>3

LEMMA ReconcileCurrent ==
    ASSUME IInv, TypeOK', Current, NEW b \in Objects, Reconcile(b)
    PROVE  Current'
<1>1. UNCHANGED <<versions, nextId, process, latest>> /\ nextId \in Nat
  BY DEF Reconcile, apiVars, processVars, IInv, TypeOK
<1>2. \A e \in cron' : e \in cron
  BY DEF Reconcile, Without
<1>3. ASSUME NEW d \in Controllers, workers'[d] # workers[d], workers'[d] # Idle
      PROVE  workers'[d].pc \in {"finalize", "schedule", "unfinalize"}
  <2>. DEFINE w == [pc |-> "finalize", b |-> b, obj |-> Cached(b), rv |-> seen[b]]
  <2>. workers \in [Controllers -> Work \cup {Idle}]
    BY DEF IInv, TypeOK
  <2>1. workers'[d] \in {[w EXCEPT !.pc = "unfinalize"], [w EXCEPT !.pc = "schedule"],
                         [w EXCEPT !.obj.fin = TRUE]}
    BY <1>3 DEF Reconcile
  <2>. QED
    BY <2>1
<1>. QED
  BY <1>1, <1>2, <1>3, CurrentStep DEF DatedWork

(* What is stored of a registration is what was registered.                *)
LEMMA StoreCurrent ==
    ASSUME IInv, TypeOK', Current, NEW c \in Controllers,
           AddFinalizer(c) \/ UpdateStatus(c) \/ RemoveFinalizer(c)
    PROVE  Current'
<1>. DEFINE w    == workers[c]
            base == versions[w.b][w.rv]
<1>1. UNCHANGED <<cron, nextId, process, latest>> /\ nextId \in Nat
  BY DEF AddFinalizer, UpdateStatus, RemoveFinalizer, cronVars, processVars, IInv, TypeOK
<1>2. \A d \in Controllers : workers'[d] \in {Idle, workers[d]} \/ DatedWork(workers[d])'
  <2>1. workers \in [Controllers -> Work \cup {Idle}]
    BY DEF IInv, TypeOK
  <2>2. CASE AddFinalizer(c)
    <3>1. /\ \A d \in Controllers : d # c => workers'[d] = workers[d]
          /\ \/ workers'[c] = Idle
             \/ workers'[c] = [w EXCEPT !.pc = "schedule", !.rv = NewRv(w.b)]
      BY <2>1, <2>2 DEF AddFinalizer, Goto, Retry
    <3>2. w \in Work
      BY <2>1, <2>2 DEF AddFinalizer, At, Idle
    <3>3. [w EXCEPT !.pc = "schedule", !.rv = NewRv(w.b)].pc = "schedule"
      <4>. HIDE DEF w
      <4>. QED
        BY <3>2 DEF Work
    <3>. QED
      BY <3>1, <3>3 DEF DatedWork
  <2>3. CASE UpdateStatus(c) \/ RemoveFinalizer(c)
    BY <2>1, <2>3 DEF UpdateStatus, RemoveFinalizer, Done, Goto, Retry
  <2>. QED
    BY <2>2, <2>3
<1>3. ASSUME w.pc \in {"finalize", "status"}, UNCHANGED versions \/ Store(w.b, w.obj)
      PROVE  UNCHANGED versions \/ \E b \in Objects, v \in Version : Store(b, v) /\ Dated(b, v)
  <2>1. w.pc \in RegisterPcs
    BY <1>3 DEF RegisterPcs
  <2>2. /\ w # Idle /\ w.b \in Objects /\ w.obj \in Version /\ w.rv \in DOMAIN versions[w.b]
        /\ Registering(w, base)
    BY <2>1, RegisterBase, WorkerBase
  <2>3. CASE w.pc = "finalize"
    <3>1. Keeps(base, w.obj)
      BY <2>2, <2>3 DEF Registering, Keeps
    <3>. QED
      BY <1>3, <2>2, <3>1, KeepsDated
  <2>4. CASE w.pc = "status"
    <3>1. Dated(w.b, w.obj)
      BY <2>2, <2>4 DEF Current, DatedWork, Dated, Registered
    <3>. QED
      BY <1>3, <2>2, <3>1
  <2>. QED
    BY <1>3, <2>3, <2>4
<1>4. UNCHANGED versions \/ \E b \in Objects, v \in Version : Store(b, v) /\ Dated(b, v)
  <2>1. CASE AddFinalizer(c) \/ UpdateStatus(c)
    <3>1. w.pc \in {"finalize", "status"} /\ w.pc \in RegisterPcs
      BY <2>1 DEF AddFinalizer, UpdateStatus, At, RegisterPcs
    <3>2. UNCHANGED versions \/ Store(w.b, w.obj)
      BY <2>1, <3>1, UpdateStores DEF AddFinalizer, UpdateStatus
    <3>. QED
      BY <1>3, <3>1, <3>2
  <2>2. CASE RemoveFinalizer(c)
    <3>1. w # Idle /\ (UNCHANGED versions \/ Store(w.b, Absent))
      BY <2>2 DEF RemoveFinalizer, At, Idle
    <3>2. w.b \in Objects /\ w.rv \in DOMAIN versions[w.b] /\ Absent \in Version
      BY <3>1, WorkerBase, AbsentType
    <3>3. Keeps(base, Absent)
      BY DEF Keeps, Absent
    <3>. QED
      BY <3>1, <3>2, <3>3, KeepsDated
  <2>. QED
    BY <2>1, <2>2
<1>. QED
  BY <1>1, <1>2, <1>4, CurrentStep

LEMMA CreateCurrent ==
    ASSUME IInv, TypeOK', Current, NEW c \in Controllers, ScheduleCreate(c)
    PROVE  Current'
<1>. DEFINE w    == workers[c]
            base == versions[w.b][w.rv]
            A    == Added("create", w)
            v    == [base EXCEPT !.createId = nextId, !.active = base.gen, !.updated = Now]
<1>1. /\ UNCHANGED <<versions, process, latest>> /\ nextId <= nextId' /\ nextId \in Nat
      /\ A = [id |-> nextId, task |-> "create", b |-> w.b, gen |-> base.gen]
      /\ \A e \in cron : e.id \in Nat /\ e.id < nextId
      /\ \A e \in cron' : e \in cron \/ e = A
      /\ \A d \in Controllers : d # c => workers'[d] = workers[d]
      /\ v.createId = nextId /\ v.updated = Now /\ v.spec = base.spec
      /\ workers'[c] # Idle =>
            /\ workers'[c].b = w.b /\ workers'[c].obj = v /\ nextId' = nextId + 1
            /\ workers'[c].pc = "retain" \/ base.spec.retention = "none"
  BY CreateCall
<1>. HIDE DEF v
<1>2. Now <= StartedAt /\ StartedAt' = StartedAt /\ nextId < nextId + 1
      /\ A.id = nextId /\ A.b = w.b /\ A.task = "create"
  BY <1>1 DEF Now, StartedAt, Current, IInv, TypeOK
<1>. HIDE DEF A
<1>3. workers'[c] # Idle => DatedWork(workers[c])'
  <2>1. \A e \in cron' : e.id = nextId => e = A
    BY <1>1
  <2>2. workers'[c] # Idle => OwnsCreate(workers[c].b, workers[c].obj)'
    BY <1>1, <1>2, <2>1 DEF OwnsCreate, NamesOwnCreate
  <2>. QED
    BY <1>1, <1>2, <2>2 DEF DatedWork
<1>. QED
  BY <1>1, <1>2, <1>3, CurrentStep

LEMMA RetainCurrent ==
    ASSUME IInv, TypeOK', Current, NEW c \in Controllers, ScheduleRetain(c)
    PROVE  Current'
<1>. DEFINE w == workers[c]
            A == Added("retain", w)
            v == [w.obj EXCEPT !.retainId = nextId]
            x == [w EXCEPT !.pc = "status", !.obj = v]
<1>1. w.pc = "retain" /\ w # Idle
  BY DEF ScheduleRetain, At, Idle
<1>2. /\ w \in Work /\ w.obj \in Version /\ DatedWork(w) /\ TypeOK
  BY <1>1, WorkerBase DEF Current, IInv
<1>3. /\ UNCHANGED <<versions, process, latest>>
      /\ nextId \in Nat /\ nextId' = nextId + 1
      /\ workers \in [Controllers -> Work \cup {Idle}]
      /\ \A e \in cron : e.id \in Nat /\ e.id < nextId
      /\ \A e \in cron' : e \in cron \/ e = A
      /\ workers' = [workers EXCEPT ![c] = x]
  BY DEF ScheduleRetain, ScheduleTask, Without, Goto, apiVars, processVars, IInv, TypeOK, Entry
<1>4. A.id = nextId /\ A.b = w.b /\ A.task = "retain"
  BY DEF Added
<1>5. /\ v.retainId = nextId /\ v.createId = w.obj.createId /\ v.updated = w.obj.updated
      /\ v \in Version
  <2>. HIDE DEF w
  <2>. QED
    BY <1>2, <1>3 DEF Version
<1>6. x.b = w.b /\ x.obj = v
  <2>. HIDE DEF w, v
  <2>. QED
    BY <1>2 DEF Work
<1>. HIDE DEF A, x, v
<1>7. /\ workers'[c].b = w.b /\ workers'[c].obj = v
      /\ \A d \in Controllers : d # c => workers'[d] = workers[d]
  BY <1>3, <1>6
<1>8. w.obj.updated <= StartedAt /\ StartedAt' = StartedAt /\ OwnsCreate(w.b, v)
  BY <1>1, <1>2, <1>3, <1>5 DEF DatedWork, StartedAt, OwnsCreate, NamesOwnCreate
<1>9. nextId <= nextId' /\ \A e \in cron' : e \in cron \/ e.id = nextId
  BY <1>3, <1>4
<1>10. OwnsCreate(workers[c].b, workers[c].obj)'
  BY <1>3, <1>4, <1>5, <1>7, <1>8, <1>9 DEF OwnsCreate, NamesOwnCreate, Version
<1>11. OwnsRetain(workers[c].b, workers[c].obj)'
  <2>1. \A e \in cron' : e.id = nextId => e = A
    BY <1>3
  <2>. QED
    BY <1>3, <1>4, <1>5, <1>7, <2>1 DEF OwnsRetain, NamesOwnRetain
<1>12. DatedWork(workers[c])'
  BY <1>5, <1>7, <1>8, <1>10, <1>11 DEF DatedWork
<1>. QED
  BY <1>3, <1>7, <1>9, <1>12, CurrentStep

LEMMA InitCurrent == Init => Current
<1>. SUFFICES ASSUME Init PROVE Current
  OBVIOUS
<1>1. \A b \in Objects : DOMAIN versions[b] = {1} /\ versions[b][1] = Absent
  BY DEF Init
<1>2. StartedAt = 2 /\ Absent.updated = 0 /\ latest = process
  BY DEF Init, StartedAt, Absent
<1>. QED
  BY <1>1, <1>2 DEF Current, Dated, Registered, Init

LEMMA NextCurrent ==
    ASSUME IInv, [Next]_vars, Current, ~LeaderElect
    PROVE  Current'
<1>1. TypeOK'
  BY NextType DEF IInv
<1>2. ASSUME NEW b \in Objects,
             \/ CreateObject(b) \/ EditObject(b) \/ DeleteObject(b)
             \/ Deliver(b) \/ Enqueue(b) \/ Reconcile(b)
      PROVE  Current'
  BY <1>1, <1>2, UserCurrent, ReconcileCurrent
<1>3. CASE SecondPasses \/ UNCHANGED vars
  <2>. UNCHANGED <<versions, workers, cron, nextId, process, latest>> /\ nextId \in Nat
    BY <1>3 DEF SecondPasses, vars, apiVars, cronVars, processVars, IInv, TypeOK
  <2>. QED
    BY <1>1, CurrentStep
<1>4. CASE Restart
  BY <1>4, LeadsCurrent DEF Restart
<1>5. CASE StandBy \/ TakeOver
  BY <1>5 DEF StandBy, TakeOver, Current
<1>6. ASSUME NEW c \in Controllers, WorkerStep(c)
      PROVE  Current'
  BY <1>1, <1>6, StoreCurrent, CreateCurrent, RetainCurrent DEF WorkerStep
<1>. QED
  BY <1>2, <1>3, <1>4, <1>5, <1>6 DEF Next

LEMMA CurrentNames ==
    ASSUME IInv, Current
    PROVE  RegisteredNamesOwn
<1>. SUFFICES ASSUME NEW b \in Objects
              PROVE  /\ Stored(b).updated >= StartedAt => NamesOwnCreate(b, Stored(b))
                     /\ Settled(b) /\ Stored(b).spec.retention = "good" =>
                           NamesOwnRetain(b, Stored(b))
  BY DEF RegisteredNamesOwn
<1>1. Stored(b) \in Version /\ Registered(b, Stored(b))
  <2>. /\ Last(b) \in DOMAIN versions[b] /\ Stored(b) = versions[b][Last(b)]
       /\ Stored(b) \in Version
    BY LastVersion
  <2>. QED
    BY DEF Current, Dated
<1>2. Settled(b) => Stored(b).active = Stored(b).gen /\ Stored(b).updated >= StartedAt
  BY <1>1, NowType DEF Settled, NeedsUpdate, Version, IInv
<1>. QED
  BY <1>1, <1>2 DEF Registered, OwnsCreate, OwnsRetain

(* In any process, if none waits to be elected, the ids that a schedule    *)
(* registered in it has in its status are of no other schedule's entries.  *)
THEOREM RegisteredOwn == Spec => []RegisteredNamesOwn
<1>1. Init => (~LeaderElect => Current)
  BY InitCurrent
<1>2. IInv /\ [Next]_vars /\ (~LeaderElect => Current) => (~LeaderElect => Current)'
  BY NextCurrent
<1>3. IInv /\ (~LeaderElect => Current) => RegisteredNamesOwn
  BY CurrentNames DEF RegisteredNamesOwn
<1>. QED
  BY <1>1, <1>2, <1>3, Inductive, PTL DEF Spec
=============================================================================
