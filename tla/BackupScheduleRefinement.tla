---------------------- MODULE BackupScheduleRefinement ----------------------
(* The schedules keep the promise of ScheduleLifecycle: proved for every   *)
(* set of schedules and controllers and every bound, with and without      *)
(* --leader-elect.                                                         *)
EXTENDS BackupScheduleSafety

-----------------------------------------------------------------------------
(* A version that follows another moves its schedule along the life cycle. *)

LEMMA SameStored ==
    ASSUME NEW b \in Objects, Stored(b)' = Stored(b), UNCHANGED process
    PROVE  Settled(b)' = Settled(b)
BY DEF Settled, NeedsUpdate, StartedAt

LEMMA StoreMaps ==
    ASSUME IInv, NEW b \in Objects, NEW v \in Version, Store(b, v), Moves(Stored(b), v),
           UNCHANGED process
    PROVE  [Lifecycle!Next]_(Lifecycle!vars)
<1>. DEFINE life    == [c \in Objects |-> Stored(c).life]
            gen     == [c \in Objects |-> Stored(c).gen]
            active  == [c \in Objects |-> Stored(c).active]
            settled == [c \in Objects |-> Settled(c)]
            u       == Stored(b)
<1>1. Stored(b)' = v /\ \A c \in Objects : c # b => Stored(c)' = Stored(c)
  <2>. TypeOK
    BY DEF IInv
  <2>. QED
    BY StoreGrows DEF Stored
<1>2. /\ life' = [life EXCEPT ![b] = v.life] /\ life[b] = u.life
      /\ gen' = [gen EXCEPT ![b] = v.gen] /\ gen[b] = u.gen
      /\ active' = [active EXCEPT ![b] = v.active] /\ active[b] = u.active
      /\ v.life = u.life => UNCHANGED life
      /\ v.gen = u.gen => UNCHANGED gen
      /\ v.active = u.active => UNCHANGED active
  BY <1>1
<1>3. /\ settled' = [settled EXCEPT ![b] = Settled(b)'] /\ settled[b] = Settled(b)
      /\ Settled(b)' = Settled(b) => UNCHANGED settled
  <2>1. \A c \in Objects : c # b => Settled(c)' = Settled(c)
    BY <1>1, SameStored
  <2>. QED
    BY <2>1
<1>4. /\ Settled(b) = (u.life = "live" /\ ~NeedsUpdate(u))
      /\ Settled(b)' = (v.life = "live" /\ ~NeedsUpdate(v))
  BY <1>1 DEF Settled, NeedsUpdate, StartedAt
<1>5. u \in Version /\ Absent.life = "absent" /\ Absent.gen = 0 /\ Absent.active = 0
  BY LastVersion DEF Absent
<1>6. CASE /\ v.life = u.life /\ v.gen = u.gen
           /\ v.active = u.active /\ v.updated = u.updated
  <2>. Settled(b)' = Settled(b)
    BY <1>4, <1>6 DEF NeedsUpdate
  <2>. QED
    BY <1>2, <1>3, <1>6 DEF Lifecycle!vars
<1>7. CASE u = Absent /\ v.life = "live" /\ v.gen = 1 /\ v.active = 0
  <2>. Settled(b)' = Settled(b)
    BY <1>4, <1>5, <1>7 DEF NeedsUpdate
  <2>. Lifecycle!Create(b)
    BY <1>2, <1>3, <1>5, <1>7 DEF Lifecycle!Create
  <2>. QED
    BY DEF Lifecycle!Next
<1>8. CASE /\ u.life = "live" /\ v.life = "live"
           /\ v.gen = u.gen + 1 /\ v.active = u.active /\ NeedsUpdate(v)
  <2>1. settled' = [settled EXCEPT ![b] = FALSE]
    <3>. Settled(b)' = FALSE
      BY <1>4, <1>8
    <3>. QED
      BY <1>3
  <2>2. gen' = [gen EXCEPT ![b] = @ + 1]
    BY <1>2, <1>8
  <2>. Lifecycle!Edit(b)
    BY <1>2, <1>8, <2>1, <2>2 DEF Lifecycle!Edit
  <2>. QED
    BY DEF Lifecycle!Next
<1>9. CASE /\ u.life = "live" /\ v.life = "live" /\ NeedsUpdate(u)
           /\ v.gen = u.gen /\ v.active = u.gen
  <2>1. \E s \in BOOLEAN : settled' = [settled EXCEPT ![b] = s]
    <3>. Settled(b)' \in BOOLEAN
      BY DEF Settled
    <3>. QED
      BY <1>3
  <2>2. ~settled[b]
    BY <1>3, <1>4, <1>9
  <2>. Lifecycle!Register(b)
    BY <1>2, <1>9, <2>1, <2>2 DEF Lifecycle!Register
  <2>. QED
    BY DEF Lifecycle!Next
<1>10. CASE /\ u.life = "live" /\ v.life = "deleting"
            /\ v.gen = u.gen /\ v.active = u.active
  <2>1. settled' = [settled EXCEPT ![b] = FALSE]
    <3>. Settled(b)' = FALSE
      BY <1>4, <1>10
    <3>. QED
      BY <1>3
  <2>. Lifecycle!RequestDeletion(b)
    BY <1>2, <1>10, <2>1 DEF Lifecycle!RequestDeletion
  <2>. QED
    BY DEF Lifecycle!Next
<1>11. CASE u.life = "live" /\ u.active = 0 /\ v = Absent
  <2>1. settled' = [settled EXCEPT ![b] = FALSE]
    <3>. Settled(b)' = FALSE
      BY <1>4, <1>5, <1>11
    <3>. QED
      BY <1>3
  <2>. Lifecycle!DeleteUntouched(b)
    BY <1>2, <1>5, <1>11, <2>1 DEF Lifecycle!DeleteUntouched
  <2>. QED
    BY DEF Lifecycle!Next
<1>12. CASE u.life = "deleting" /\ v = Absent
  <2>. Settled(b)' = Settled(b)
    BY <1>4, <1>5, <1>12
  <2>. Lifecycle!Finalize(b)
    BY <1>2, <1>3, <1>5, <1>12 DEF Lifecycle!Finalize
  <2>. QED
    BY DEF Lifecycle!Next
<1>. QED
  BY <1>6, <1>7, <1>8, <1>9, <1>10, <1>11, <1>12 DEF Moves

(* A later process takes fewer schedules for settled.                      *)
LEMMA ProcessMaps ==
    ASSUME IInv, UNCHANGED versions, process' \in Nat, process <= process'
    PROVE  [Lifecycle!Next]_(Lifecycle!vars)
<1>. DEFINE life    == [c \in Objects |-> Stored(c).life]
            gen     == [c \in Objects |-> Stored(c).gen]
            active  == [c \in Objects |-> Stored(c).active]
            settled == [c \in Objects |-> Settled(c)]
            kept    == {c \in Objects : Settled(c)'}
<1>1. \A c \in Objects : Stored(c)' = Stored(c)
  BY DEF Stored
<1>2. UNCHANGED <<life, gen, active>>
  BY <1>1
<1>3. \A c \in Objects : Settled(c)' => Settled(c)
  <2>. SUFFICES ASSUME NEW c \in Objects, NeedsUpdate(Stored(c)) PROVE NeedsUpdate(Stored(c))'
    BY <1>1 DEF Settled
  <2>. Stored(c).updated \in Nat /\ process \in Nat
    <3>. Stored(c) \in Version
      BY LastVersion
    <3>. QED
      BY DEF Version, IInv, TypeOK
  <2>. QED
    BY <1>1 DEF NeedsUpdate, StartedAt
<1>4. settled' = [c \in Objects |-> settled[c] /\ c \in kept]
  <2>1. \A c \in Objects : Settled(c) \in BOOLEAN /\ Settled(c)' \in BOOLEAN
    BY DEF Settled
  <2>2. \A c \in Objects : Settled(c)' = (Settled(c) /\ c \in kept)
    BY <1>3, <2>1
  <2>. QED
    BY <2>2
<1>5. kept \in SUBSET Objects
  OBVIOUS
<1>. QED
  BY <1>2, <1>4, <1>5 DEF Lifecycle!Next, Lifecycle!NewLeader

-----------------------------------------------------------------------------
(* The theorem.                                                            *)

LEMMA InitMaps == Init => Lifecycle!Init
<1>. SUFFICES ASSUME Init
              PROVE  \A b \in Objects : Stored(b) = Absent /\ Settled(b) = FALSE
  <2>. Absent.life = "absent" /\ Absent.gen = 0 /\ Absent.active = 0
    BY DEF Absent
  <2>. QED
    BY DEF Lifecycle!Init
<1>1. \A b \in Objects : Stored(b) = Absent
  BY DEF Init, Stored
<1>. QED
  BY <1>1 DEF Settled, Absent

LEMMA StepMaps == IInv /\ [Next]_vars => [Lifecycle!Next]_(Lifecycle!vars)
<1>. SUFFICES ASSUME IInv, [Next]_vars PROVE [Lifecycle!Next]_(Lifecycle!vars)
  OBVIOUS
<1>1. process' \in Nat
  BY NextInv DEF IInv, TypeOK
<1>2. Stores => [Lifecycle!Next]_(Lifecycle!vars)
  BY StoreMaps DEF Stores
<1>3. UNCHANGED versions /\ process <= process' => [Lifecycle!Next]_(Lifecycle!vars)
  BY <1>1, ProcessMaps
<1>. QED
  BY <1>2, <1>3, StepStores

(* The schedules keep their promise, whatever copies are stale, whatever   *)
(* fails and whichever process leads: a generation is recorded as active   *)
(* only if it is the one stored, and what is settled stays so until users  *)
(* or a new leader undo it.                                                *)
THEOREM LifecycleImplemented == Spec => ImplementsLifecycle
BY InitMaps, StepMaps, Inductive, PTL DEF Spec, ImplementsLifecycle, Lifecycle!Spec
=============================================================================
