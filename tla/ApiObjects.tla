----------------------------- MODULE ApiObjects -----------------------------
(***************************************************************************)
(* Custom resources as the controllers work with them.                     *)
(*                                                                         *)
(* The API server keeps an object as a sequence of versions: the index of  *)
(* a version is its resourceVersion, the last one is what is stored.  A    *)
(* version has at least the fields life ("absent", "live" or "deleting",   *)
(* once deletionTimestamp is set) and fin (the operator's finalizer).      *)
(*                                                                         *)
(* The worker of a controller reads an object through the informer cache,  *)
(* which holds some earlier version of it, changes its copy and writes the *)
(* copy with optimistic concurrency: the write is accepted only if the     *)
(* copy was made from the last version.                                    *)
(***************************************************************************)
EXTENDS Naturals, Sequences, FiniteSets

CONSTANT Objects   \* the names of the objects, each used for one object

VARIABLES
    versions,   \* versions[b]: the versions of object b the API server has stored
    seen,       \* seen[b]: index of the version of b in the informer cache
    queue       \* objects in the work queue of their controller

apiVars == <<versions, seen>>

Stored(b) == versions[b][Len(versions[b])]
Cached(b) == versions[b][seen[b]]
Exists(b) == Stored(b).life # "absent"

Store(b, v) == versions' = [versions EXCEPT ![b] = Append(@, v)]

(* A deletion marks an object that has the finalizer and takes away one    *)
(* that does not.                                                          *)
Deleted(v, absent) == IF v.fin THEN [v EXCEPT !.life = "deleting"] ELSE absent

-----------------------------------------------------------------------------
(* A worker between Reconciles; in one it is a record of at least the call *)
(* it is about to make (pc), the object it works on (b), the copy of it in *)
(* memory (obj) and the resourceVersion of that copy (rv).                 *)

Idle == [pc |-> "idle"]

Fresh(w) == w.rv = Len(versions[w.b])

(* An update that changes nothing makes no new version.                    *)
Put(b, v) == IF v = Stored(b) THEN UNCHANGED versions ELSE Store(b, v)

(* NewRv, were every update to make a version.                             *)
NewRvMutant(b) == Len(versions[b]) + 1

(* The resourceVersion an accepted update answers with.                    *)
NewRv(b) == Len(versions'[b])
=============================================================================
