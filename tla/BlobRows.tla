------------------------------ MODULE BlobRows ------------------------------
(***************************************************************************)
(* A row that holds an uploaded object: an extracted image                 *)
(* (file/images.rs) or a rendition (file/renditions.rs) of a file.  A      *)
(* request stages an object and writes the row, the object is uploaded to  *)
(* the storage behind the server's back, its promotion sends a landing     *)
(* message, and the message, delivered at least once and in any order,     *)
(* makes the object the row's current one.  An upload that never comes is  *)
(* dropped by the engine's reaper, its row left to name an object that is  *)
(* no more.                                                                *)
(*                                                                         *)
(* This module has the objects, the messages and the row's own methods;    *)
(* Results and Renditions extend it with the rows of their file.           *)
(***************************************************************************)
EXTENDS Naturals, FiniteSets

CONSTANTS
    MaxObject,  \* bound: how many objects are ever asked for
    NoObject    \* no pending replacement

ASSUME MaxObjectAssumption == MaxObject \in Nat
ASSUME NoObjectAssumption == NoObject \notin Nat

VARIABLES
    object,     \* the storage's view of each object
    landings    \* the landing messages sent, each delivered any number of times

(* Objects are numbered in the order they are asked for (v7 identifiers). *)
Object == 1 .. MaxObject

ObjectsTypeOK(Name) ==
    /\ object \in [Object -> {"unused", "staged", "stored", "orphaned", "released"}]
    /\ landings \subseteq Name \X Object

ObjectsInit ==
    /\ object = [o \in Object |-> "unused"]
    /\ landings = {}

-----------------------------------------------------------------------------
(* The row: `current` is read once `landed`; `pending` replaces it when it *)
(* lands; `fresh` says that the last request is within the upload window.  *)

Row == [current : Object, landed : BOOLEAN,
        pending : Object \cup {NoObject}, fresh : BOOLEAN]

New(o) ==
    [current |-> o, landed |-> FALSE, pending |-> NoObject, fresh |-> TRUE]

BlobRefs(row) == {row.current, row.pending} \ {NoObject}

AwaitsUpload(row) == row.pending # NoObject \/ ~row.landed

IsLanding(row) == AwaitsUpload(row) /\ row.fresh

(* What a new request for the name leaves of the row, and what it lets go: *)
(* a stale pending object, and a current one that never landed.            *)
RequestReplacement(row, o) ==
    IF row.landed
    THEN [row EXCEPT !.pending = o, !.fresh = TRUE]
    ELSE [row EXCEPT !.current = o, !.pending = NoObject, !.fresh = TRUE]

(* Mutation: the stale pending object is overwritten and never let go. *)
StalePendingForgotten(row) == IF row.landed THEN {} ELSE {row.current}

ReplacedBy(row) ==
    (IF row.landed THEN {} ELSE {row.current}) \cup ({row.pending} \ {NoObject})

(* Mutation: the landing of any object of the name makes it current. *)
LandUnchecked(row, o) == [row EXCEPT !.current = o, !.landed = TRUE]

(* What the landing of o makes of the row; any other object is ignored. *)
Land(row, o) ==
    CASE row.pending = o ->
           [row EXCEPT !.current = o, !.pending = NoObject, !.landed = TRUE]
      [] row.pending # o /\ row.current = o -> [row EXCEPT !.landed = TRUE]
      [] OTHER -> row

(* Mutation: `previous` is read after the swap instead of before it. *)
PreviousReadLate(row, o) == IF row.pending = o THEN {o} ELSE {}

(* The object a swap lets go: the one that was current. *)
SwapReleases(row, o) == IF row.pending = o THEN {row.current} ELSE {}

-----------------------------------------------------------------------------
(* The objects.  `held` below is what the rows hold of an object.          *)

Release(gone) ==
    object' = [o \in Object |-> IF o \in gone THEN "released" ELSE object[o]]

(* The next object, staged by a request that lets `gone` go. *)
Stage(o, gone) ==
    /\ object[o] = "unused"
    /\ \A x \in Object : x < o => object[x] # "unused"
    /\ object' = [x \in Object |-> CASE x = o -> "staged"
                                     [] x \in gone -> "released"
                                     [] OTHER -> object[x]]
    /\ UNCHANGED landings

(* The upload of o never landed and is past orphan_after: the reaper drops *)
(* it.  No row is told: the one that holds o names it until it is asked    *)
(* for again or goes, and then lets go of what is no more.                 *)
Orphan(o) ==
    /\ object[o] = "staged"
    /\ object' = [object EXCEPT ![o] = "orphaned"]
    /\ UNCHANGED landings

(* The upload of o is promoted: in the same transaction the name whose row *)
(* holds it, as its current or its pending object, is sent a landing.      *)
Promote(o, holders) ==
    /\ object[o] = "staged"
    /\ object' = [object EXCEPT ![o] = "stored"]
    /\ landings' = landings \cup (holders \X {o})

=============================================================================
