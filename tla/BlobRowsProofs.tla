--------------------------- MODULE BlobRowsProofs ---------------------------
(***************************************************************************)
(* Proofs about the rows that hold an object, whatever their names: what a *)
(* request, a promotion, a landing and a release leave of a table of rows  *)
(* and of the objects they hold.                                           *)
(*                                                                         *)
(* That a landed row has its object is not inductive: it rests on an       *)
(* object asked for and not released being held by one row, on a landing   *)
(* being sent only of an object that was promoted, hence never of one the  *)
(* reaper dropped, and on objects being asked for in order.                *)
(* BlobInv gathers them, for the rows of `names` in the table `rows`.      *)
(***************************************************************************)
EXTENDS BlobRows, FiniteSetTheorems, TLAPS

ObjectState == {"unused", "staged", "stored", "orphaned", "released"}

(* A row awaits a replacement only once it landed, and only one asked for
   after what it shows; what it shows once landed is there. *)
RowSound(obj, row) ==
  /\ row \in Row
  /\ row.pending # NoObject => row.landed /\ row.pending > row.current
  /\ row.landed => obj[row.current] = "stored"

(* The objects asked for and not released, those the reaper dropped included,
   are those the rows hold. *)
HeldAsAsked(obj, rows, names) ==
  \A o \in Object :
    obj[o] \in {"staged", "stored", "orphaned"} <=> \E n \in names : o \in BlobRefs(rows[n])

(* No two rows hold one object. *)
OneHolder(rows, names) ==
  \A n, m \in names : \A o \in BlobRefs(rows[n]) : o \in BlobRefs(rows[m]) => n = m

(* Objects are asked for one after the other. *)
AskedInOrder(obj) ==
  \A x, y \in Object : x < y /\ obj[x] = "unused" => obj[y] = "unused"

(* A landing is sent of an object that was promoted. *)
LandingsPromoted(obj, lands) ==
  \A l \in lands : l[2] \in Object /\ obj[l[2]] \in {"stored", "released"}

BlobInv(obj, lands, rows, names) ==
  /\ obj \in [Object -> ObjectState]
  /\ \A n \in names : RowSound(obj, rows[n])
  /\ HeldAsAsked(obj, rows, names)
  /\ OneHolder(rows, names)
  /\ AskedInOrder(obj)
  /\ LandingsPromoted(obj, lands)

(* What the rows show only moves to objects asked for later, and a row that
   landed stays so. *)
CurrentGrows(rows, names, after, left) ==
  \A n \in names \cap left :
    /\ after[n].current >= rows[n].current
    /\ rows[n].landed => after[n].landed

(* The row of n is now `row`, and those of the other names are as they were. *)
OneRow(rows, names, n, row, after) ==
  after[n] = row /\ \A m \in names \ {n} : after[m] = rows[m]

(* The objects a row refers to. *)
LEMMA RowRefs ==
  ASSUME NEW row \in Row
  PROVE  /\ BlobRefs(row) \subseteq Object
         /\ row.current \in BlobRefs(row) /\ row.current \in Nat
         /\ row.pending # NoObject => row.pending \in BlobRefs(row) /\ row.pending \in Object
         /\ \A o \in BlobRefs(row) : o = row.current \/ (o = row.pending /\ row.pending # NoObject)
  BY NoObjectAssumption DEF Row, BlobRefs, Object

(* No row, no object: the invariant of an empty table. *)
LEMMA EmptyTable ==
  ASSUME NEW rows, ObjectsInit
  PROVE  BlobInv(object, landings, rows, {})
  BY DEF ObjectsInit, BlobInv, ObjectState, HeldAsAsked, OneHolder, AskedInOrder, LandingsPromoted

(* What Stage leaves of the objects when what it lets go was held: o is the
   first one not asked for yet. *)
LEMMA StageStep ==
  ASSUME NEW rows, NEW names, BlobInv(object, landings, rows, names),
         NEW o \in Object, NEW gone \in SUBSET Object, Stage(o, gone),
         \A x \in gone : object[x] \in {"staged", "stored", "orphaned"}
  PROVE  /\ landings' = landings /\ object[o] = "unused"
         /\ object' \in [Object -> ObjectState]
         /\ object'[o] = "staged"
         /\ \A x \in gone : object'[x] = "released"
         /\ \A x \in Object \ (gone \cup {o}) : object'[x] = object[x]
         /\ \A x \in Object : object[x] # "unused" => x < o
         /\ AskedInOrder(object')
         /\ LandingsPromoted(object', landings')
<1> USE DEF BlobInv
<1>1. /\ landings' = landings /\ object[o] = "unused"
      /\ \A x \in Object : x < o => object[x] # "unused"
      /\ object' = [x \in Object |-> CASE x = o -> "staged"
                                       [] x \in gone -> "released"
                                       [] OTHER -> object[x]]
  BY DEF Stage
<1>2. o \notin gone
  BY <1>1
<1>3. \A x \in Object : object'[x] = IF x = o THEN "staged"
                                     ELSE IF x \in gone THEN "released" ELSE object[x]
  BY <1>1, <1>2
<1>4. object' \in [Object -> ObjectState]
  BY <1>1, <1>3 DEF ObjectState
<1>5. \A x \in Object : object[x] # "unused" => x < o
  <2> SUFFICES ASSUME NEW x \in Object, object[x] # "unused", ~(x < o) PROVE FALSE
    OBVIOUS
  <2>1. o < x
    BY <1>1 DEF Object
  <2> QED
    BY <1>1, <2>1 DEF AskedInOrder
<1>6. AskedInOrder(object')
  <2> SUFFICES ASSUME NEW x \in Object, NEW y \in Object, x < y, object'[x] = "unused"
               PROVE  object'[y] = "unused"
    BY DEF AskedInOrder
  <2>1. x # o /\ object[x] = "unused"
    BY <1>3
  <2>2. object[y] = "unused"
    BY <2>1 DEF AskedInOrder
  <2>3. y # o /\ y \notin gone
    BY <1>1, <2>1, <2>2
  <2> QED
    BY <1>3, <2>2, <2>3
<1>7. LandingsPromoted(object', landings')
  BY <1>1, <1>3 DEF LandingsPromoted
<1> QED
  BY <1>1, <1>2, <1>3, <1>4, <1>5, <1>6, <1>7

(* What Release leaves of the objects when what it lets go was held. *)
LEMMA ReleaseStep ==
  ASSUME NEW rows, NEW names, BlobInv(object, landings, rows, names),
         NEW gone \in SUBSET Object, Release(gone), UNCHANGED landings,
         \A x \in gone : object[x] \in {"staged", "stored", "orphaned"}
  PROVE  /\ object' \in [Object -> ObjectState]
         /\ \A x \in gone : object'[x] = "released"
         /\ \A x \in Object \ gone : object'[x] = object[x]
         /\ AskedInOrder(object')
         /\ LandingsPromoted(object', landings')
<1>1. \A x \in Object : object'[x] = IF x \in gone THEN "released" ELSE object[x]
  BY DEF Release
<1>2. object' \in [Object -> ObjectState]
  BY <1>1 DEF Release, BlobInv, ObjectState
<1>3. AskedInOrder(object')
  BY <1>1 DEF AskedInOrder, BlobInv
<1>4. LandingsPromoted(object', landings')
  BY <1>1 DEF LandingsPromoted, BlobInv
<1> QED
  BY <1>1, <1>2, <1>3, <1>4

(* A table stays sound when one of its rows, or a new one, lets `gone` go and
   takes up objects that no row holds. *)
LEMMA OneRowChanges ==
  ASSUME NEW rows, NEW names, BlobInv(object, landings, rows, names),
         NEW n, NEW after, NEW gone, NEW taken \in SUBSET Object,
         object' \in [Object -> ObjectState],
         AskedInOrder(object'), LandingsPromoted(object', landings'),
         \A m \in names \ {n} : after[m] = rows[m],
         RowSound(object', after[n]),
         n \in names => gone \subseteq BlobRefs(rows[n]),
         n \notin names => gone = {},
         \A x \in Object :
           x \in BlobRefs(after[n])
             <=> x \in taken \/ (n \in names /\ x \in BlobRefs(rows[n]) /\ x \notin gone),
         \A x \in taken : object'[x] \in {"staged", "stored", "orphaned"} /\ object[x] = "unused",
         \A x \in gone : object'[x] = "released",
         \A x \in Object \ (gone \cup taken) : object'[x] = object[x]
  PROVE  BlobInv(object', landings', after, names \cup {n})
<1> DEFINE left == names \cup {n}
<1>1. \A m \in names : rows[m] \in Row /\ BlobRefs(rows[m]) \subseteq Object
  BY RowRefs DEF BlobInv, RowSound
<1>2. after[n] \in Row /\ BlobRefs(after[n]) \subseteq Object
  BY RowRefs DEF RowSound
<1>3. \A m \in names : \A x \in BlobRefs(rows[m]) : object[x] \in {"staged", "stored", "orphaned"}
  BY <1>1 DEF BlobInv, HeldAsAsked
<1>4. \A m \in names : \A x \in BlobRefs(rows[m]) : x \notin taken
  BY <1>3
<1>5. \A m \in names \ {n} : \A x \in BlobRefs(rows[m]) : x \notin gone
  BY DEF BlobInv, OneHolder
<1>6. \A m \in left : RowSound(object', after[m])
  <2> SUFFICES ASSUME NEW m \in names \ {n} PROVE RowSound(object', after[m])
    OBVIOUS
  <2>1. RowSound(object, rows[m]) /\ after[m] = rows[m]
    BY DEF BlobInv
  <2>2. rows[m].current \in BlobRefs(rows[m])
    BY <1>1, RowRefs
  <2>3. object'[rows[m].current] = object[rows[m].current]
    BY <1>1, <1>4, <1>5, <2>2
  <2> QED
    BY <2>1, <2>3 DEF RowSound
<1>7. HeldAsAsked(object', after, left)
  <2> SUFFICES ASSUME NEW x \in Object
               PROVE  object'[x] \in {"staged", "stored", "orphaned"}
                        <=> \E m \in left : x \in BlobRefs(after[m])
    BY DEF HeldAsAsked
  <2>1. CASE x \in taken
    BY <2>1
  <2>2. CASE x \in gone
    <3>1. x \notin taken
      BY <1>4, <2>2
    <3>2. x \notin BlobRefs(after[n])
      BY <2>2, <3>1
    <3>3. \A m \in names \ {n} : x \notin BlobRefs(after[m])
      BY <1>5, <2>2
    <3> QED
      BY <2>2, <3>2, <3>3
  <2>3. CASE x \notin gone \cup taken
    <3>1. object'[x] = object[x]
      BY <2>3
    <3>2. object[x] \in {"staged", "stored", "orphaned"} <=> \E m \in names : x \in BlobRefs(rows[m])
      BY DEF BlobInv, HeldAsAsked
    <3>3. (\E m \in names : x \in BlobRefs(rows[m])) <=> \E m \in left : x \in BlobRefs(after[m])
      BY <2>3
    <3> QED
      BY <3>1, <3>2, <3>3
  <2> QED
    BY <2>1, <2>2, <2>3
<1>8. OneHolder(after, left)
  <2> SUFFICES ASSUME NEW l \in left, NEW m \in left, NEW x \in BlobRefs(after[l]),
                      x \in BlobRefs(after[m]), l # m
               PROVE  FALSE
    BY DEF OneHolder
  <2>1. \A k \in left \ {n} : x \notin BlobRefs(after[k]) \/ (x \in BlobRefs(rows[k]) /\ x \notin taken)
    BY <1>4
  <2>2. x \in Object
    BY <1>1, <1>2
  <2>3. CASE l = n \/ m = n
    <3>1. x \in taken \/ (n \in names /\ x \in BlobRefs(rows[n]))
      BY <2>2, <2>3
    <3> QED
      BY <2>1, <2>3, <3>1 DEF BlobInv, OneHolder
  <2>4. CASE l # n /\ m # n
    BY <2>1, <2>4 DEF BlobInv, OneHolder
  <2> QED
    BY <2>3, <2>4
<1> QED
  BY <1>6, <1>7, <1>8 DEF BlobInv

(* A row that is asked for and not there. *)
LEMMA NewRowStep ==
  ASSUME NEW rows, NEW names, BlobInv(object, landings, rows, names),
         NEW n, n \notin names, NEW o \in Object, Stage(o, {}),
         NEW after, OneRow(rows, names, n, New(o), after)
  PROVE  /\ BlobInv(object', landings', after, names \cup {n})
         /\ CurrentGrows(rows, names, after, names \cup {n})
         /\ New(o) \in Row
<1> USE DEF OneRow
<1>1. /\ landings' = landings /\ object[o] = "unused"
      /\ object' \in [Object -> ObjectState] /\ object'[o] = "staged"
      /\ \A x \in Object \ {o} : object'[x] = object[x]
      /\ AskedInOrder(object') /\ LandingsPromoted(object', landings')
  <2> DEFINE gone == {}
  <2>1. gone \in SUBSET Object /\ Stage(o, gone) /\ \A x \in gone : object[x] \in {"staged", "stored", "orphaned"}
    OBVIOUS
  <2> HIDE DEF gone
  <2>2. \A x \in Object \ (gone \cup {o}) : object'[x] = object[x]
    BY <2>1, StageStep
  <2>3. gone = {}
    BY DEF gone
  <2> QED
    BY <2>1, <2>2, <2>3, StageStep
<1>2. New(o) \in Row /\ BlobRefs(New(o)) = {o}
  BY NoObjectAssumption DEF New, Row, BlobRefs, Object
<1>3. RowSound(object', after[n])
  BY <1>2 DEF RowSound, New
<1>4. BlobInv(object', landings', after, names \cup {n})
  <2> DEFINE gone == {}
             taken == {o}
  <2>1. /\ taken \in SUBSET Object
        /\ n \in names => gone \subseteq BlobRefs(rows[n])
        /\ n \notin names => gone = {}
        /\ \A x \in Object :
             x \in BlobRefs(after[n])
               <=> x \in taken \/ (n \in names /\ x \in BlobRefs(rows[n]) /\ x \notin gone)
        /\ \A x \in taken : object'[x] \in {"staged", "stored", "orphaned"} /\ object[x] = "unused"
        /\ \A x \in gone : object'[x] = "released"
        /\ \A x \in Object \ (gone \cup taken) : object'[x] = object[x]
        /\ \A m \in names \ {n} : after[m] = rows[m]
    BY <1>1, <1>2
  <2> HIDE DEF gone, taken
  <2> QED
    BY <1>1, <1>3, <2>1, OneRowChanges
<1>5. CurrentGrows(rows, names, after, names \cup {n})
  BY RowRefs DEF CurrentGrows, BlobInv, RowSound
<1> QED
  BY <1>2, <1>4, <1>5

(* A row that is asked for again, whose last request is past its window. *)
LEMMA ReplaceStep ==
  ASSUME NEW rows, NEW names, BlobInv(object, landings, rows, names),
         NEW n \in names, NEW o \in Object, Stage(o, ReplacedBy(rows[n])),
         NEW after, OneRow(rows, names, n, RequestReplacement(rows[n], o), after)
  PROVE  /\ BlobInv(object', landings', after, names)
         /\ CurrentGrows(rows, names, after, names)
         /\ RequestReplacement(rows[n], o) \in Row
<1> USE DEF OneRow
<1> DEFINE row == rows[n]
           gone == ReplacedBy(row)
<1>1. RowSound(object, row) /\ row \in Row /\ BlobRefs(row) \subseteq Object
  BY RowRefs DEF BlobInv, RowSound
<1>2. gone \subseteq BlobRefs(row)
  BY <1>1, RowRefs DEF ReplacedBy, RowSound
<1>3. \A x \in gone : x \in Object /\ object[x] \in {"staged", "stored", "orphaned"}
  BY <1>1, <1>2 DEF BlobInv, HeldAsAsked
<1>4. /\ landings' = landings /\ object[o] = "unused"
      /\ object' \in [Object -> ObjectState]
      /\ object'[o] = "staged"
      /\ \A x \in gone : object'[x] = "released"
      /\ \A x \in Object \ (gone \cup {o}) : object'[x] = object[x]
      /\ \A x \in Object : object[x] # "unused" => x < o
      /\ AskedInOrder(object')
      /\ LandingsPromoted(object', landings')
  <2>1. gone \in SUBSET Object
    BY <1>3
  <2> QED
    BY <1>3, <2>1, StageStep
<1>5. o \in Nat /\ row.current \in Object /\ row.current \in Nat /\ row.landed \in BOOLEAN
      /\ row.pending \in Object \cup {NoObject} /\ row.current < o
  BY <1>1, <1>4, RowRefs DEF Row, Object, BlobInv, HeldAsAsked
<1> DEFINE new == RequestReplacement(row, o)
<1>6. new \in Row
  BY <1>1, <1>5 DEF RequestReplacement, Row
<1>7. /\ row.landed => new.current = row.current /\ new.pending = o /\ new.landed
      /\ ~row.landed => new.current = o /\ new.pending = NoObject /\ ~new.landed
  BY <1>1, <1>5 DEF RequestReplacement, Row
<1>8. /\ row.landed => gone = {row.pending} \ {NoObject}
      /\ ~row.landed => gone = {row.current} \cup ({row.pending} \ {NoObject})
      /\ ~row.landed => row.pending = NoObject
      /\ row.pending # row.current
      /\ NoObject \notin Object
  BY <1>1, <1>5, NoObjectAssumption DEF ReplacedBy, RowSound, Object
<1>9. \A x \in Object : x \in BlobRefs(new) <=> x \in {o} \/ (x \in BlobRefs(row) /\ x \notin gone)
  <2>1. \A x \in Object : /\ x \in BlobRefs(new) <=> x = new.current \/ x = new.pending
                          /\ x \in BlobRefs(row) <=> x = row.current \/ x = row.pending
    BY <1>8 DEF BlobRefs
  <2> HIDE DEF new, gone, row
  <2>2. CASE row.landed
    BY <1>5, <1>7, <1>8, <2>1, <2>2
  <2>3. CASE ~row.landed
    BY <1>5, <1>7, <1>8, <2>1, <2>3
  <2> QED
    BY <2>2, <2>3
<1>10. RowSound(object', new)
  <2>1. row.landed => object[row.current] = "stored" /\ row.current \notin gone /\ row.current # o
    BY <1>1, <1>5, <1>8 DEF RowSound
  <2>2. row.landed => object'[row.current] = "stored"
    BY <1>4, <1>5, <2>1
  <2> HIDE DEF new, gone, row
  <2> QED
    BY <1>5, <1>6, <1>7, <2>2 DEF RowSound
<1>11. BlobInv(object', landings', after, names)
  <2> DEFINE taken == {o}
  <2>1. /\ taken \in SUBSET Object
        /\ \A x \in taken : object'[x] \in {"staged", "stored", "orphaned"} /\ object[x] = "unused"
        /\ \A x \in Object :
             x \in BlobRefs(after[n])
               <=> x \in taken \/ (n \in names /\ x \in BlobRefs(rows[n]) /\ x \notin gone)
        /\ \A x \in Object \ (gone \cup taken) : object'[x] = object[x]
        /\ n \in names => gone \subseteq BlobRefs(rows[n])
        /\ n \notin names => gone = {}
    BY <1>2, <1>4, <1>9
  <2>2. RowSound(object', after[n])
    BY <1>10
  <2>3. names \cup {n} = names
    OBVIOUS
  <2> HIDE DEF new, gone, row, taken
  <2>4. BlobInv(object', landings', after, names \cup {n})
    BY <1>4, <2>1, <2>2, OneRowChanges
  <2> QED
    BY <2>3, <2>4
<1>12. CurrentGrows(rows, names, after, names)
  <2> SUFFICES ASSUME NEW m \in names
               PROVE  after[m].current >= rows[m].current /\ (rows[m].landed => after[m].landed)
    BY DEF CurrentGrows
  <2>1. CASE m = n
    BY <1>5, <1>7, <2>1
  <2>2. CASE m # n
    BY <2>2, RowRefs DEF BlobInv, RowSound
  <2> QED
    BY <2>1, <2>2
<1> QED
  BY <1>6, <1>11, <1>12

(* The upload window of a row passes: nothing else changes. *)
LEMMA WindowStep ==
  ASSUME NEW rows, NEW names, BlobInv(object, landings, rows, names),
         NEW n \in names, UNCHANGED <<object, landings>>,
         NEW after, OneRow(rows, names, n, [rows[n] EXCEPT !.fresh = FALSE], after)
  PROVE  /\ BlobInv(object', landings', after, names)
         /\ CurrentGrows(rows, names, after, names)
         /\ [rows[n] EXCEPT !.fresh = FALSE] \in Row
<1> USE DEF OneRow
<1>1. \A m \in names : rows[m] \in Row /\ RowSound(object, rows[m])
  BY DEF BlobInv, RowSound
<1>2. /\ [rows[n] EXCEPT !.fresh = FALSE] \in Row
      /\ after[n].current = rows[n].current /\ after[n].pending = rows[n].pending
      /\ after[n].landed = rows[n].landed
  BY <1>1 DEF Row
<1>3. \A m \in names : /\ after[m] \in Row
                       /\ after[m].current = rows[m].current
                       /\ after[m].pending = rows[m].pending
                       /\ after[m].landed = rows[m].landed
  BY <1>1, <1>2
<1>4. \A m \in names : BlobRefs(after[m]) = BlobRefs(rows[m])
  BY <1>3 DEF BlobRefs
<1>5. \A m \in names : RowSound(object', after[m])
  BY <1>1, <1>3 DEF RowSound
<1>6. HeldAsAsked(object', after, names) /\ OneHolder(after, names)
  BY <1>4 DEF BlobInv, HeldAsAsked, OneHolder
<1>7. CurrentGrows(rows, names, after, names)
  BY <1>1, <1>3, RowRefs DEF CurrentGrows
<1> QED
  BY <1>2, <1>5, <1>6, <1>7 DEF BlobInv

(* An object is promoted, and any names are sent its landing. *)
LEMMA PromoteStep ==
  ASSUME NEW rows, NEW names, BlobInv(object, landings, rows, names),
         NEW o \in Object, NEW holders, Promote(o, holders)
  PROVE  BlobInv(object', landings', rows, names)
<1>1. /\ object[o] = "staged"
      /\ object' = [object EXCEPT ![o] = "stored"]
      /\ landings' = landings \cup (holders \X {o})
  BY DEF Promote
<1>2. \A x \in Object : object'[x] = IF x = o THEN "stored" ELSE object[x]
  BY <1>1 DEF BlobInv
<1>3. object' \in [Object -> ObjectState]
  BY <1>1 DEF BlobInv, ObjectState
<1>4. \A n \in names : RowSound(object', rows[n])
  BY <1>2 DEF BlobInv, RowSound, Row
<1>5. HeldAsAsked(object', rows, names) /\ OneHolder(rows, names)
  BY <1>1, <1>2 DEF BlobInv, HeldAsAsked, OneHolder
<1>6. AskedInOrder(object')
  BY <1>1, <1>2 DEF BlobInv, AskedInOrder
<1>7. LandingsPromoted(object', landings')
  BY <1>1, <1>2 DEF BlobInv, LandingsPromoted
<1> QED
  BY <1>3, <1>4, <1>5, <1>6, <1>7 DEF BlobInv

(* An upload that never landed is dropped: the row that holds it still does. *)
LEMMA OrphanStep ==
  ASSUME NEW rows, NEW names, BlobInv(object, landings, rows, names),
         NEW o \in Object, Orphan(o)
  PROVE  BlobInv(object', landings', rows, names)
<1>1. /\ object[o] = "staged"
      /\ object' = [object EXCEPT ![o] = "orphaned"]
      /\ landings' = landings
  BY DEF Orphan
<1>2. \A x \in Object : object'[x] = IF x = o THEN "orphaned" ELSE object[x]
  BY <1>1 DEF BlobInv
<1>3. object' \in [Object -> ObjectState]
  BY <1>1 DEF BlobInv, ObjectState
<1>4. \A n \in names : RowSound(object', rows[n])
  BY <1>1, <1>2 DEF BlobInv, RowSound, Row
<1>5. HeldAsAsked(object', rows, names) /\ OneHolder(rows, names)
  BY <1>1, <1>2 DEF BlobInv, HeldAsAsked, OneHolder
<1>6. AskedInOrder(object')
  BY <1>1, <1>2 DEF BlobInv, AskedInOrder
<1>7. LandingsPromoted(object', landings')
  BY <1>1, <1>2 DEF BlobInv, LandingsPromoted
<1> QED
  BY <1>3, <1>4, <1>5, <1>6, <1>7 DEF BlobInv

(* An object lands, for the first time or again: the row holds it or ignores
   it, and an object once promoted is still there as long as a row holds it. *)
LEMMA LandStep ==
  ASSUME NEW rows, NEW names, BlobInv(object, landings, rows, names),
         NEW n \in names, NEW l \in landings, NEW o, o = l[2],
         Release(SwapReleases(rows[n], o)), UNCHANGED landings,
         NEW after, OneRow(rows, names, n, Land(rows[n], o), after)
  PROVE  /\ BlobInv(object', landings', after, names)
         /\ CurrentGrows(rows, names, after, names)
         /\ Land(rows[n], o) \in Row
<1> USE DEF OneRow
<1> DEFINE row == rows[n]
           gone == SwapReleases(row, o)
           new == Land(row, o)
<1>1. RowSound(object, row) /\ row \in Row /\ BlobRefs(row) \subseteq Object
  BY RowRefs DEF BlobInv, RowSound
<1>2. o \in Object /\ object[o] \in {"stored", "released"}
  BY DEF BlobInv, LandingsPromoted
<1>3. /\ row.current \in Object /\ row.landed \in BOOLEAN
      /\ row.pending \in Object \cup {NoObject} /\ row.pending # row.current
      /\ NoObject \notin Object
      /\ row.current \in BlobRefs(row)
      /\ row.pending = o => o \in BlobRefs(row)
  BY <1>1, <1>2, NoObjectAssumption DEF Row, RowSound, Object, BlobRefs
<1>4. o \in BlobRefs(row) => object[o] = "stored"
  BY <1>2 DEF BlobInv, HeldAsAsked
<1>5. gone \subseteq BlobRefs(row)
  BY <1>3 DEF SwapReleases
<1>6. \A x \in gone : x \in Object /\ object[x] \in {"staged", "stored", "orphaned"}
  BY <1>1, <1>5 DEF BlobInv, HeldAsAsked
<1>7. /\ object' \in [Object -> ObjectState]
      /\ \A x \in gone : object'[x] = "released"
      /\ \A x \in Object \ gone : object'[x] = object[x]
      /\ AskedInOrder(object')
      /\ LandingsPromoted(object', landings')
  <2>1. gone \in SUBSET Object
    BY <1>6
  <2> QED
    BY <1>6, <2>1, ReleaseStep
<1>8. /\ new \in Row
      /\ row.pending = o => /\ new.current = o /\ new.pending = NoObject /\ new.landed
                            /\ gone = {row.current}
      /\ row.pending # o /\ row.current = o =>
           new.current = o /\ new.pending = row.pending /\ new.landed /\ gone = {}
      /\ row.pending # o /\ row.current # o => new = row /\ gone = {}
  BY <1>1, <1>2, <1>3 DEF Land, Row, SwapReleases
<1>9. \A x \in Object : x \in BlobRefs(new) <=> x \in BlobRefs(row) /\ x \notin gone
  <2>1. \A x \in Object : /\ x \in BlobRefs(new) <=> x = new.current \/ x = new.pending
                          /\ x \in BlobRefs(row) <=> x = row.current \/ x = row.pending
    BY <1>3 DEF BlobRefs
  <2> HIDE DEF new, gone, row
  <2> QED
    BY <1>3, <1>8, <2>1
<1>10. RowSound(object', new)
  <2>1. CASE row.pending = o
    <3>1. object'[o] = "stored"
      BY <1>2, <1>3, <1>4, <1>7, <1>8, <2>1
    <3> HIDE DEF new, gone
    <3> QED
      BY <1>8, <2>1, <3>1 DEF RowSound
  <2>2. CASE row.pending # o /\ row.current = o
    <3>1. object'[o] = "stored"
      BY <1>2, <1>3, <1>4, <1>7, <1>8, <2>2
    <3> HIDE DEF new, gone
    <3> QED
      BY <1>1, <1>8, <2>2, <3>1 DEF RowSound
  <2>3. CASE row.pending # o /\ row.current # o
    <3>1. object'[row.current] = object[row.current]
      BY <1>3, <1>7, <1>8, <2>3
    <3> HIDE DEF new, gone
    <3> QED
      BY <1>1, <1>8, <2>3, <3>1 DEF RowSound
  <2> QED
    BY <2>1, <2>2, <2>3
<1>11. BlobInv(object', landings', after, names)
  <2> DEFINE taken == {}
  <2>1. /\ taken \in SUBSET Object
        /\ \A x \in taken : object'[x] \in {"staged", "stored", "orphaned"} /\ object[x] = "unused"
        /\ \A x \in Object :
             x \in BlobRefs(after[n])
               <=> x \in taken \/ (n \in names /\ x \in BlobRefs(rows[n]) /\ x \notin gone)
        /\ \A x \in Object \ (gone \cup taken) : object'[x] = object[x]
        /\ n \in names => gone \subseteq BlobRefs(rows[n])
        /\ n \notin names => gone = {}
    BY <1>5, <1>7, <1>9
  <2>2. RowSound(object', after[n])
    BY <1>10
  <2>3. names \cup {n} = names
    OBVIOUS
  <2> HIDE DEF new, gone, row, taken
  <2>4. BlobInv(object', landings', after, names \cup {n})
    BY <1>7, <2>1, <2>2, OneRowChanges
  <2> QED
    BY <2>3, <2>4
<1>12. CurrentGrows(rows, names, after, names)
  <2> SUFFICES ASSUME NEW m \in names
               PROVE  after[m].current >= rows[m].current /\ (rows[m].landed => after[m].landed)
    BY DEF CurrentGrows
  <2>1. CASE m = n
    BY <1>1, <1>3, <1>8, <2>1 DEF RowSound, Object
  <2>2. CASE m # n
    BY <2>2, RowRefs DEF BlobInv, RowSound
  <2> QED
    BY <2>1, <2>2
<1> QED
  BY <1>8, <1>11, <1>12

(* Rows are dropped, and what they held and no row left holds is let go. *)
LEMMA DropStep ==
  ASSUME NEW rows, NEW names, BlobInv(object, landings, rows, names),
         NEW after, NEW left \in SUBSET names, \A n \in left : after[n] = rows[n],
         NEW gone, Release(gone), UNCHANGED landings,
         \A x \in Object :
           x \in gone <=> /\ \E n \in names : x \in BlobRefs(rows[n])
                         /\ ~\E n \in left : x \in BlobRefs(rows[n])
  PROVE  BlobInv(object', landings', after, left) /\ CurrentGrows(rows, names, after, left)
<1> DEFINE let == gone \cap Object
<1>1. \A x \in let : object[x] \in {"staged", "stored", "orphaned"}
  BY DEF BlobInv, HeldAsAsked
<1>2. let \in SUBSET Object /\ Release(let)
  BY DEF Release
<1> HIDE DEF let
<1>3. /\ object' \in [Object -> ObjectState]
      /\ \A x \in let : object'[x] = "released"
      /\ \A x \in Object \ let : object'[x] = object[x]
      /\ AskedInOrder(object')
      /\ LandingsPromoted(object', landings')
  BY <1>1, <1>2, ReleaseStep
<1>4. \A n \in left : RowSound(object', after[n])
  <2> SUFFICES ASSUME NEW n \in left PROVE RowSound(object', rows[n])
    OBVIOUS
  <2>1. RowSound(object, rows[n]) /\ rows[n].current \in BlobRefs(rows[n])
        /\ rows[n].current \in Object
    BY RowRefs DEF BlobInv, RowSound
  <2>2. rows[n].current \notin let
    BY <2>1 DEF let
  <2> QED
    BY <1>3, <2>1, <2>2 DEF RowSound
<1>5. HeldAsAsked(object', after, left)
  <2> SUFFICES ASSUME NEW x \in Object
               PROVE  object'[x] \in {"staged", "stored", "orphaned"}
                        <=> \E n \in left : x \in BlobRefs(rows[n])
    BY DEF HeldAsAsked
  <2>1. object[x] \in {"staged", "stored", "orphaned"} <=> \E n \in names : x \in BlobRefs(rows[n])
    BY DEF BlobInv, HeldAsAsked
  <2>2. CASE x \in let
    BY <1>3, <2>2 DEF let
  <2>3. CASE x \notin let
    BY <1>3, <2>1, <2>3 DEF let
  <2> QED
    BY <2>2, <2>3
<1>6. OneHolder(after, left)
  BY DEF BlobInv, OneHolder
<1>7. CurrentGrows(rows, names, after, left)
  BY RowRefs DEF CurrentGrows, BlobInv, RowSound
<1> QED
  BY <1>3, <1>4, <1>5, <1>6, <1>7 DEF BlobInv

(* An object the storage keeps is held by one row. *)
LEMMA KeptByOne ==
  ASSUME NEW rows, NEW names, BlobInv(object, landings, rows, names), NEW o \in Object,
         object[o] \in {"staged", "stored"}
  PROVE  Cardinality({n \in names : o \in BlobRefs(rows[n])}) = 1
<1> DEFINE holders == {n \in names : o \in BlobRefs(rows[n])}
<1>1. PICK n \in names : o \in BlobRefs(rows[n])
  BY DEF BlobInv, HeldAsAsked
<1>2. holders = {n}
  BY <1>1 DEF BlobInv, OneHolder
<1> QED
  BY <1>2, FS_Singleton

=============================================================================
