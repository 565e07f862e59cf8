---------------------------- MODULE RulesetsProofs ----------------------------
(***************************************************************************)
(* Proofs about Rulesets, for any rules, names, patterns and transactions. *)
(*                                                                         *)
(* That no two rules have one name, and no two defaults claim one pattern, *)
(* rests on a row that was checked staying good until it is written: the   *)
(* saves hold one lock from before their checks to their end, and what a   *)
(* deletion does meanwhile only makes room.  TxnInv says it of a           *)
(* transaction.                                                            *)
(***************************************************************************)
EXTENDS Rulesets, FiniteSetTheorems, TLAPS

Transaction == [gesture : {"none", "create_ruleset", "update_ruleset", "delete_ruleset"},
                at : {"idle", "load", "checks", "write"},
                id : Rule \cup {NoRule}, row : RulesetRow \cup {NoRule}]

Saver(t) == txn[t].at # "idle" /\ txn[t].gesture # "delete_ruleset"

(* What a transaction is at, and on which rule. *)
WellFormed(t) ==
  /\ txn[t].at # "idle" => txn[t].gesture # "none" /\ txn[t].id \in Rule
  /\ txn[t].at = "load" => txn[t].gesture = "update_ruleset"
  /\ txn[t].at = "checks" => txn[t].gesture # "delete_ruleset"

(* The locks it holds; an update's rule is there as long as its lock is. *)
HoldsItsLocks(t) ==
  /\ Saver(t) => holder[Saves] = t
  /\ txn[t].gesture = "update_ruleset" /\ txn[t].at \in {"checks", "write"} =>
       holder[txn[t].id] = t /\ txn[t].id \in Declared
  /\ txn[t].at # "idle" /\ txn[t].gesture = "delete_ruleset" => holder[txn[t].id] = t

(* What it is about to save still passes its checks. *)
StillPasses(t) ==
  Saver(t) /\ txn[t].at = "write" =>
    /\ txn[t].row \in RulesetRow
    /\ ~NameTaken(t, txn[t].row)
    /\ txn[t].row.is_default => ~DefaultClash(t, txn[t].row)

TxnInv(t) == WellFormed(t) /\ HoldsItsLocks(t) /\ StillPasses(t)

(* A file whose upload is not committed never had a job. *)
NoJobBefore == file.state \in {"absent", "pending"} => file.ruleset = NoRule

IInv ==
  /\ TypeOK
  /\ \A t \in Txn : TxnInv(t)
  /\ NamesUnique
  /\ DefaultsDisjoint
  /\ NoJobBefore

-----------------------------------------------------------------------------
(* The types, and what is assumed of the constants. *)
LEMMA Typed ==
  ASSUME IInv
  PROVE  /\ rules \in [Rule -> RulesetRow \cup {NoRule}]
         /\ txn \in [Txn -> Transaction]
         /\ holder \in [Row -> Txn \cup {Nobody}]
         /\ Nobody \notin Txn /\ NoRule \notin Rule
         /\ Saves \in Row /\ Rule \subseteq Row
         /\ \A row \in Row : holder[row] # Nobody => txn[holder[row]].at # "idle"
  BY RulesetsAssumption DEF IInv, TypeOK, Transaction, Row

(* The step of a transaction on its locks: those of the others stay theirs. *)
LocksOf(t) ==
  /\ holder' \in [Row -> Txn \cup {Nobody}]
  /\ \A row \in Row : holder'[row] = holder[row]
                      \/ (holder[row] \in {Nobody, t} /\ holder'[row] \in {Nobody, t})

(* A row is locked. *)
LEMMA LocksOne ==
  ASSUME IInv, NEW t \in Txn, NEW row \in Row, LockRow(t, row, TRUE)
  PROVE  LocksOf(t) /\ holder'[row] = t /\ \A r \in Row : holder[r] = t => holder'[r] = t
  BY Typed DEF LockRow, LocksOf

(* All it holds is freed. *)
LEMMA LocksFreed ==
  ASSUME IInv, NEW t \in Txn, ReleaseAll(t)
  PROVE  LocksOf(t) /\ \A row \in Row : holder'[row] # t
  BY Typed DEF ReleaseAll, LocksOf

(* What a transaction that does not move relies on stays, as long as the rules
   only lose some it does not hold, or another has the lock of the saves. *)
LEMMA OtherKeeps ==
  ASSUME IInv, NEW t \in Txn, NEW u \in Txn \ {t}, LocksOf(t), txn'[u] = txn[u],
         \/ \A r \in Rule : rules'[r] = rules[r] \/ (rules'[r] = NoRule /\ holder[r] # u)
         \/ holder[Saves] = t
  PROVE  TxnInv(u)'
<1>1. TxnInv(u) /\ txn[u] \in Transaction
  BY Typed DEF IInv
<1>2. \A r \in Row : holder[r] = u => holder'[r] = u
  BY Typed DEF LocksOf
<1>3. WellFormed(u)'
  BY <1>1 DEF TxnInv, WellFormed
<1>4. CASE \A r \in Rule : rules'[r] = rules[r] \/ (rules'[r] = NoRule /\ holder[r] # u)
  <2>1. /\ Declared' \subseteq Declared
        /\ \A r \in Declared' : rules'[r] = rules[r]
        /\ \A r \in Declared : holder[r] = u => r \in Declared'
    BY <1>4 DEF Declared
  <2>2. HoldsItsLocks(u)'
    BY <1>1, <1>2, <2>1, Typed DEF TxnInv, HoldsItsLocks, WellFormed, Saver
  <2>3. Others(u)' \subseteq Others(u)
    BY <2>1 DEF Others
  <2>4. \A row : NameTaken(u, row)' => NameTaken(u, row)
    BY <2>1, <2>3 DEF NameTaken, Others
  <2>5. \A row : DefaultClash(u, row)' => DefaultClash(u, row)
    BY <2>1, <2>3 DEF DefaultClash, DefaultsOf, Others
  <2>6. StillPasses(u)'
    BY <1>1, <2>4, <2>5 DEF TxnInv, StillPasses, Saver
  <2> QED
    BY <1>3, <2>2, <2>6 DEF TxnInv
<1>5. CASE holder[Saves] = t
  <2>1. ~Saver(u)
    BY <1>1, <1>5 DEF TxnInv, HoldsItsLocks
  <2>2. HoldsItsLocks(u)' /\ StillPasses(u)'
    BY <1>1, <1>2, <2>1, Typed DEF TxnInv, HoldsItsLocks, WellFormed, Saver, StillPasses
  <2> QED
    BY <1>3, <2>2 DEF TxnInv
<1> QED
  BY <1>4, <1>5

(* What the step of a transaction that writes no rule has to show. *)
LEMMA GestureStep ==
  ASSUME IInv, NEW t \in Txn, NEW new \in Transaction, txn' = [txn EXCEPT ![t] = new],
         UNCHANGED <<rules, file>>, LocksOf(t),
         new.at = "idle" => \A row \in Row : holder'[row] # t,
         TxnInv(t)'
  PROVE  IInv'
<1>1. TypeOK'
  <2>1. rules' \in [Rule -> RulesetRow \cup {NoRule}] /\ file' \in File
    BY DEF IInv, TypeOK
  <2>2. txn' \in [Txn -> Transaction]
    BY Typed
  <2>3. \A row \in Row : holder'[row] # Nobody => txn'[holder'[row]].at # "idle"
    BY Typed DEF LocksOf
  <2> QED
    BY <2>1, <2>2, <2>3 DEF TypeOK, LocksOf, Transaction
<1>2. \A u \in Txn : TxnInv(u)'
  <2> SUFFICES ASSUME NEW u \in Txn \ {t} PROVE TxnInv(u)'
    OBVIOUS
  <2> QED
    BY Typed, OtherKeeps
<1>3. NamesUnique' /\ DefaultsDisjoint' /\ NoJobBefore'
  BY DEF IInv, NamesUnique, DefaultsDisjoint, NoJobBefore, Declared, DefaultsOf
<1> QED
  BY <1>1, <1>2, <1>3 DEF IInv

(* A transaction that is idle relies on nothing. *)
LEMMA IdleKeeps ==
  ASSUME NEW t, txn'[t] = Idle
  PROVE  TxnInv(t)'
  BY DEF Idle, TxnInv, WellFormed, HoldsItsLocks, StillPasses, Saver

(* Idle is a transaction. *)
LEMMA IdleTyped == Idle \in Transaction
  BY DEF Idle, Transaction

(* A refusal. *)
LEMMA RefusedIInv ==
  ASSUME IInv, NEW t \in Txn, End(t), UNCHANGED <<rules, file>>
  PROVE  IInv'
<1>1. txn' = [txn EXCEPT ![t] = Idle] /\ txn'[t] = Idle
  BY Typed DEF End
<1>2. LocksOf(t) /\ \A row \in Row : holder'[row] # t
  BY LocksFreed DEF End
<1> QED
  BY <1>1, <1>2, IdleTyped, IdleKeeps, GestureStep

-----------------------------------------------------------------------------
(* Begins, as a transaction. *)
LEMMA BeginsTyped ==
  ASSUME IInv, NEW t \in Txn, NEW gesture \in {"create_ruleset", "update_ruleset", "delete_ruleset"},
         NEW at \in {"load", "checks", "write"}, NEW id \in Rule, Begins(t, gesture, at, id)
  PROVE  \E new \in Transaction :
           /\ txn' = [txn EXCEPT ![t] = new] /\ txn'[t] = new
           /\ new.gesture = gesture /\ new.at = at /\ new.id = id
<1> DEFINE new == [txn[t] EXCEPT !.gesture = gesture, !.at = at, !.id = id]
<1>1. txn[t] \in Transaction
  BY Typed
<1>2. /\ new \in Transaction
      /\ new.gesture = gesture /\ new.at = at /\ new.id = id
  BY <1>1 DEF Transaction
<1>3. txn' = [txn EXCEPT ![t] = new]
  BY Typed DEF Begins
<1> HIDE DEF new
<1>4. txn'[t] = new
  BY <1>3, Typed
<1> QED
  BY <1>2, <1>3, <1>4

(* A save begins: it has the lock of the saves. *)
LEMMA SerializeRulesetsIInv ==
  ASSUME IInv, NEW t \in Txn, SerializeRulesets(t)
  PROVE  IInv'
<1>1. PICK gesture \in {"create_ruleset", "update_ruleset"}, at \in {"checks", "load"}, id \in Rule :
        Begins(t, gesture, at, id) /\ (at = "load" => gesture = "update_ruleset")
                                   /\ (at = "checks" => gesture = "create_ruleset")
  BY DEF SerializeRulesets, Saving
<1>2. PICK new \in Transaction : /\ txn' = [txn EXCEPT ![t] = new] /\ txn'[t] = new
                                 /\ new.gesture = gesture /\ new.at = at /\ new.id = id
  BY <1>1, BeginsTyped
<1>3. LocksOf(t) /\ holder'[Saves] = t /\ UNCHANGED <<rules, file>>
  BY Typed, LocksOne DEF SerializeRulesets
<1>4. TxnInv(t)'
  BY <1>1, <1>2, <1>3 DEF TxnInv, WellFormed, HoldsItsLocks, StillPasses, Saver
<1> QED
  BY <1>1, <1>2, <1>3, <1>4, GestureStep

(* An update finds its rule, or not. *)
LEMMA LoadRulesetIInv ==
  ASSUME IInv, NEW t \in Txn, LoadRuleset(t)
  PROVE  IInv'
<1>1. /\ txn[t].gesture = "update_ruleset" /\ txn[t].id \in Rule /\ holder[Saves] = t
      /\ txn[t].at = "load" /\ UNCHANGED <<rules, file>>
  BY DEF LoadRuleset, IInv, TxnInv, WellFormed, HoldsItsLocks, Saver
<1>2. CASE txn[t].id \in Declared /\ LockRow(t, txn[t].id, TRUE) /\ Goto(t, "checks")
  <2> DEFINE new == [txn[t] EXCEPT !.at = "checks"]
  <2>1. /\ new \in Transaction
        /\ new.at = "checks" /\ new.gesture = "update_ruleset" /\ new.id = txn[t].id
    BY <1>1, Typed DEF Transaction
  <2>2. txn' = [txn EXCEPT ![t] = new]
    BY <1>2, Typed DEF Goto
  <2> HIDE DEF new
  <2>3. txn'[t] = new
    BY <2>2, Typed
  <2>4. LocksOf(t) /\ holder'[txn[t].id] = t /\ holder'[Saves] = t
    BY <1>1, <1>2, Typed, LocksOne
  <2>5. txn[t].id \in Declared'
    BY <1>1, <1>2 DEF Declared
  <2>6. TxnInv(t)'
    BY <1>1, <2>1, <2>3, <2>4, <2>5 DEF TxnInv, WellFormed, HoldsItsLocks, StillPasses, Saver
  <2> QED
    BY <1>1, <2>1, <2>2, <2>4, <2>6, GestureStep
<1>3. CASE txn[t].id \notin Declared /\ End(t)
  BY <1>1, <1>3, RefusedIInv
<1> QED
  BY <1>2, <1>3 DEF LoadRuleset

(* A deletion begins: it has its rule's lock. *)
LEMMA DeleteRulesetIInv ==
  ASSUME IInv, NEW t \in Txn, DeleteRuleset(t)
  PROVE  IInv'
<1>1. PICK id \in Declared : Begins(t, "delete_ruleset", "write", id) /\ LockRow(t, id, TRUE)
  BY DEF DeleteRuleset
<1>2. id \in Rule /\ UNCHANGED <<rules, file>>
  BY <1>1 DEF Declared, DeleteRuleset
<1>3. PICK new \in Transaction : /\ txn' = [txn EXCEPT ![t] = new] /\ txn'[t] = new
                                 /\ new.gesture = "delete_ruleset" /\ new.at = "write" /\ new.id = id
  BY <1>1, <1>2, BeginsTyped
<1>4. LocksOf(t) /\ holder'[id] = t
  BY <1>1, <1>2, Typed, LocksOne
<1>5. TxnInv(t)'
  BY <1>2, <1>3, <1>4 DEF TxnInv, WellFormed, HoldsItsLocks, StillPasses, Saver
<1> QED
  BY <1>2, <1>3, <1>4, <1>5, GestureStep

(* What is asked is a row. *)
LEMMA AskedTyped ==
  ASSUME IInv, NEW t \in Txn, txn[t].at = "checks"
  PROVE  Asked(t) \subseteq RulesetRow
<1>1. \A p \in SoundMediaTypes : p \in SUBSET Pattern /\ p # {}
  BY FS_EmptySet DEF SoundMediaTypes
<1>2. txn[t].gesture # "create_ruleset" => rules[txn[t].id] \in RulesetRow
  <2>1. txn[t].gesture \in {"create_ruleset", "update_ruleset"}
    BY Typed DEF Transaction, IInv, TxnInv, WellFormed
  <2>2. txn[t].gesture # "create_ruleset" => txn[t].id \in Declared
    BY <2>1 DEF IInv, TxnInv, HoldsItsLocks
  <2> QED
    BY <2>2, Typed DEF Declared
<1> DEFINE triggers == IF txn[t].gesture = "create_ruleset" THEN Trigger
                       ELSE {rules[txn[t].id].trigger}
<1>3. triggers \subseteq Trigger
  BY <1>2 DEF RulesetRow
<1> HIDE DEF triggers
<1>4. [name : Name, trigger : triggers, is_default : BOOLEAN, media_types : SoundMediaTypes]
        \subseteq RulesetRow
  <2> DEFINE media == SoundMediaTypes
  <2>1. media \subseteq (SUBSET Pattern) \ {{}}
    BY <1>1
  <2> HIDE DEF media
  <2>2. [name : Name, trigger : triggers, is_default : BOOLEAN, media_types : media]
          \subseteq RulesetRow
    BY <1>3, <2>1 DEF RulesetRow
  <2> QED
    BY <2>2 DEF media
<1> QED
  BY <1>4 DEF Asked, triggers

(* The checks. *)
LEMMA CheckSaveIInv ==
  ASSUME IInv, NEW t \in Txn, CheckSave(t)
  PROVE  IInv'
<1>1. /\ txn[t].at = "checks" /\ txn[t].id \in Rule /\ Saver(t)
      /\ txn[t].gesture # "delete_ruleset" /\ UNCHANGED <<rules, file>>
      /\ HoldsItsLocks(t) /\ WellFormed(t)
  BY DEF CheckSave, IInv, TxnInv, WellFormed, Saver
<1>2. ASSUME NEW row \in Asked(t), ~NameTaken(t, row), row.is_default => ~DefaultClash(t, row),
             txn' = [txn EXCEPT ![t].at = "write", ![t].row = row], UNCHANGED holder
      PROVE  IInv'
  <2> DEFINE new == [txn[t] EXCEPT !.at = "write", !.row = row]
  <2>1. row \in RulesetRow
    BY <1>1, AskedTyped
  <2>2. /\ new \in Transaction
        /\ new.at = "write" /\ new.gesture = txn[t].gesture /\ new.id = txn[t].id /\ new.row = row
    BY <1>1, <2>1, Typed DEF Transaction
  <2>3. txn' = [txn EXCEPT ![t] = new]
    BY <1>2, Typed
  <2> HIDE DEF new
  <2>4. txn'[t] = new /\ LocksOf(t)
    BY <1>2, <2>3, Typed DEF LocksOf
  <2>5. Others(t)' = Others(t) /\ Declared' = Declared /\ DefaultsOf(row.trigger)' = DefaultsOf(row.trigger)
    BY <1>1, <2>2, <2>4 DEF Others, Declared, DefaultsOf
  <2>6. ~NameTaken(t, row)' /\ (row.is_default => ~DefaultClash(t, row)')
    BY <1>1, <1>2, <2>5 DEF NameTaken, DefaultClash
  <2>7. StillPasses(t)'
    BY <2>1, <2>2, <2>4, <2>6 DEF StillPasses, NameTaken, DefaultClash
  <2>8. HoldsItsLocks(t)' /\ WellFormed(t)'
    BY <1>1, <1>2, <2>2, <2>4, <2>5 DEF HoldsItsLocks, WellFormed, Saver
  <2> QED
    BY <1>1, <2>2, <2>3, <2>4, <2>7, <2>8, GestureStep DEF TxnInv
<1>3. CASE End(t)
  BY <1>1, <1>3, RefusedIInv
<1> QED
  BY <1>2, <1>3 DEF CheckSave

(* What the step of a transaction that writes a rule has to show. *)
LEMMA WriteStep ==
  ASSUME IInv, NEW t \in Txn, NEW id \in Rule, NEW row \in RulesetRow \cup {NoRule},
         rules' = [rules EXCEPT ![id] = row], End(t), UNCHANGED file,
         holder[Saves] = t \/ (row = NoRule /\ holder[id] = t),
         NamesUnique', DefaultsDisjoint'
  PROVE  IInv'
<1>1. txn' = [txn EXCEPT ![t] = Idle] /\ txn'[t] = Idle
  BY Typed DEF End
<1>2. LocksOf(t) /\ \A r \in Row : holder'[r] # t
  BY LocksFreed DEF End
<1>3. TypeOK'
  <2>1. rules' \in [Rule -> RulesetRow \cup {NoRule}] /\ file' \in File
    BY Typed DEF IInv, TypeOK
  <2>2. txn' \in [Txn -> Transaction]
    BY <1>1, IdleTyped, Typed
  <2>3. \A r \in Row : holder'[r] # Nobody => txn'[holder'[r]].at # "idle"
    BY <1>1, <1>2, Typed DEF LocksOf
  <2> QED
    BY <1>2, <2>1, <2>2, <2>3 DEF TypeOK, LocksOf, Transaction
<1>4. \A u \in Txn : TxnInv(u)'
  <2> SUFFICES ASSUME NEW u \in Txn \ {t} PROVE TxnInv(u)'
    BY <1>1, IdleKeeps
  <2>1. row = NoRule /\ holder[id] = t =>
          \A r \in Rule : rules'[r] = rules[r] \/ (rules'[r] = NoRule /\ holder[r] # u)
    BY Typed
  <2>2. txn'[u] = txn[u]
    BY <1>1, Typed
  <2> QED
    BY <1>2, <2>1, <2>2, OtherKeeps
<1>5. NoJobBefore'
  BY DEF IInv, NoJobBefore
<1> QED
  BY <1>3, <1>4, <1>5 DEF IInv

(* A save is written. *)
LEMMA SaveRulesetIInv ==
  ASSUME IInv, NEW t \in Txn, SaveRuleset(t)
  PROVE  IInv'
<1> DEFINE id == txn[t].id
           row == txn[t].row
<1>1. /\ rules' = [rules EXCEPT ![id] = row] /\ End(t) /\ UNCHANGED file
      /\ txn[t].at = "write" /\ Saver(t)
  BY DEF SaveRuleset, Saver
<1>2. /\ id \in Rule /\ holder[Saves] = t /\ row \in RulesetRow
      /\ ~NameTaken(t, row) /\ (row.is_default => ~DefaultClash(t, row))
  BY <1>1 DEF IInv, TxnInv, WellFormed, HoldsItsLocks, StillPasses, Saver
<1>3. /\ rules'[id] = row /\ \A r \in Rule \ {id} : rules'[r] = rules[r]
      /\ Declared' \subseteq Declared \cup {id} /\ Declared \ {id} \subseteq Others(t)
      /\ Others(t) \subseteq Rule /\ Declared' \subseteq Rule
  <2> HIDE DEF row
  <2> QED
    BY <1>1, <1>2, Typed DEF Declared, Others
<1> HIDE DEF id, row
<1>4. NamesUnique'
  <2> SUFFICES ASSUME NEW r \in Declared', NEW s \in Declared', rules'[r].name = rules'[s].name
               PROVE  r = s
    BY DEF NamesUnique
  <2>1. \A q \in Declared' \ {id} : q \in Declared /\ rules'[q] = rules[q] /\ rules[q].name # row.name
    BY <1>2, <1>3 DEF NameTaken
  <2> QED
    BY <1>3, <2>1 DEF IInv, NamesUnique
<1>5. DefaultsDisjoint'
  <2> SUFFICES ASSUME NEW trigger \in Trigger, NEW r \in DefaultsOf(trigger)',
                      NEW s \in DefaultsOf(trigger)', r # s
               PROVE  rules'[r].media_types \cap rules'[s].media_types = {}
    BY DEF DefaultsDisjoint
  <2>1. \A q \in DefaultsOf(trigger)' \ {id} :
          q \in DefaultsOf(trigger) /\ rules'[q] = rules[q] /\ q \in Others(t)
    BY <1>3 DEF DefaultsOf
  <2>2. id \in DefaultsOf(trigger)' => row.is_default /\ row.trigger = trigger
    BY <1>3 DEF DefaultsOf
  <2>3. id \in DefaultsOf(trigger)' =>
          \A q \in DefaultsOf(trigger)' \ {id} : rules[q].media_types \cap row.media_types = {}
    BY <1>2, <2>1, <2>2 DEF DefaultClash
  <2>4. CASE r # id /\ s # id
    BY <2>1, <2>4 DEF IInv, DefaultsDisjoint
  <2>5. CASE r = id
    BY <1>3, <2>1, <2>3, <2>5
  <2>6. CASE s = id
    BY <1>3, <2>1, <2>3, <2>6
  <2> QED
    BY <2>4, <2>5, <2>6
<1> QED
  BY <1>1, <1>2, <1>4, <1>5, WriteStep

(* A rule is deleted. *)
LEMMA RemoveRulesetIInv ==
  ASSUME IInv, NEW t \in Txn, RemoveRuleset(t)
  PROVE  IInv'
<1> DEFINE id == txn[t].id
<1>1. /\ rules' = [rules EXCEPT ![id] = NoRule] /\ End(t) /\ UNCHANGED file
      /\ id \in Rule /\ holder[id] = t
  BY DEF RemoveRuleset, IInv, TxnInv, WellFormed, HoldsItsLocks
<1> HIDE DEF id
<1>2. Declared' \subseteq Declared /\ \A r \in Declared' : rules'[r] = rules[r]
  BY <1>1, Typed DEF Declared
<1>3. NamesUnique' /\ DefaultsDisjoint'
  BY <1>2 DEF IInv, NamesUnique, DefaultsDisjoint, DefaultsOf
<1> QED
  BY <1>1, <1>3, WriteStep

-----------------------------------------------------------------------------
(* What is selected is a rule there is, of that trigger, that matches. *)
LEMMA SelectedRule ==
  ASSUME NEW trigger, NEW named, NEW r \in Selected(trigger, named)
  PROVE  /\ r \in Declared /\ r \in Rule
         /\ rules[r].trigger = trigger
         /\ Matches(rules[r], file.media_type)
         /\ named # NoRule => r = named
  BY DEF Selected, BestDefaults, SelectNamed, DefaultsOf, Declared

(* What a step of the file has to show. *)
LEMMA FileStep ==
  ASSUME IInv, UNCHANGED <<rules, txn, holder>>, file' \in File, NoJobBefore'
  PROVE  IInv'
<1>1. TypeOK'
  BY DEF IInv, TypeOK
<1>2. \A t \in Txn : TxnInv(t)'
  BY DEF IInv, TxnInv, WellFormed, HoldsItsLocks, StillPasses, Saver, NameTaken, DefaultClash,
     Others, DefaultsOf, Declared
<1>3. NamesUnique' /\ DefaultsDisjoint'
  BY DEF IInv, NamesUnique, DefaultsDisjoint, DefaultsOf, Declared
<1> QED
  BY <1>1, <1>2, <1>3 DEF IInv

(* A chain starts by some rule. *)
LEMMA StartChainFields ==
  ASSUME IInv, NEW r \in Rule, StartChain(r)
  PROVE  file' \in File /\ file'.state = "processing" /\ file'.ruleset = r
  BY DEF StartChain, IInv, TypeOK, File

(* The gestures over the file, and the end of its chain. *)
LEMMA FileStepsIInv ==
  ASSUME IInv,
         \/ \E named \in Rule \cup {NoRule} :
              RequestUpload(named) \/ ProcessFile(named) \/ RegeneratePage(named)
         \/ CommitUpload
         \/ ChainEnds
  PROVE  IInv'
<1>1. file \in File /\ NoJobBefore
  BY DEF IInv, TypeOK
<1>2. ASSUME NEW r \in Rule, StartChain(r), UNCHANGED <<rules, txn, holder>> PROVE IInv'
  BY <1>2, StartChainFields, FileStep DEF NoJobBefore
<1>3. CASE \E named \in Rule \cup {NoRule} : RequestUpload(named)
  <2>1. PICK named \in Rule \cup {NoRule} :
          /\ file' = [file EXCEPT !.state = "pending", !.chosen = named]
          /\ file.state = "absent" /\ UNCHANGED <<rules, txn, holder>>
    BY <1>3 DEF RequestUpload
  <2>2. file' \in File /\ NoJobBefore'
    BY <1>1, <2>1 DEF File, NoJobBefore
  <2> QED
    BY <2>1, <2>2, FileStep
<1>4. CASE \E named \in Rule \cup {NoRule} : ProcessFile(named)
  <2>1. PICK named \in Rule \cup {NoRule} : ProcessFile(named)
    BY <1>4
  <2>2. HadJob => file.ruleset \in Rule
    BY <1>1 DEF HadJob, File
  <2> QED
    BY <1>2, <2>1, <2>2, SelectedRule DEF ProcessFile
<1>5. CASE \E named \in Rule \cup {NoRule} : RegeneratePage(named)
  BY <1>2, <1>5, SelectedRule DEF RegeneratePage
<1>6. CASE CommitUpload
  <2>1. CASE \E r \in CommitRule : StartChain(r)
    BY <1>2, <1>6, <2>1, SelectedRule DEF CommitUpload, CommitRule
  <2>2. CASE file' = [file EXCEPT !.state = "settled", !.chosen = NoRule]
    <3>1. file' \in File /\ NoJobBefore'
      BY <1>1, <2>2 DEF File, NoJobBefore
    <3> QED
      BY <1>6, <3>1, FileStep DEF CommitUpload
  <2> QED
    BY <1>6, <2>1, <2>2 DEF CommitUpload
<1>7. CASE ChainEnds
  <2>1. file' = [file EXCEPT !.state = "settled"] /\ UNCHANGED <<rules, txn, holder>>
    BY <1>7 DEF ChainEnds
  <2>2. file' \in File /\ NoJobBefore'
    BY <1>1, <2>1 DEF File, NoJobBefore
  <2> QED
    BY <2>1, <2>2, FileStep
<1> QED
  BY <1>3, <1>4, <1>5, <1>6, <1>7

(* The first state: no rule, no transaction, no file. *)
LEMMA InitIInv == Init => IInv
<1> SUFFICES ASSUME Init PROVE IInv
  OBVIOUS
<1>1. Declared = {}
  BY DEF Init, Declared
<1>2. TypeOK
  BY RulesetsAssumption DEF Init, TypeOK, Idle, Row
<1>3. \A t \in Txn : TxnInv(t)
  BY DEF Init, Idle, TxnInv, WellFormed, HoldsItsLocks, StillPasses, Saver
<1>4. NamesUnique /\ DefaultsDisjoint /\ NoJobBefore
  BY <1>1 DEF Init, NamesUnique, DefaultsDisjoint, DefaultsOf, NoJobBefore
<1> QED
  BY <1>2, <1>3, <1>4 DEF IInv

(* Every step keeps the invariant. *)
LEMMA NextIInv == IInv /\ [Next]_vars => IInv'
<1> SUFFICES ASSUME IInv, [Next]_vars PROVE IInv'
  OBVIOUS
<1>1. CASE UNCHANGED vars
  <2>1. file' \in File /\ NoJobBefore' /\ UNCHANGED <<rules, txn, holder>>
    BY <1>1 DEF vars, IInv, TypeOK, NoJobBefore
  <2> QED
    BY <2>1, FileStep
<1>2. CASE Next
  BY <1>2, SerializeRulesetsIInv, LoadRulesetIInv, CheckSaveIInv, SaveRulesetIInv,
     DeleteRulesetIInv, RemoveRulesetIInv, FileStepsIInv DEF Next
<1> QED
  BY <1>1, <1>2

(* The invariant holds of every reachable state. *)
THEOREM Invariant == Spec => []IInv
  BY InitIInv, NextIInv, PTL DEF Spec

(* Rules, transactions, locks and the file stay of their types. *)
THEOREM TypeCorrect == Spec => []TypeOK
<1>1. IInv => TypeOK
  BY DEF IInv
<1> QED
  BY <1>1, Invariant, PTL

(* No two rules have one name, however saves and deletions cross
   (ruleset/store.rs, serialize_rulesets). *)
THEOREM NamesStayUnique == Spec => []NamesUnique
<1>1. IInv => NamesUnique
  BY DEF IInv
<1> QED
  BY <1>1, Invariant, PTL

(* No two defaults of one trigger claim one pattern (ruleset/gestures.rs,
   require_default_free). *)
THEOREM DefaultsStayDisjoint == Spec => []DefaultsDisjoint
<1>1. IInv => DefaultsDisjoint
  BY DEF IInv
<1> QED
  BY <1>1, Invariant, PTL

-----------------------------------------------------------------------------
(* A pattern has a rank for the media types it stands for. *)
LEMMA RankCovers ==
  ASSUME NEW p \in Pattern, NEW media \in MediaType
  PROVE  /\ MatchRank(p, media) \in 0..3
         /\ MatchRank(p, media) # 0 <=> media \in Covers(p)
  BY PatternAssumption DEF MatchRank, Covers, MediaType, Wildcard, AnyMediaType

(* Of two patterns that stand for a media type, the one ranked before stands
   for no more. *)
LEMMA RankNarrows ==
  ASSUME NEW p \in Pattern, NEW q \in Pattern, NEW media \in MediaType,
         media \in Covers(p), media \in Covers(q),
         MatchRank(p, media) <= MatchRank(q, media)
  PROVE  Covers(p) \subseteq Covers(q)
  BY PatternAssumption DEF MatchRank, Covers, MediaType, Wildcard, AnyMediaType

(* The least of some ranks. *)
LEMMA LeastRank ==
  ASSUME NEW S \in SUBSET (1..3), S # {}
  PROVE  Min(S) \in S /\ \A y \in S : Min(S) <= y
<1>1. \E x \in S : \A y \in S : x <= y
  <2>1. CASE 1 \in S
    BY <2>1
  <2>2. CASE 1 \notin S /\ 2 \in S
    BY <2>2
  <2>3. CASE 1 \notin S /\ 2 \notin S
    <3>1. \A y \in S : y = 3
      BY <2>3
    <3>2. PICK x \in S : x = 3
      BY <3>1
    <3>3. \A y \in S : x <= y
      BY <3>1, <3>2
    <3> QED
      BY <3>2, <3>3
  <2> QED
    BY <2>1, <2>2, <2>3
<1> QED
  BY <1>1 DEF Min

(* The best match of a rule that matches is that of one of its patterns. *)
LEMMA BestPattern ==
  ASSUME NEW row \in RulesetRow, NEW media \in MediaType
  PROVE  /\ Matches(row, media) <=> \E p \in row.media_types : media \in Covers(p)
         /\ Matches(row, media) =>
              /\ \E p \in row.media_types :
                   media \in Covers(p) /\ MatchRank(p, media) = BestMatch(row, media)
              /\ \A q \in row.media_types :
                   media \in Covers(q) => BestMatch(row, media) <= MatchRank(q, media)
<1>1. row.media_types \subseteq Pattern
  BY DEF RulesetRow
<1>2. Ranks(row, media) \in SUBSET (1..3)
  BY <1>1, RankCovers DEF Ranks
<1>3. Matches(row, media) <=> \E p \in row.media_types : media \in Covers(p)
  BY <1>1, RankCovers DEF Matches, Ranks
<1>4. ASSUME Matches(row, media)
      PROVE  /\ BestMatch(row, media) \in Ranks(row, media)
             /\ \A y \in Ranks(row, media) : BestMatch(row, media) <= y
  BY <1>2, <1>4, LeastRank DEF Matches, BestMatch
<1>5. ASSUME Matches(row, media)
      PROVE  \E p \in row.media_types :
               media \in Covers(p) /\ MatchRank(p, media) = BestMatch(row, media)
  BY <1>1, <1>4, <1>5, RankCovers DEF Ranks
<1>6. ASSUME Matches(row, media)
      PROVE  \A q \in row.media_types :
               media \in Covers(q) => BestMatch(row, media) <= MatchRank(q, media)
  BY <1>1, <1>4, <1>6, RankCovers DEF Ranks
<1> QED
  BY <1>3, <1>5, <1>6

(* That the defaults are disjoint is enough for the selection: no other default
   claims a file as narrowly as the one selected (ruleset/store.rs,
   select_ruleset). *)
THEOREM SelectionIsNarrowest == Spec => []SelectsTheNarrowest
<1>1. IInv => SelectsTheNarrowest
  <2> SUFFICES ASSUME IInv, NEW trigger \in Trigger, NEW media \in MediaType,
                      NEW r \in BestDefaults(trigger, media), NEW s \in DefaultsOf(trigger) \ {r},
                      NEW q \in rules[s].media_types, media \in Covers(q)
               PROVE  \E p \in rules[r].media_types :
                        media \in Covers(p) /\ Covers(p) \subseteq Covers(q) /\ p # q
    BY DEF SelectsTheNarrowest
  <2>1. /\ r \in DefaultsOf(trigger) /\ Matches(rules[r], media)
        /\ rules[r] \in RulesetRow /\ rules[s] \in RulesetRow
    BY Typed DEF BestDefaults, DefaultsOf, Declared
  <2>2. Matches(rules[s], media)
    BY <2>1, BestPattern
  <2>3. BestMatch(rules[r], media) <= BestMatch(rules[s], media)
    BY <2>2 DEF BestDefaults
  <2>4. PICK p \in rules[r].media_types :
          media \in Covers(p) /\ MatchRank(p, media) = BestMatch(rules[r], media)
    BY <2>1, BestPattern
  <2>5. BestMatch(rules[s], media) <= MatchRank(q, media)
    BY <2>1, <2>2, BestPattern
  <2>6. p \in Pattern /\ q \in Pattern
    BY <2>1 DEF RulesetRow
  <2>7. BestMatch(rules[s], media) \in 0..3
    <3>1. PICK b \in rules[s].media_types : MatchRank(b, media) = BestMatch(rules[s], media)
      BY <2>1, <2>2, BestPattern
    <3>2. b \in Pattern
      BY <2>1 DEF RulesetRow
    <3> QED
      BY <3>1, <3>2, RankCovers
  <2>8. MatchRank(p, media) <= MatchRank(q, media)
    BY <2>3, <2>4, <2>5, <2>6, <2>7, RankCovers
  <2>9. p # q
    BY <2>1 DEF IInv, DefaultsDisjoint
  <2> QED
    BY <2>4, <2>6, <2>8, <2>9, RankNarrows
<1> QED
  BY <1>1, Invariant, PTL

(* A chain of the file starts from a step over the file only. *)
LEMMA StartingSteps ==
  ASSUME IInv, Next, Starts
  PROVE  \/ \E named \in Rule \cup {NoRule} : ProcessFile(named) \/ RegeneratePage(named)
         \/ file.state = "pending" /\ \E r \in CommitRule : StartChain(r)
<1>1. file \in File
  BY DEF IInv, TypeOK
<1>2. \A named \in Rule \cup {NoRule} : ~RequestUpload(named)
  BY <1>1 DEF RequestUpload, Starts, File
<1>3. ~ChainEnds
  BY DEF ChainEnds, Starts
<1>4. file' # file
  BY DEF Starts
<1>5. \A t \in Txn : ~(\/ SerializeRulesets(t) \/ LoadRuleset(t) \/ CheckSave(t) \/ SaveRuleset(t)
                       \/ DeleteRuleset(t) \/ RemoveRuleset(t))
  BY <1>4 DEF SerializeRulesets, LoadRuleset, CheckSave, SaveRuleset, DeleteRuleset, RemoveRuleset
<1>6. file' # [file EXCEPT !.state = "settled", !.chosen = NoRule]
  BY <1>1 DEF Starts, File
<1> QED
  BY <1>2, <1>3, <1>5, <1>6 DEF Next, CommitUpload

(* A file's first chain runs an upload rule, a later one a reprocess rule, a
   regeneration rule, or what the file ran before (file/gestures.rs,
   process_file). *)
THEOREM ChainsRunTheRightRule == Spec => RightRuleRuns
<1> DEFINE Right(r) ==
      \/ HadJob /\ r = file.ruleset
      \/ /\ r \in Declared
         /\ \E p \in rules[r].media_types : file.media_type \in Covers(p)
         /\ HadJob <=> rules[r].trigger # "upload"
<1>1. IInv /\ [Next]_vars => [Starts => Right(file'.ruleset)]_vars
  <2> SUFFICES ASSUME IInv, Next, Starts PROVE Right(file'.ruleset)
    OBVIOUS
  <2>1. file.media_type \in MediaType
    BY DEF IInv, TypeOK, File
  <2>2. ASSUME NEW trigger, NEW named, NEW r \in Selected(trigger, named), StartChain(r),
               HadJob <=> trigger # "upload"
        PROVE  Right(file'.ruleset)
    <3>1. r \in Declared /\ r \in Rule /\ rules[r].trigger = trigger
          /\ Matches(rules[r], file.media_type)
      BY SelectedRule
    <3>2. rules[r] \in RulesetRow
      BY <3>1, Typed DEF Declared
    <3>3. \E p \in rules[r].media_types : file.media_type \in Covers(p)
      BY <2>1, <3>1, <3>2, BestPattern
    <3>4. file'.ruleset = r
      BY <2>2, <3>1, StartChainFields
    <3> QED
      BY <2>2, <3>1, <3>3, <3>4
  <2>3. ASSUME NEW named \in Rule \cup {NoRule}, ProcessFile(named) PROVE Right(file'.ruleset)
    <3> DEFINE trigger == IF HadJob THEN "reprocess" ELSE "upload"
    <3>1. CASE \E r \in Selected(trigger, named) : StartChain(r)
      BY <2>2, <3>1
    <3>2. CASE HadJob /\ StartChain(file.ruleset)
      <4>1. file.ruleset \in Rule
        BY <3>2 DEF HadJob, IInv, TypeOK, File
      <4>2. file'.ruleset = file.ruleset
        BY <3>2, <4>1, StartChainFields
      <4> QED
        BY <3>2, <4>2
    <3> QED
      BY <2>3, <3>1, <3>2 DEF ProcessFile
  <2>4. ASSUME NEW named \in Rule \cup {NoRule}, RegeneratePage(named) PROVE Right(file'.ruleset)
    BY <2>2, <2>4 DEF RegeneratePage
  <2>5. ASSUME file.state = "pending", NEW r \in CommitRule, StartChain(r)
        PROVE  Right(file'.ruleset)
    <3>1. ~HadJob
      BY <2>5 DEF IInv, NoJobBefore, HadJob
    <3> QED
      BY <2>2, <2>5, <3>1 DEF CommitRule
  <2> HIDE DEF Right
  <2> QED
    BY <2>3, <2>4, <2>5, StartingSteps
<1> QED
  BY <1>1, Invariant, PTL DEF Spec, RightRuleRuns

(* A commit runs the rule its uploader chose, or none (upload.rs,
   commit_rule). *)
THEOREM ChosenRuleKept == Spec => ChoiceKept
<1> DEFINE Step == file.state = "pending" /\ Starts /\ file.chosen # NoRule
                     => file'.ruleset = file.chosen
<1>1. IInv /\ [Next]_vars => [Step]_vars
  <2> SUFFICES ASSUME IInv, Next, file.state = "pending", Starts, file.chosen # NoRule
               PROVE  file'.ruleset = file.chosen
    OBVIOUS
  <2>1. PICK r \in CommitRule : StartChain(r)
    BY StartingSteps DEF ProcessFile, RegeneratePage
  <2>2. r \in Rule /\ r = file.chosen
    BY SelectedRule DEF CommitRule
  <2> QED
    BY <2>1, <2>2, StartChainFields
<1> QED
  BY <1>1, Invariant, PTL DEF Spec, ChoiceKept
=============================================================================
