------------------------------ MODULE Rulesets ------------------------------
(***************************************************************************)
(* The processing rules of a host (ruleset/), the gestures that save and   *)
(* delete them side by side, and the rule a file's chain is started by.    *)
(*                                                                         *)
(* A gesture over the rules is one transaction: it takes its locks one at  *)
(* a time and commits its write at the end.  One that waits for its first  *)
(* lock has done nothing yet, and what it is given is chosen where it is   *)
(* first read.                                                             *)
(* The gestures over the file read the rules in one statement, unlocked.   *)
(*                                                                         *)
(* Names are up to case; a rule's steps, its versions and its facts are    *)
(* left out, and so are the gates.                                         *)
(***************************************************************************)
EXTENDS Naturals, FiniteSets, FiniteSetsExt, RowLocks

CONSTANTS Rule,         \* the ids rules are created under
          Name,         \* the names asked for
          Pattern,      \* the media-type patterns asked for
          MaxPatterns,  \* of one rule
          NoRule

ASSUME RulesetsAssumption ==
  /\ NoRule \notin Rule /\ Nobody \notin Txn
  /\ MaxPatterns \in Nat \ {0}

(* The media types: two of one kind, one of another. *)
MediaType == {"application/pdf", "application/zip", "text/plain"}
Wildcard == {"application/*"}
AnyMediaType == "*"

ASSUME PatternAssumption == Pattern \subseteq MediaType \cup Wildcard \cup {AnyMediaType}

Trigger == {"upload", "reprocess", "regenerate_page"}

RulesetRow ==
  [name : Name, trigger : Trigger, is_default : BOOLEAN,
   media_types : (SUBSET Pattern) \ {{}}]  \* CHECK (cardinality(media_types) >= 1)

Saves == "drive.ruleset"  \* the advisory lock of the saves
Row == Rule \cup {Saves}

VARIABLES
  rules,  \* drive.ruleset: id -> row
  txn,    \* the gesture each transaction runs, and where it is
  file    \* one file: its state, its media type, and the rules it names

vars == <<rules, txn, file, holder>>

Idle == [gesture |-> "none", at |-> "idle", id |-> NoRule, row |-> NoRule]

File == [state : {"absent", "pending", "settled", "processing"},
         media_type : MediaType,
         chosen : Rule \cup {NoRule},   \* upload_ruleset_id
         ruleset : Rule \cup {NoRule}]  \* ruleset_id: the rule whose steps it last ran

TypeOK ==
  /\ rules \in [Rule -> RulesetRow \cup {NoRule}]
  /\ txn \in [Txn -> [gesture : {"none", "create_ruleset", "update_ruleset", "delete_ruleset"},
                      at : {"idle", "load", "checks", "write"},
                      id : Rule \cup {NoRule}, row : RulesetRow \cup {NoRule}]]
  /\ file \in File
  /\ holder \in [Row -> Txn \cup {Nobody}]
  /\ \A row \in Row : holder[row] # Nobody => txn[holder[row]].at # "idle"

Init ==
  /\ rules = [r \in Rule |-> NoRule]
  /\ txn = [t \in Txn |-> Idle]
  /\ file \in {f \in File : f.state = "absent" /\ f.chosen = NoRule /\ f.ruleset = NoRule}
  /\ holder = [r \in Row |-> Nobody]

Declared == {r \in Rule : rules[r] # NoRule}

-----------------------------------------------------------------------------
(* Matching. *)

(* Mutation: a type wildcard counts as anything. *)
WildcardsAlike(pattern, media) ==
  IF pattern = media THEN 1
  ELSE IF pattern = AnyMediaType \/ media # "text/plain" THEN 2 ELSE 0

(* How well a pattern matches a media type, 1 the best and 0 not at all. *)
MatchRank(pattern, media) ==
  CASE pattern = AnyMediaType -> 3
    [] pattern \in Wildcard -> IF media # "text/plain" THEN 2 ELSE 0
    [] OTHER -> IF pattern = media THEN 1 ELSE 0

Ranks(row, media) == {MatchRank(p, media) : p \in row.media_types} \ {0}

Matches(row, media) == Ranks(row, media) # {}

BestMatch(row, media) == Min(Ranks(row, media))

DefaultsOf(trigger) == {r \in Declared : rules[r].is_default /\ rules[r].trigger = trigger}

(* The defaults select_ruleset is left with: the order of their names, by
   which it chooses among them, is not modelled. *)
BestDefaults(trigger, media) ==
  LET candidates == {r \in DefaultsOf(trigger) : Matches(rules[r], media)}
  IN {r \in candidates : \A s \in candidates :
        BestMatch(rules[r], media) <= BestMatch(rules[s], media)}

(* Mutation: the trigger of a rule that is named is not looked at. *)
SelectNamedOfAnyTrigger(trigger, media, id) ==
  {r \in Declared \cap {id} : Matches(rules[r], media)}

(* A rule that is named is that rule, or refused. *)
SelectNamed(trigger, media, id) ==
  {r \in Declared \cap {id} : rules[r].trigger = trigger /\ Matches(rules[r], media)}

-----------------------------------------------------------------------------
(* The gestures over the rules. *)

Goto(t, at) == txn' = [txn EXCEPT ![t].at = at]

(* The transaction ends, having written or not. *)
End(t) == /\ txn' = [txn EXCEPT ![t] = Idle]
          /\ ReleaseAll(t)

Begins(t, gesture, at, id) ==
  /\ txn[t] = Idle
  /\ txn' = [txn EXCEPT ![t].gesture = gesture, ![t].at = at, ![t].id = id]

Saving(t) ==
  \/ \E id \in Rule : Begins(t, "create_ruleset", "checks", id)
  \/ \E id \in Rule : Begins(t, "update_ruleset", "load", id)

(* Mutation: the checks of two saves are not serialised. *)
SavesNotSerialised(t) == Saving(t) /\ UNCHANGED <<rules, file, holder>>

SerializeRulesets(t) ==
  /\ Saving(t)
  /\ LockRow(t, Saves, TRUE)
  /\ UNCHANGED <<rules, file>>

(* The rule an update names is locked and read, or RULESET_NOT_FOUND. *)
LoadRuleset(t) ==
  /\ txn[t].at = "load"
  /\ \/ /\ txn[t].id \in Declared
        /\ LockRow(t, txn[t].id, TRUE)
        /\ Goto(t, "checks")
     \/ /\ txn[t].id \notin Declared
        /\ End(t)
  /\ UNCHANGED <<rules, file>>

(* delete_ruleset takes the rule's own lock, and not the one of the saves. *)
DeleteRuleset(t) ==
  /\ \E id \in Declared : /\ Begins(t, "delete_ruleset", "write", id)
                          /\ LockRow(t, id, TRUE)
  /\ UNCHANGED <<rules, file>>

(* Mutation: a rule for no media type is let through. *)
AnyMediaTypes == {p \in SUBSET Pattern : Cardinality(p) <= MaxPatterns}

SoundMediaTypes == {p \in SUBSET Pattern : Cardinality(p) \in 1..MaxPatterns}

(* The rows a save may be asked to write: update_ruleset keeps the trigger,
   and refuses a row that would read as it does. *)
Asked(t) ==
  LET triggers == IF txn[t].gesture = "create_ruleset" THEN Trigger
                  ELSE {rules[txn[t].id].trigger}
  IN [name : Name, trigger : triggers, is_default : BOOLEAN, media_types : SoundMediaTypes]
       \ (IF txn[t].gesture = "create_ruleset" THEN {} ELSE {rules[txn[t].id]})

(* A rule being updated does not stand in its own way; one that is created
   counts every row there is, its own id's too. *)
Others(t) ==
  IF txn[t].gesture = "update_ruleset" THEN Declared \ {txn[t].id} ELSE Declared

NameTaken(t, row) == \E r \in Others(t) : rules[r].name = row.name

(* Mutation: only a default with the very same patterns is in the way. *)
SameClaim(t, row) ==
  \E r \in Others(t) \cap DefaultsOf(row.trigger) : rules[r].media_types = row.media_types

(* The defaults of the trigger that claim one of the same patterns. *)
DefaultClash(t, row) ==
  \E r \in Others(t) \cap DefaultsOf(row.trigger) :
    rules[r].media_types \cap row.media_types # {}

(* Two statements, each seeing what is committed: a deletion that commits
   between them only makes room. *)
CheckSave(t) ==
  /\ txn[t].at = "checks"
  /\ \/ \E row \in Asked(t) :
          /\ ~NameTaken(t, row)
          /\ row.is_default => ~DefaultClash(t, row)
          /\ txn' = [txn EXCEPT ![t].at = "write", ![t].row = row]
          /\ UNCHANGED holder
     \/ End(t)  \* refused: a name taken, a default in the way, nothing to change
  /\ UNCHANGED <<rules, file>>

(* The upsert writes over a rule of that id, and waits for one that is being
   deleted; the unique index is then checked. *)
SaveRuleset(t) ==
  /\ txn[t].at = "write" /\ txn[t].gesture # "delete_ruleset"
  /\ holder[txn[t].id] \in {Nobody, t}
  /\ rules' = [rules EXCEPT ![txn[t].id] = txn[t].row]
  /\ End(t)
  /\ UNCHANGED file

RemoveRuleset(t) ==
  /\ txn[t].at = "write" /\ txn[t].gesture = "delete_ruleset"
  /\ rules' = [rules EXCEPT ![txn[t].id] = NoRule]
  /\ End(t)
  /\ UNCHANGED file

-----------------------------------------------------------------------------
(* The gestures over the file: each holds the file's row to its end. *)

Selected(trigger, named) ==
  IF named = NoRule THEN BestDefaults(trigger, file.media_type)
  ELSE SelectNamed(trigger, file.media_type, named)

(* request_upload, and request_upload_with_ruleset, which refuses a rule the
   commit would not run as things stand. *)
RequestUpload(named) ==
  /\ file.state = "absent"
  /\ named # NoRule => Selected("upload", named) # {}
  /\ file' = [file EXCEPT !.state = "pending", !.chosen = named]
  /\ UNCHANGED <<rules, txn, holder>>

(* last_job: every chain that starts mints a job, and it is never forgotten. *)
HadJob == file.ruleset # NoRule

(* The rule chosen at the upload stays on the row, but is not read again. *)
StartChain(ruleset) ==
  file' = [file EXCEPT !.state = "processing", !.ruleset = ruleset, !.chosen = NoRule]

(* Mutation: a chosen rule that is gone gives way to the default. *)
CommitRuleOrDefault ==
  LET chosen == Selected("upload", file.chosen)
  IN IF chosen # {} THEN chosen ELSE Selected("upload", NoRule)

CommitRule == Selected("upload", file.chosen)

(* The commit runs its rule, or stores the file only: no rule is left, or
   the host does not process on commit. *)
CommitUpload ==
  /\ file.state = "pending"
  /\ \/ \E r \in CommitRule : StartChain(r)
     \/ file' = [file EXCEPT !.state = "settled", !.chosen = NoRule]
  /\ UNCHANGED <<rules, txn, holder>>

(* A file that never had a job runs an upload rule, any other a reprocess
   rule, or what it last ran. *)
ProcessFile(named) ==
  LET trigger == IF HadJob THEN "reprocess" ELSE "upload"
  IN /\ file.state = "settled"
     /\ \/ \E r \in Selected(trigger, named) : StartChain(r)
        \/ /\ named = NoRule /\ Selected(trigger, NoRule) = {}
           /\ HadJob
           /\ StartChain(file.ruleset)
     /\ UNCHANGED <<rules, txn, holder>>

RegeneratePage(named) ==
  /\ file.state = "settled" /\ HadJob
  /\ \E r \in Selected("regenerate_page", named) : StartChain(r)
  /\ UNCHANGED <<rules, txn, holder>>

(* The chain ends: see ProcessingChain. *)
ChainEnds ==
  /\ file.state = "processing"
  /\ file' = [file EXCEPT !.state = "settled"]
  /\ UNCHANGED <<rules, txn, holder>>

-----------------------------------------------------------------------------
Next ==
  \/ \E t \in Txn : \/ SerializeRulesets(t) \/ LoadRuleset(t) \/ CheckSave(t) \/ SaveRuleset(t)
                    \/ DeleteRuleset(t) \/ RemoveRuleset(t)
  \/ \E named \in Rule \cup {NoRule} :
       RequestUpload(named) \/ ProcessFile(named) \/ RegeneratePage(named)
  \/ CommitUpload
  \/ ChainEnds

Spec == Init /\ [][Next]_vars

-----------------------------------------------------------------------------
(* No two rules have one name, however their saves and a deletion cross: the
   unique index never answers in the place of RULESET_NAME_TAKEN
   (ruleset/store.rs, serialize_rulesets). *)
NamesUnique == \A r, s \in Declared : rules[r].name = rules[s].name => r = s

(* No two defaults of one trigger claim one pattern: no index stands behind
   DEFAULT_ALREADY_SET, only the lock and the check (ruleset/gestures.rs,
   require_default_free). *)
DefaultsDisjoint ==
  \A trigger \in Trigger : \A r, s \in DefaultsOf(trigger) :
    rules[r].media_types \cap rules[s].media_types # {} => r = s

(* The media types a pattern stands for. *)
Covers(pattern) ==
  CASE pattern = AnyMediaType -> MediaType
    [] pattern \in Wildcard -> {"application/pdf", "application/zip"}
    [] OTHER -> {pattern}

(* What the saves refuse is enough for the selection: of a trigger's defaults
   none but the one selected claims the file as narrowly, nor more so, so that
   renaming a rule never changes which one runs (ruleset/store.rs,
   select_ruleset). *)
SelectsTheNarrowest ==
  \A trigger \in Trigger, media \in MediaType :
    \A r \in BestDefaults(trigger, media) : \A s \in DefaultsOf(trigger) \ {r} :
      \A q \in rules[s].media_types : media \in Covers(q) =>
        \E p \in rules[r].media_types :
          media \in Covers(p) /\ Covers(p) \subseteq Covers(q) /\ p # q

Starts == file.state # "processing" /\ file'.state = "processing"

(* The first chain of a file runs an upload rule, whenever it starts; a later
   one never does, unless it runs again what the file ran before, or a
   regeneration (file/gestures.rs, process_file). *)
RightRuleRuns ==
  [][Starts =>
       LET r == file'.ruleset
       IN \/ HadJob /\ r = file.ruleset
          \/ /\ r \in Declared
             /\ \E p \in rules[r].media_types : file.media_type \in Covers(p)
             /\ HadJob <=> rules[r].trigger # "upload"]_vars

(* A commit never runs another rule than the one its uploader chose, though
   the rule was deleted, or changed, or created anew since (upload.rs,
   commit_rule). *)
ChoiceKept ==
  [][file.state = "pending" /\ Starts /\ file.chosen # NoRule
       => file'.ruleset = file.chosen]_vars
=============================================================================
