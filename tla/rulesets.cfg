\* Two rules saved and deleted by two transactions side by side.
SPECIFICATION Spec
CONSTANTS
    Txn = {t1, t2}
    Nobody = Nobody
    Rule = {r1, r2}
    NoRule = NoRule
    Name = {n1, n2}
    Pattern = {"application/pdf", "application/*", "*"}
    MaxPatterns = 2
SYMMETRY Interchangeable
INVARIANTS TypeOK NamesUnique DefaultsDisjoint SelectsTheNarrowest
PROPERTIES RightRuleRuns ChoiceKept
