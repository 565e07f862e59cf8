------------------------------ MODULE RowLocks ------------------------------
(* The row locks gestures take: the engine's load and load_many, over
   Postgres.  A transaction waits for a held row, and frees all it holds at
   once, when it ends. *)
CONSTANTS Txn,     \* the transactions open at one time
          Nobody   \* holds a free row

VARIABLE holder    \* the transaction that holds each row

Free(row) == holder[row] = Nobody

(* A row that is not there is not locked. *)
LockRow(t, row, there) ==
  /\ holder[row] \in {Nobody, t}
  /\ holder' = IF there THEN [holder EXCEPT ![row] = t] ELSE holder

ReleaseAll(t) ==
  holder' = [row \in DOMAIN holder |-> IF holder[row] = t THEN Nobody ELSE holder[row]]

WaitsFor(t, rows) == {holder[row] : row \in rows} \ {Nobody, t}

(* Transactions that all wait for one another, wants[t] being the rows t asks
   for next. *)
WaitInCycle(wants) ==
  \E waiting \in SUBSET Txn :
    /\ waiting # {}
    /\ \A t \in waiting : LET others == WaitsFor(t, wants[t])
                          IN others # {} /\ others \subseteq waiting
=============================================================================
