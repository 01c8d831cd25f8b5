------------------------------ MODULE StaleReads ------------------------------
(***************************************************************************)
(* What a reader of a cached table is promised: an answer need not be the  *)
(* value stored now, but it was stored at most `limit' ticks ago.  Nothing *)
(* is said of how answers are found, or of how many readers share a query. *)
(***************************************************************************)
EXTENDS Integers

CONSTANTS
    Values,   \* what the table may hold
    None,     \* no answer yet, or none that anything is promised of
    Far       \* an age beyond every limit

VARIABLES
    limit,    \* the promised bound, which never changes
    stored,   \* the value in the table
    last,     \* for each value the ticks since it was stored, up to Far
    answer    \* the last answer given to a reader

vars == <<limit, stored, last, answer>>

Init ==
    /\ limit \in 0 .. Far - 1
    /\ stored \in Values
    /\ last = [v \in Values |-> IF v = stored THEN 0 ELSE Far]
    /\ answer = None

Edit(v) ==
    /\ stored' = v
    /\ last' = [last EXCEPT ![v] = 0]
    /\ UNCHANGED <<limit, answer>>

Answer(v) ==
    /\ last[v] <= limit
    /\ answer' = v
    /\ UNCHANGED <<limit, stored, last>>

GiveUp ==
    /\ answer' = None
    /\ UNCHANGED <<limit, stored, last>>

Tick ==
    /\ last' = [v \in Values |-> IF v = stored THEN 0
                                 ELSE IF last[v] < Far THEN last[v] + 1 ELSE Far]
    /\ UNCHANGED <<limit, stored, answer>>

Next ==
    \/ \E v \in Values : Edit(v) \/ Answer(v)
    \/ GiveUp
    \/ Tick

Spec == Init /\ [][Next]_vars
=============================================================================
