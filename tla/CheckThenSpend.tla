----------------------------- MODULE CheckThenSpend -----------------------------
(***************************************************************************)
(* Goods are sold for credentials meant for one purchase each, by a check  *)
(* and a later write: a holder finds a credential unspent, spends it, and  *)
(* buys with it.  Nobody finds a spent credential, nothing is bought with  *)
(* one that is not spent, a find buys one thing at most, and nothing is    *)
(* ever given back.  So a credential buys at most as often as it was found *)
(* before it was first spent: once, if it was found once.                  *)
(***************************************************************************)
CONSTANTS
    Credentials,
    Holders,
    Goods

VARIABLES
    found,   \* for each holder, the credential it found unspent and has not used up
    spent,   \* the spent credentials
    price    \* for each of the goods, the credential it was bought with

vars == <<found, spent, price>>

Init ==
    /\ found = [h \in Holders |-> {}]
    /\ spent = {}
    /\ price = [g \in Goods |-> {}]

\* Some give up, or none; what they spent stays spent.
GiveUp(hs) ==
    /\ UNCHANGED <<spent, price>>
    /\ found' = [h \in Holders |-> IF h \in hs THEN {} ELSE found[h]]

Find(h) ==
    /\ found[h] = {}
    /\ \E x \in Credentials \ spent : found' = [found EXCEPT ![h] = {x}]
    /\ UNCHANGED <<spent, price>>

\* What another holder has spent meanwhile is spent again.
Spend(h) ==
    /\ spent' = spent \cup found[h]
    /\ UNCHANGED <<found, price>>

Buy(h) ==
    /\ found[h] # {} /\ found[h] \subseteq spent
    /\ found' = [found EXCEPT ![h] = {}]
    /\ \E g \in Goods : price[g] = {} /\ price' = [price EXCEPT ![g] = found[h]]
    /\ UNCHANGED spent

Next ==
    \/ \E hs \in SUBSET Holders : GiveUp(hs)
    \/ \E h \in Holders : Find(h) \/ Spend(h) \/ Buy(h)

Spec == Init /\ [][Next]_vars
=============================================================================
