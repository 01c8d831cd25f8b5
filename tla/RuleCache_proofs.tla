--------------------------- MODULE RuleCache_proofs ---------------------------
(***************************************************************************)
(* The three caches keep what StaleReads promises, for any number of       *)
(* callers and values, any TTL and any time that queries take below it.    *)
(***************************************************************************)
EXTENDS RuleCache, TLAPS

USE RuleCacheAssumption DEF Lookup, Far

\* What of the last answer a caller was promised anything.
Promised == IF unguarded THEN None ELSE answer

\* What comes on top of an entry's age: the rules and tenants are stamped late.
Slack == IF service = "settings" THEN 0 ELSE Latency

\* What a query has read was in the table at most its age ago, and is still there
\* unless an edit has raced it.
Reading ==
    \A c \in Callers : query[c].at = "read" =>
        /\ query[c].val \in Values
        /\ last[query[c].val] <= query[c].age
        /\ ~query[c].raced => query[c].val = stored

\* A servable entry was in the table at most its age and the slack ago.
Serving == Fresh => last[entry.val] <= entry.age + Slack

\* A request that has passed the ban guard finds rules that were servable when it
\* passed, or newer ones.
Late ==
    \A c \in Callers : caller[c].pc = "late" =>
        /\ service = "ban"
        /\ entry.val # None => last[entry.val] <= TTL - 1 + Latency + caller[c].age

\* The inductive invariant.  CurrentUnlessRaced needs Reading, and the refinement
\* needs the bounds on ages.
IInv ==
    /\ TypeOK
    /\ last[stored] = 0
    /\ Reading
    /\ Serving
    /\ Late
    /\ CurrentUnlessRaced

\* Adding one tick, up to a bound, stays in range.
LEMMA OlderInRange ==
    ASSUME NEW bound \in Nat, NEW n \in 0 .. bound
    PROVE  /\ Older(n, bound) \in 0 .. bound
           /\ n <= Older(n, bound) /\ Older(n, bound) <= n + 1
           /\ Older(n, bound) < bound => Older(n, bound) = n + 1
  BY DEF Older

LEMMA TypeInit == Init => TypeOK
<1> SUFFICES ASSUME Init PROVE TypeOK
  OBVIOUS
<1>1. entry \in Entry
  BY DEF Init, Entry, Empty
<1>2. query \in [Callers -> Query] /\ caller \in [Callers -> Caller]
  BY DEF Init, Query, NoQuery, Caller, Idle
<1>3. last \in [Values -> 0 .. TTL + 2 * Latency + 1]
  BY DEF Init
<1>4. QED BY <1>1, <1>2, <1>3 DEF Init, TypeOK

\* A lookup keeps the types.
LEMMA TypeAsk ==
    ASSUME TypeOK, NEW c \in Callers, NEW next \in {"idle", "late"}, Ask(c, next)
    PROVE  TypeOK'
<1> USE DEF TypeOK, Ask, Answer
<1>1. caller' \in [Callers -> Caller]
  BY DEF Caller
<1>2. query' \in [Callers -> Query]
  BY DEF Query
<1>3. answer' \in Values \cup {None} /\ unguarded' \in BOOLEAN
  BY DEF Entry
<1>4. QED BY <1>1, <1>2, <1>3

LEMMA TypeDeliver ==
    ASSUME TypeOK, NEW c \in Callers, NEW age \in 0 .. Latency,
           NEW next \in {"idle", "late"}, Deliver(c, age, next)
    PROVE  TypeOK'
<1> USE DEF TypeOK, Deliver, Answer
<1>1. query[c] \in Query
  OBVIOUS
<1>2. entry' \in Entry /\ answer' \in Values \cup {None} /\ unguarded' \in BOOLEAN
  <2>1. query[c].val \in Values \cup {None} /\ query[c].raced \in BOOLEAN
    BY <1>1 DEF Query
  <2>2. entry' \in Entry
    BY <2>1 DEF Entry
  <2>3. QED BY <2>1, <2>2
<1>3. caller' \in [Callers -> Caller]
  <2>1. [Idle EXCEPT !.pc = next] \in Caller
    BY DEF Caller, Idle
  <2>2. QED BY <2>1
<1>4. query' \in [Callers -> Query]
  BY DEF Query, NoQuery
<1>5. QED BY <1>2, <1>3, <1>4

\* Every step keeps the types.
LEMMA TypeStep == TypeOK /\ [Next]_vars => TypeOK'
<1> SUFFICES ASSUME TypeOK, [Next]_vars PROVE TypeOK'
  OBVIOUS
<1>1. ASSUME NEW c \in Callers, BanGuard(c) \/ ResolveApp(c) \/ LoadAll(c) PROVE TypeOK'
  BY <1>1, TypeAsk DEF BanGuard, ResolveApp, LoadAll
<1>2. ASSUME NEW c \in Callers, AccountCheck(c) PROVE TypeOK'
  <2>1. unguarded' \in BOOLEAN
    BY <1>2 DEF AccountCheck
  <2>2. QED BY <1>2, <2>1 DEF TypeOK, AccountCheck, Caller, Idle, Entry
<1>3. ASSUME NEW c \in Callers, DatabaseReads(c) PROVE TypeOK'
  <2>1. query[c] \in Query /\ stored \in Values \cup {None}
    BY DEF TypeOK
  <2>2. [query[c] EXCEPT !.at = "read", !.val = stored] \in Query
    BY <2>1 DEF Query
  <2>3. query' = [query EXCEPT ![c] = [query[c] EXCEPT !.at = "read", !.val = stored]]
    BY <1>3, <2>1 DEF DatabaseReads, Query, TypeOK
  <2>4. QED BY <1>3, <2>2, <2>3 DEF TypeOK, DatabaseReads
<1>4. ASSUME NEW c \in Callers, Delivers(c) PROVE TypeOK'
  <2>1. query[c].age \in 0 .. Latency
    BY DEF TypeOK, Query
  <2>2. QED BY <1>4, <2>1, TypeDeliver DEF Delivers, DeliverRules, DeliverApp, DeliverSettings
<1>5. ASSUME NEW c \in Callers, QueryFails(c) PROVE TypeOK'
  <2>1. query' \in [Callers -> Query] /\ caller' \in [Callers -> Caller]
    <3>1. PICK next \in {"idle", "blind"} :
             caller' = [d \in Callers |->
                           IF d \in Awaiting(c) THEN [Idle EXCEPT !.pc = next] ELSE caller[d]]
      BY <1>5 DEF QueryFails
    <3>2. [Idle EXCEPT !.pc = next] \in Caller
      BY DEF Idle, Caller
    <3>3. caller' \in [Callers -> Caller]
      BY <3>1, <3>2 DEF TypeOK
    <3>4. NoQuery \in Query
      BY DEF Query, NoQuery
    <3>5. QED BY <1>5, <3>3, <3>4 DEF TypeOK, QueryFails
  <2>2. QED BY <1>5, <2>1 DEF TypeOK, QueryFails, Answer
<1>6. ASSUME NEW v \in Values, Commit(v) PROVE TypeOK'
  <2>1. query' \in [Callers -> Query]
    <3>1. \A c \in Callers : (query[c].at # "none") \in BOOLEAN
      OBVIOUS
    <3>2. \A c \in Callers : [query[c] EXCEPT !.raced = (query[c].at # "none")] \in Query
      BY <3>1 DEF TypeOK, Query
    <3>3. QED BY <1>6, <3>2 DEF Commit
  <2>2. last' \in [Values -> 0 .. TTL + 2 * Latency + 1]
    BY <1>6 DEF TypeOK, Commit
  <2>3. QED BY <1>6, <2>1, <2>2 DEF TypeOK, Commit
<1>7. ASSUME InvalidateRules \/ InvalidateApps \/ InvalidateSettings PROVE TypeOK'
  <2>1. [entry EXCEPT !.age = TTL] \in Entry /\ Empty \in Entry
    BY DEF TypeOK, Entry, Empty
  <2>2. PICK e \in Entry : Invalidated(e)
    BY <1>7, <2>1 DEF InvalidateRules, InvalidateApps, InvalidateSettings
  <2>3. QED BY <2>2 DEF TypeOK, Invalidated
<1>8. CASE EditFails
  <2>1. query' \in [Callers -> Query] /\ entry' \in Entry
    BY <1>8 DEF TypeOK, EditFails, Query, Entry
  <2>2. QED BY <1>8, <2>1 DEF TypeOK, EditFails
<1>9. CASE Restart
  BY <1>9 DEF TypeOK, Restart, Entry, Empty, Query, NoQuery, Caller, Idle
<1>10. CASE Tick
  <2>1. entry' \in Entry
    BY <1>10, OlderInRange DEF TypeOK, Tick, Entry
  <2>2. query' \in [Callers -> Query]
    <3>1. \A c \in Callers : query[c].at # "none" => query[c].age + 1 \in 0 .. Latency
      BY <1>10 DEF TypeOK, Tick, Query
    <3>2. \A c \in Callers : query[c].at # "none" => [query[c] EXCEPT !.age = @ + 1] \in Query
      BY <3>1 DEF TypeOK, Query
    <3>3. QED BY <1>10, <3>2 DEF TypeOK, Tick
  <2>3. caller' \in [Callers -> Caller]
    BY <1>10 DEF TypeOK, Tick, Caller, Behind
  <2>4. last' \in [Values -> 0 .. TTL + 2 * Latency + 1]
    <3>1. TTL + 2 * Latency + 1 \in Nat
      OBVIOUS
    <3>2. \A v \in Values : Older(last[v], TTL + 2 * Latency + 1) \in 0 .. TTL + 2 * Latency + 1
      BY <3>1, OlderInRange DEF TypeOK
    <3>3. QED BY <1>10, <3>1, <3>2 DEF Tick
  <2>5. QED BY <1>10, <2>1, <2>2, <2>3, <2>4 DEF TypeOK, Tick
<1>11. CASE UNCHANGED vars
  BY <1>11 DEF TypeOK, vars
<1>12. QED
  BY <1>1, <1>2, <1>3, <1>4, <1>5, <1>6, <1>7, <1>8, <1>9, <1>10, <1>11 DEF Next

\* The variables of the caches keep their types in every instance.
THEOREM TypeCorrect == Spec => []TypeOK
<1>1. QED BY TypeInit, TypeStep, PTL DEF Spec

-----------------------------------------------------------------------------
LEMMA IInvInit == Init => IInv
<1> SUFFICES ASSUME Init PROVE IInv
  OBVIOUS
<1>1. TypeOK
  BY TypeInit
<1>2. last[stored] = 0 /\ ~Fresh
  BY DEF Init, Fresh, Empty
<1>3. Reading /\ Late
  BY DEF Init, Reading, Late, NoQuery, Idle
<1>4. QED BY <1>1, <1>2, <1>3 DEF IInv, Serving, CurrentUnlessRaced

\* A lookup changes neither the table nor the entry, and passes with a servable one.
LEMMA IInvAsk ==
    ASSUME IInv, NEW c \in Callers, NEW next \in {"idle", "late"}, Ask(c, next),
           next = "late" => service = "ban"
    PROVE  IInv'
<1>1. TypeOK'
  BY TypeAsk DEF IInv
<1>2. UNCHANGED <<service, stored, entry, edit, last>>
  BY DEF Ask
<1>3. Serving' /\ CurrentUnlessRaced' /\ last'[stored'] = 0
  BY <1>2 DEF IInv, Serving, CurrentUnlessRaced, Fresh, Slack
<1>4. Reading'
  <2> SUFFICES ASSUME NEW d \in Callers, query'[d].at = "read"
               PROVE  query'[d] = query[d]
    BY <1>2 DEF IInv, Reading
  <2>1. query \in [Callers -> Query]
    BY DEF IInv, TypeOK
  <2>2. CASE query' = query
    BY <2>2
  <2>3. CASE query' = [query EXCEPT ![c].at = "asked"]
    BY <2>1, <2>3 DEF Query
  <2>4. QED BY <2>2, <2>3 DEF Ask
<1>5. Late'
  <2> SUFFICES ASSUME NEW d \in Callers, caller'[d].pc = "late"
               PROVE  /\ service = "ban"
                      /\ entry.val # None => last[entry.val] <= TTL - 1 + Latency + caller'[d].age
    BY <1>2 DEF Late
  <2>1. CASE caller'[d] = caller[d]
    BY <2>1 DEF IInv, Late
  <2>2. CASE caller'[d] # caller[d]
    <3>1. d = c /\ Fresh /\ next = "late"
      BY <2>2 DEF Ask, IInv, TypeOK, Caller
    <3>2. caller'[d].age \in 0 .. Latency
      BY <1>1 DEF TypeOK, Caller
    <3>3. entry.age \in 0 .. TTL /\ entry.val \in Values
      BY <3>1 DEF IInv, TypeOK, Entry, Fresh
    <3>4. last[entry.val] <= entry.age + Slack /\ last[entry.val] \in Int
      BY <3>1, <3>3 DEF IInv, Serving, TypeOK
    <3>5. Slack <= Latency /\ Slack \in Nat
      BY DEF Slack
    <3>6. QED BY <3>1, <3>2, <3>3, <3>4, <3>5 DEF Fresh
  <2>3. QED BY <2>1, <2>2
<1>6. QED BY <1>1, <1>3, <1>4, <1>5 DEF IInv

LEMMA IInvDeliver ==
    ASSUME IInv, NEW c \in Callers, NEW age \in {0, query[c].age},
           NEW next \in {"idle", "late"}, Deliver(c, age, next),
           next = "late" => service = "ban",
           service = "settings" => age = query[c].age
    PROVE  IInv'
<1>1. query[c].age \in 0 .. Latency /\ query[c].val \in Values /\ last[query[c].val] <= query[c].age
  BY DEF IInv, TypeOK, Query, Reading, Deliver
<1>2. TypeOK'
  BY <1>1, TypeDeliver DEF IInv
<1>3. UNCHANGED <<service, stored, edit, last>> /\ entry' = [val |-> query[c].val, age |-> age, raced |-> query[c].raced]
  BY DEF Deliver
<1>4. last[query[c].val] \in Nat
  BY <1>1 DEF IInv, TypeOK
<1>5. Serving'
  BY <1>1, <1>3, <1>4 DEF Serving, Slack
<1>6. CurrentUnlessRaced'
  BY <1>3 DEF IInv, Reading, CurrentUnlessRaced, Deliver
<1>7. Reading'
  BY <1>3 DEF IInv, TypeOK, Reading, Deliver, NoQuery
<1>8. Late'
  <2> SUFFICES ASSUME NEW d \in Callers, caller'[d].pc = "late"
               PROVE  service = "ban" /\ last[query[c].val] <= TTL - 1 + Latency + caller'[d].age
    BY <1>3 DEF Late
  <2>1. service = "ban"
    BY DEF IInv, TypeOK, Late, Deliver, Idle
  <2>2. caller'[d].age \in 0 .. Latency
    BY <1>2 DEF TypeOK, Caller
  <2>3. QED BY <1>1, <1>4, <2>1, <2>2
<1>9. last'[stored'] = 0
  BY <1>3 DEF IInv
<1>10. QED BY <1>2, <1>5, <1>6, <1>7, <1>8, <1>9 DEF IInv

\* The database reads the stored value, which no edit has raced yet.
LEMMA IInvRead == ASSUME IInv, NEW c \in Callers, DatabaseReads(c) PROVE IInv'
<1>1. TypeOK'
  BY TypeStep DEF IInv, Next
<1>2. UNCHANGED <<service, stored, entry, caller, edit, last>>
  BY DEF DatabaseReads
<1>3. Serving' /\ CurrentUnlessRaced' /\ Late' /\ last'[stored'] = 0
  BY <1>2 DEF IInv, Serving, CurrentUnlessRaced, Fresh, Slack, Late
<1>4. Reading'
  <2> SUFFICES ASSUME NEW d \in Callers, query'[d].at = "read"
               PROVE  /\ query'[d].val \in Values
                      /\ last[query'[d].val] <= query'[d].age
                      /\ ~query'[d].raced => query'[d].val = stored
    BY <1>2 DEF Reading
  <2>1. query \in [Callers -> Query] /\ query'[d].age \in 0 .. Latency
    BY <1>1 DEF IInv, TypeOK, Query
  <2>2. CASE d = c
    <3>1. query'[d].val = stored /\ stored \in Values
      BY <2>1, <2>2 DEF DatabaseReads, Query, IInv, TypeOK
    <3>2. QED BY <2>1, <3>1 DEF IInv
  <2>3. CASE d # c
    <3>1. query'[d] = query[d]
      BY <2>1, <2>3 DEF DatabaseReads
    <3>2. QED BY <3>1 DEF IInv, Reading
  <2>4. QED BY <2>2, <2>3
<1>5. QED BY <1>1, <1>3, <1>4 DEF IInv

\* A failed query and a request that ends leave the table and the entry alone, and
\* make neither a query nor a late request.
LEMMA IInvEnds ==
    ASSUME IInv, NEW c \in Callers, AccountCheck(c) \/ QueryFails(c) PROVE IInv'
<1>1. TypeOK'
  BY TypeStep DEF IInv, Next
<1>2. UNCHANGED <<service, stored, entry, edit, last>>
  BY DEF AccountCheck, QueryFails
<1>3. Serving' /\ CurrentUnlessRaced' /\ last'[stored'] = 0
  BY <1>2 DEF IInv, Serving, CurrentUnlessRaced, Fresh, Slack
<1>4. \A d \in Callers : query'[d] = query[d] \/ query'[d].at = "none"
  BY DEF AccountCheck, QueryFails, NoQuery, IInv, TypeOK
<1>5. Reading'
  BY <1>2, <1>4 DEF IInv, Reading
<1>6. \A d \in Callers : caller'[d] = caller[d] \/ caller'[d].pc \in {"idle", "blind"}
  <2>1. CASE AccountCheck(c)
    BY <2>1 DEF AccountCheck, Idle, IInv, TypeOK
  <2>2. CASE QueryFails(c)
    <3>1. PICK next \in {"idle", "blind"} :
             caller' = [d \in Callers |->
                           IF d \in Awaiting(c) THEN [Idle EXCEPT !.pc = next] ELSE caller[d]]
      BY <2>2 DEF QueryFails
    <3>2. [Idle EXCEPT !.pc = next].pc = next
      BY DEF Idle
    <3>3. QED BY <3>1, <3>2
  <2>3. QED BY <2>1, <2>2
<1>7. Late'
  BY <1>2, <1>6 DEF IInv, Late
<1>8. QED BY <1>1, <1>3, <1>5, <1>7 DEF IInv

\* An edit makes the stored value new and no value older, and races every query.
LEMMA IInvCommit == ASSUME IInv, NEW v \in Values, Commit(v) PROVE IInv'
<1>1. TypeOK'
  BY TypeStep DEF IInv, Next
<1>2. UNCHANGED <<service, entry, caller>> /\ edit' = "committed" /\ stored' = v
  BY DEF Commit
<1>3. /\ last'[v] = 0
      /\ \A w \in Values : last'[w] \in Int /\ last[w] \in Int /\ last'[w] <= last[w]
  BY DEF Commit, IInv, TypeOK
<1>4. Fresh' => entry.val \in Values /\ Fresh
  BY <1>2 DEF Fresh, IInv, TypeOK, Entry
<1>5. entry.age \in Int /\ Slack \in Int /\ Slack' = Slack
  BY <1>2 DEF IInv, TypeOK, Entry, Slack
<1>6. Serving'
  <2> SUFFICES ASSUME Fresh' PROVE last'[entry.val] <= entry.age + Slack
    BY <1>2, <1>5 DEF Serving
  <2>1. last[entry.val] <= entry.age + Slack
    BY <1>4 DEF IInv, Serving
  <2>2. QED BY <1>3, <1>4, <1>5, <2>1
<1>7. CurrentUnlessRaced'
  BY <1>2 DEF CurrentUnlessRaced
<1>8. Reading'
  <2> SUFFICES ASSUME NEW d \in Callers, query'[d].at = "read"
               PROVE  /\ query'[d].val \in Values
                      /\ last'[query'[d].val] <= query'[d].age
                      /\ ~query'[d].raced => query'[d].val = stored'
    BY DEF Reading
  <2>1. query[d] \in Query
    BY DEF IInv, TypeOK
  <2>2. query'[d] = [query[d] EXCEPT !.raced = (query[d].at # "none")]
    BY DEF Commit
  <2>3. /\ query'[d].at = query[d].at /\ query'[d].val = query[d].val
        /\ query'[d].age = query[d].age /\ query'[d].raced = (query[d].at # "none")
    BY <2>1, <2>2 DEF Query
  <2>4. query[d].val \in Values /\ last[query[d].val] <= query[d].age /\ query[d].age \in Int
    BY <2>1, <2>3 DEF IInv, Reading, Query
  <2>5. query'[d].raced
    BY <2>3
  <2>6. QED BY <1>3, <2>3, <2>4, <2>5
<1>9. Late'
  <2> SUFFICES ASSUME NEW d \in Callers, caller[d].pc = "late"
               PROVE  /\ service = "ban"
                      /\ entry.val # None => last'[entry.val] <= TTL - 1 + Latency + caller[d].age
    BY <1>2 DEF Late
  <2>1. caller[d].age \in Int /\ (entry.val # None => entry.val \in Values)
    BY DEF IInv, TypeOK, Caller, Entry
  <2>2. /\ service = "ban"
        /\ entry.val # None => last[entry.val] <= TTL - 1 + Latency + caller[d].age
    BY DEF IInv, Late
  <2>3. QED BY <1>3, <2>1, <2>2
<1>10. QED BY <1>1, <1>2, <1>3, <1>6, <1>7, <1>8, <1>9 DEF IInv

\* What an invalidation leaves is not servable, and no newer than what was there.
LEMMA IInvInvalidate ==
    ASSUME IInv, InvalidateRules \/ InvalidateApps \/ InvalidateSettings PROVE IInv'
<1>1. TypeOK'
  BY TypeStep DEF IInv, Next
<1>2. UNCHANGED <<service, stored, query, caller, last>>
  BY DEF InvalidateRules, InvalidateApps, InvalidateSettings, Invalidated
<1>3. (entry'.val = entry.val \/ entry'.val = None) /\ entry'.age = TTL
  BY DEF InvalidateRules, InvalidateApps, InvalidateSettings, Invalidated, Empty, IInv, TypeOK, Entry
<1>4. ~Fresh'
  BY <1>3 DEF Fresh
<1>5. Late'
  BY <1>2, <1>3 DEF IInv, Late
<1>6. QED BY <1>1, <1>2, <1>4, <1>5 DEF IInv, Serving, CurrentUnlessRaced, Reading

\* An edit that is never followed by an invalidation races the entry and the queries.
LEMMA IInvEditFails == ASSUME IInv, EditFails PROVE IInv'
<1>1. TypeOK'
  BY TypeStep DEF IInv, Next
<1>2. UNCHANGED <<service, stored, caller, last>>
  BY DEF EditFails
<1>3. /\ entry'.val = entry.val /\ entry'.age = entry.age
      /\ entry'.raced = (entry.val # None)
  BY DEF EditFails, IInv, TypeOK, Entry
<1>4. Serving' /\ CurrentUnlessRaced' /\ Late'
  BY <1>2, <1>3 DEF IInv, Serving, CurrentUnlessRaced, Fresh, Slack, Late
<1>5. Reading'
  <2> SUFFICES ASSUME NEW d \in Callers, query'[d].at = "read"
               PROVE  /\ query'[d].val \in Values
                      /\ last[query'[d].val] <= query'[d].age
                      /\ ~query'[d].raced => query'[d].val = stored
    BY <1>2 DEF Reading
  <2>1. query[d] \in Query
    BY DEF IInv, TypeOK
  <2>2. query'[d] = [query[d] EXCEPT !.raced = (query[d].at # "none")]
    BY DEF EditFails
  <2>3. /\ query'[d].at = query[d].at /\ query'[d].val = query[d].val
        /\ query'[d].age = query[d].age /\ query'[d].raced = (query[d].at # "none")
    BY <2>1, <2>2 DEF Query
  <2>4. QED BY <2>3 DEF IInv, Reading
<1>6. QED BY <1>1, <1>2, <1>4, <1>5 DEF IInv

\* A restart leaves nothing to serve.
LEMMA IInvRestart == ASSUME IInv, Restart PROVE IInv'
<1>1. TypeOK'
  BY TypeStep DEF IInv, Next
<1>2. ~Fresh' /\ last'[stored'] = 0
  BY DEF IInv, Restart, Fresh, Empty
<1>3. Reading' /\ Late'
  BY DEF Restart, Reading, Late, NoQuery, Idle
<1>4. QED BY <1>1, <1>2, <1>3 DEF IInv, Serving, CurrentUnlessRaced

\* Everything ages by the same tick, and the stored value by none.
LEMMA IInvTick == ASSUME IInv, Tick PROVE IInv'
<1>1. TypeOK'
  BY TypeStep DEF IInv, Next
<1>2. UNCHANGED <<service, stored, edit>> /\ Slack' = Slack /\ Slack \in 0 .. Latency
  BY DEF Tick, Slack
<1>3. \A w \in Values : last[w] \in Nat /\ last'[w] \in Nat /\ last'[w] <= last[w] + 1
  <2>1. TTL + 2 * Latency + 1 \in Nat
    OBVIOUS
  <2>2. \A w \in Values : /\ last[w] \in 0 .. TTL + 2 * Latency + 1
                          /\ Older(last[w], TTL + 2 * Latency + 1) <= last[w] + 1
    BY <2>1, OlderInRange DEF IInv, TypeOK
  <2>3. \A w \in Values : last'[w] = IF w = stored THEN 0 ELSE Older(last[w], TTL + 2 * Latency + 1)
    BY DEF Tick
  <2>4. \A w \in Values : last'[w] \in 0 .. TTL + 2 * Latency + 1
    BY <1>1 DEF TypeOK
  <2>5. QED BY <2>2, <2>3, <2>4
<1>4. stored \in Values /\ last'[stored'] = 0
  BY <1>2 DEF Tick, IInv, TypeOK
<1>5. /\ entry'.val = entry.val /\ entry'.raced = entry.raced
      /\ entry.age \in 0 .. TTL /\ entry'.age \in 0 .. TTL
      /\ entry'.age < TTL => entry'.age = entry.age + 1
  <2>1. entry.age \in 0 .. TTL
    BY DEF IInv, TypeOK, Entry
  <2>2. entry'.age = Older(entry.age, TTL)
    BY DEF Tick, IInv, TypeOK, Entry
  <2>3. Older(entry.age, TTL) \in 0 .. TTL /\ (Older(entry.age, TTL) < TTL => Older(entry.age, TTL) = entry.age + 1)
    BY <2>1, OlderInRange
  <2>4. entry'.val = entry.val /\ entry'.raced = entry.raced
    BY DEF Tick, IInv, TypeOK, Entry
  <2>5. QED BY <2>1, <2>2, <2>3, <2>4
<1>6. Serving' /\ CurrentUnlessRaced'
  <2>1. Fresh' => Fresh /\ entry'.age = entry.age + 1 /\ entry.val \in Values
    BY <1>5 DEF Fresh, IInv, TypeOK, Entry
  <2>2. CurrentUnlessRaced'
    BY <1>2, <1>5, <2>1 DEF IInv, CurrentUnlessRaced
  <2>3. Serving'
    <3> SUFFICES ASSUME Fresh' PROVE last'[entry.val] <= entry.age + 1 + Slack
      BY <1>2, <1>5, <2>1 DEF Serving
    <3>1. last[entry.val] <= entry.age + Slack
      BY <2>1 DEF IInv, Serving
    <3>2. QED BY <1>2, <1>3, <1>5, <2>1, <3>1
  <2>4. QED BY <2>2, <2>3
<1>7. Reading'
  <2> SUFFICES ASSUME NEW d \in Callers, query'[d].at = "read"
               PROVE  /\ query'[d].val \in Values
                      /\ last'[query'[d].val] <= query'[d].age
                      /\ ~query'[d].raced => query'[d].val = stored
    BY <1>2 DEF Reading
  <2>1. query[d] \in Query
    BY DEF IInv, TypeOK
  <2>2. query'[d] = IF query[d].at = "none" THEN query[d] ELSE [query[d] EXCEPT !.age = @ + 1]
    BY DEF Tick
  <2>3. /\ query[d].at = "read" /\ query'[d].val = query[d].val
        /\ query'[d].age = query[d].age + 1 /\ query'[d].raced = query[d].raced
    BY <2>1, <2>2 DEF Query
  <2>4. query[d].val \in Values /\ last[query[d].val] <= query[d].age /\ query[d].age \in Int
    BY <2>1, <2>3 DEF IInv, Reading, Query
  <2>5. QED BY <1>3, <2>3, <2>4 DEF IInv, Reading
<1>8. Late'
  <2> SUFFICES ASSUME NEW d \in Callers, caller'[d].pc = "late"
               PROVE  /\ service = "ban"
                      /\ entry.val # None => last'[entry.val] <= TTL - 1 + Latency + caller'[d].age
    BY <1>2, <1>5 DEF Late
  <2>1. caller[d] \in Caller
    BY DEF IInv, TypeOK
  <2>2. caller'[d] = IF Behind(d) THEN [caller[d] EXCEPT !.age = @ + 1] ELSE caller[d]
    BY DEF Tick
  <2>3. caller[d].pc = "late" /\ caller'[d].age = caller[d].age + 1 /\ caller[d].age \in Int
    BY <2>1, <2>2 DEF Caller, Behind
  <2>4. entry.val # None => entry.val \in Values
    BY DEF IInv, TypeOK, Entry
  <2>5. /\ service = "ban"
        /\ entry.val # None => last[entry.val] <= TTL - 1 + Latency + caller[d].age
    BY <2>3 DEF IInv, Late
  <2>6. QED BY <1>3, <2>3, <2>4, <2>5
<1>9. QED BY <1>1, <1>4, <1>6, <1>7, <1>8 DEF IInv

LEMMA IInvStep == IInv /\ [Next]_vars => IInv'
<1> SUFFICES ASSUME IInv, [Next]_vars PROVE IInv'
  OBVIOUS
<1>1. ASSUME NEW c \in Callers, BanGuard(c) \/ ResolveApp(c) \/ LoadAll(c) PROVE IInv'
  BY <1>1, IInvAsk DEF BanGuard, ResolveApp, LoadAll
<1>2. ASSUME NEW c \in Callers, Delivers(c) PROVE IInv'
  BY <1>2, IInvDeliver DEF Delivers, DeliverRules, DeliverApp, DeliverSettings
<1>3. CASE UNCHANGED vars
  <2>1. TypeOK'
    BY TypeStep DEF IInv
  <2>2. QED BY <1>3, <2>1 DEF IInv, vars, Reading, Serving, Late, CurrentUnlessRaced, Fresh, Slack
<1>4. QED
  BY <1>1, <1>2, <1>3, IInvRead, IInvEnds, IInvCommit, IInvInvalidate, IInvEditFails,
     IInvRestart, IInvTick DEF Next

\* Every reachable state satisfies the inductive invariant.
THEOREM Invariance == Spec => []IInv
<1>1. QED BY IInvInit, IInvStep, PTL DEF Spec

\* An edit takes effect at once unless a query was under way when it was made.
THEOREM CurrentUnlessRacedHolds == Spec => []CurrentUnlessRaced
<1>1. IInv => CurrentUnlessRaced
  BY DEF IInv
<1>2. QED BY <1>1, Invariance, PTL

-----------------------------------------------------------------------------
\* The limit of each service.
LEMMA LimitOf ==
    /\ service = "ban" => Limit = TTL - 1 + 2 * Latency
    /\ service = "tenant" => Limit = TTL - 1 + Latency
    /\ service = "settings" => Limit = TTL - 1
  BY DEF Limit

LEMMA PromiseInit == Init => Promise!Init
<1> SUFFICES ASSUME Init PROVE Promise!Init
  OBVIOUS
<1>1. service \in {"ban", "tenant", "settings"}
  BY DEF Init
<1>2. Limit \in 0 .. Far - 1
  BY <1>1, LimitOf
<1>3. QED BY <1>2 DEF Init, Promise!Init

\* What a caller is promised is what it got, unless its guard had failed.
LEMMA PromisedAnswer ==
    /\ \A v : Answer(v) => Promised' = v
    /\ UNCHANGED <<answer, unguarded>> => Promised' = Promised
  BY DEF Promised, Answer

\* An answer that is in the table, or was at most Limit ago, is one the promise allows.
LEMMA PromiseAnswers ==
    ASSUME IInv, UNCHANGED <<service, stored, last>>,
           \/ Promised' = Promised \/ Promised' = None
           \/ Promised' \in Values /\ last[Promised'] <= Limit
    PROVE  [Promise!Next]_Promise!vars
<1>1. Limit' = Limit
  BY DEF Limit
<1>2. CASE Promised' = Promised
  BY <1>1, <1>2 DEF Promise!vars, Promised
<1>3. CASE Promised' = None
  BY <1>1, <1>3 DEF Promise!Next, Promise!GiveUp, Promised
<1>4. CASE Promised' \in Values /\ last[Promised'] <= Limit
  <2>1. Promise!Answer(Promised')
    BY <1>1, <1>4 DEF Promise!Answer, Promised
  <2>2. QED BY <1>4, <2>1 DEF Promise!Next
<1>5. QED BY <1>2, <1>3, <1>4

\* Every step is one of the promise's, or changes nothing a reader sees.
LEMMA PromiseStep == IInv /\ [Next]_vars => [Promise!Next]_Promise!vars
<1> SUFFICES ASSUME IInv, [Next]_vars PROVE [Promise!Next]_Promise!vars
  OBVIOUS
<1> DEFINE Kept == UNCHANGED <<service, stored, last>>
           Good(v) == v \in Values /\ last[v] <= Limit
<1>1. service \in {"ban", "tenant", "settings"}
  BY DEF IInv, TypeOK
<1>2. \A v \in Values : last[v] \in Nat
  BY DEF IInv, TypeOK
<1>3. ASSUME NEW c \in Callers, BanGuard(c) \/ ResolveApp(c) \/ LoadAll(c)
      PROVE [Promise!Next]_Promise!vars
  <2>1. Kept /\ (Promised' = Promised \/ (Fresh /\ Promised' = entry.val))
    BY <1>3, PromisedAnswer DEF BanGuard, ResolveApp, LoadAll, Ask
  <2>2. CASE Promised' = Promised
    BY <2>1, <2>2, PromiseAnswers
  <2>3. CASE Fresh /\ Promised' = entry.val
    <3>1. entry.val \in Values /\ entry.age \in 0 .. TTL - 1
      BY <2>3 DEF IInv, TypeOK, Entry, Fresh
    <3>2. last[entry.val] <= entry.age + Slack
      BY <2>3 DEF IInv, Serving
    <3>3. Good(entry.val)
      <4>1. CASE service = "settings"
        BY <1>2, <3>1, <3>2, <4>1, LimitOf DEF Slack
      <4>2. CASE service \in {"ban", "tenant"}
        BY <1>2, <3>1, <3>2, <4>2, LimitOf DEF Slack
      <4>3. QED BY <1>1, <4>1, <4>2
    <3>4. QED BY <2>1, <2>3, <3>3, PromiseAnswers
  <2>4. QED BY <2>1, <2>2, <2>3
<1>4. ASSUME NEW c \in Callers, AccountCheck(c) PROVE [Promise!Next]_Promise!vars
  <2>1. /\ Kept /\ answer' = entry.val /\ unguarded' = (caller[c].pc = "blind")
        /\ caller[c].pc \in {"late", "blind"}
    BY <1>4 DEF AccountCheck, Behind
  <2>2. CASE caller[c].pc = "blind"
    BY <2>1, <2>2, PromiseAnswers DEF Promised
  <2>3. ASSUME caller[c].pc = "late" PROVE entry.val = None \/ Good(entry.val)
    <3>1. caller[c].age \in 0 .. Latency /\ entry.val \in Values \cup {None}
      BY DEF IInv, TypeOK, Caller, Entry
    <3>2. /\ service = "ban"
          /\ entry.val # None => last[entry.val] <= TTL - 1 + Latency + caller[c].age
      BY <2>3 DEF IInv, Late
    <3>3. QED BY <1>2, <3>1, <3>2, LimitOf
  <2>4. CASE caller[c].pc = "late"
    <3>1. Promised' = entry.val
      BY <2>1, <2>4 DEF Promised
    <3>2. QED BY <2>1, <2>3, <2>4, <3>1, PromiseAnswers
  <2>5. QED BY <2>1, <2>2, <2>4
<1>5. ASSUME NEW c \in Callers, Delivers(c) PROVE [Promise!Next]_Promise!vars
  <2>1. Kept /\ Promised' = query[c].val /\ query[c].at = "read"
    BY <1>5, PromisedAnswer DEF Delivers, DeliverRules, DeliverApp, DeliverSettings, Deliver
  <2>2. query[c].val \in Values /\ last[query[c].val] <= query[c].age /\ query[c].age \in 0 .. Latency
    BY <2>1 DEF IInv, Reading, TypeOK, Query
  <2>3. Good(query[c].val)
    BY <1>1, <1>2, <2>2, LimitOf
  <2>4. QED BY <2>1, <2>3, PromiseAnswers
<1>6. ASSUME NEW c \in Callers, DatabaseReads(c) \/ QueryFails(c) PROVE [Promise!Next]_Promise!vars
  <2>1. Kept /\ (Promised' = Promised \/ Promised' = None)
    BY <1>6, PromisedAnswer DEF DatabaseReads, QueryFails
  <2>2. QED BY <2>1, PromiseAnswers
<1>7. ASSUME NEW v \in Values, Commit(v) PROVE [Promise!Next]_Promise!vars
  <2>1. Limit' = Limit
    BY <1>7 DEF Commit, Limit
  <2>2. Promise!Edit(v)
    BY <1>7, <2>1 DEF Commit, Promise!Edit
  <2>3. QED BY <2>2 DEF Promise!Next
<1>8. CASE InvalidateRules \/ InvalidateApps \/ InvalidateSettings \/ EditFails \/ Restart \/ UNCHANGED vars
  <2>1. Kept /\ Promised' = Promised
    BY <1>8, PromisedAnswer DEF InvalidateRules, InvalidateApps, InvalidateSettings, Invalidated, EditFails, Restart, vars
  <2>2. QED BY <2>1, PromiseAnswers
<1>9. CASE Tick
  <2>1. Limit' = Limit
    BY <1>9 DEF Tick, Limit
  <2>2. Promise!Tick
    BY <1>9, <2>1 DEF Tick, Older, Promise!Tick
  <2>3. QED BY <2>2 DEF Promise!Next
<1>10. QED BY <1>3, <1>4, <1>5, <1>6, <1>7, <1>8, <1>9 DEF Next

\* Races or not, and whatever edits and queries of others fail, no caller whose own
\* lookup has succeeded is answered with a value that was replaced longer ago than
\* Limit: the caches implement StaleReads.  Of the account check of a request whose
\* ban guard has failed open nothing is promised.
THEOREM ImplementsStaleReads == Spec => ServesWithinLimit
<1>1. QED
  BY PromiseInit, PromiseStep, Invariance, PTL DEF Spec, ServesWithinLimit, Promise!Spec
=============================================================================
