--------------------------- MODULE Catalog_proofs ---------------------------
(***************************************************************************)
(* The invariants of Catalog and of the load pipeline under it, for every  *)
(* number of servers and configs, every scale and every bound.             *)
(***************************************************************************)
EXTENDS Catalog, FiniteSetTheorems, TLAPS

\* What the proofs need of the constants, but for ScoreOK, which needs Measures.
LEMMA Constants ==
    /\ Top \in Nat /\ Threshold \in Nat /\ Floor \in Nat /\ Stale \in Nat /\ MaxFaults \in Nat
    /\ Streak \in Nat \ {0} /\ Null \notin Nat
    /\ IsFiniteSet(Items) /\ Null \notin Items
    /\ \A i \in Items : ServerOf[i] \in Servers
    /\ Hysteresis \in Nat \ {0} /\ MaxEdits \in Nat
BY LoadMetricsAssumption, CatalogAssumption

USE Constants

-----------------------------------------------------------------------------
\* Rows that are not there say nothing; the ranking keeps its place only while it
\* writes, and polls are under way only while the pass polls.
Tidy ==
    /\ \A i \in Items : Exists(i) \/ (~item[i].star /\ item[i].name = 0 /\ i \notin todo)
    /\ phase # "write" => winner = Null /\ todo = {}
    /\ phase # "poll" => \A s \in Servers : poll[s] = "idle"

\* A name that has been found is still free when the item is inserted, but for the
\* items to which an admin has given it since.
Named ==
    /\ \A i, j \in Items :
          (i # j /\ Exists(i) /\ Exists(j) /\ item[i].name = item[j].name) => i \in twin \/ j \in twin
    /\ \A i, j \in Items : (naming[i] # 0 /\ naming[j] # 0) => i = j
    /\ \A i, j \in Items :
          (i # j /\ naming[i] # 0 /\ Exists(j) /\ item[j].name = naming[i]) => j \in twin

NameInv == ~overlapped => Named

\* While stars are written, every active row that is not due is as the winner says.
StarInv ==
    ~disturbed =>
        IF phase = "write" THEN \A i \in Active \ todo : item[i].star <=> i = winner
        ELSE \A i, j \in Items : (item[i].star /\ item[j].star) => i = j

\* What w, if it is not Null, must be like to have the star.
Serves(w) ==
    IF Cardinality(Active) < 2 \/ Eligible = {} THEN w = Null
    ELSE w \in Eligible /\ \A j \in Eligible : LoadOf(w) < LoadOf(j) + Hysteresis

ServeInv ==
    calm => /\ phase = "write" => ~disturbed /\ Serves(winner)
            /\ phase = "idle" => \E w \in Items \cup {Null} : Serves(w) /\ Starred = {w} \ {Null}

AlarmInv ==
    \A s \in Servers :
        /\ hot[s] = Streak => s \in alarm
        /\ s \in alarm => load[s] # Null
        /\ poll[s] = "write" => ema[s] # Null
        /\ poll[s] = "alert" => ema[s] # Null /\ load[s] = ema[s]
        /\ (s \in alarm \ cut /\ poll[s] # "alert") => load[s] >= Floor

-----------------------------------------------------------------------------
(* The arithmetic of the scores *)

\* A set of natural numbers has a least one.
LEMMA Least ==
    ASSUME NEW S \in SUBSET Nat, S # {}
    PROVE  \E m \in S : \A o \in S : m <= o
<1>1. PICK m \in S : \A o \in S : <<o, m>> \notin OpToRel(<, Nat)
  BY NatLessThanWellFounded, WFMin
<1>2. ASSUME NEW o \in S PROVE m <= o
  <2>1. m \in Nat /\ o \in Nat
    OBVIOUS
  <2>2. ~(o < m)
    BY <1>1, <2>1 DEF OpToRel
  <2>3. QED BY <2>1, <2>2
<1>3. QED BY <1>2

LEMMA MinOK ==
    ASSUME NEW S \in SUBSET Nat, S # {}
    PROVE  Min(S) \in S /\ \A o \in S : Min(S) <= o
BY Least DEF Min

\* computeLoadScore stays on the scale.
LEMMA ScoreOK ==
    ASSUME NEW s \in Servers, NEW m \in Measures[s]
    PROVE  Score(m) \in Scores
<1> DEFINE S == {0} \cup ({m.bandwidth, m.cpu, m.ips} \ {Null})
<1>1. m.bandwidth \in Nat \cup {Null} /\ m.cpu \in Nat \cup {Null} /\ m.ips \in Nat \cup {Null}
  BY LoadMetricsAssumption
<1>2. \E x \in S : \A y \in S : x >= y
  <2> DEFINE b == IF m.bandwidth = Null THEN 0 ELSE m.bandwidth
             c == IF m.cpu = Null THEN 0 ELSE m.cpu
             d == IF m.ips = Null THEN 0 ELSE m.ips
  <2>1. b \in Nat /\ c \in Nat /\ d \in Nat
    BY <1>1
  <2>2. S = {0, b, c, d}
    BY <1>1
  <2> HIDE DEF S, b, c, d
  <2>3. \E x \in {0, b, c, d} : \A y \in {0, b, c, d} : x >= y
    BY <2>1
  <2>4. QED BY <2>2, <2>3
<1>3. S \subseteq Nat
  BY <1>1
<1> HIDE DEF S
<1>4. Max(S) \in Nat
  BY <1>2, <1>3 DEF Max
<1>5. {Top} \cup {Max(S)} \in SUBSET Nat /\ {Top} \cup {Max(S)} # {}
  BY <1>4
<1>6. Min({Top} \cup {Max(S)}) \in Nat /\ Min({Top} \cup {Max(S)}) <= Top
  BY <1>5, MinOK
<1>7. Score(m) = Min({Top} \cup {Max(S)})
  BY DEF Score, S
<1>8. QED BY <1>6, <1>7 DEF Scores

\* emaNext stays on the scale.
LEMMA EmaOK ==
    ASSUME NEW prev \in Scores \cup {Null}, NEW raw \in Scores
    PROVE  EmaNext(prev, raw) \in Scores
<1>1. CASE prev = Null
  BY <1>1 DEF EmaNext
<1>2. CASE prev # Null
  <2>1. prev \in 0 .. Top /\ raw \in 0 .. Top /\ Top \in Nat
    BY <1>2 DEF Scores
  <2>2. (4 * raw + 6 * prev + 5) \div 10 \in 0 .. Top
    BY <2>1
  <2>3. QED BY <1>2, <2>2 DEF EmaNext, Scores
<1>3. QED BY <1>1, <1>2

\* The challenger is the lightest of the configs that may have the star.
LEMMA Lightest ==
    ASSUME TypeOK, Eligible # {}
    PROVE  /\ \A i \in Eligible : LoadOf(i) \in Nat
           /\ Challenger \in Eligible
           /\ \A j \in Eligible : LoadOf(Challenger) <= LoadOf(j)
<1>1. ASSUME NEW i \in Eligible PROVE i \in Items /\ LoadOf(i) \in Nat /\ Order[i] \in Nat
  <2>1. i \in Items /\ load[ServerOf[i]] \in Scores
    BY DEF Eligible, Active, IsLoadFresh, TypeOK, LoadTypeOK
  <2>2. Order \in [Items -> 1 .. Cardinality(Items)]
    BY CatalogAssumption DEF Bijection, Injection
  <2>3. QED BY <2>1, <2>2, CatalogAssumption DEF LoadOf, Scores
<1>2. PICK i \in Eligible : \A j \in Eligible : LoadOf(i) <= LoadOf(j)
  <2> DEFINE S == {LoadOf(j) : j \in Eligible}
  <2>1. S \in SUBSET Nat /\ S # {}
    BY <1>1
  <2>2. PICK m \in S : \A o \in S : m <= o
    BY <2>1, Least
  <2>3. QED BY <2>2
<1>3. PICK k \in Eligible : /\ LoadOf(k) = LoadOf(i)
                            /\ \A j \in Eligible : LoadOf(j) = LoadOf(i) => Order[k] <= Order[j]
  <2> DEFINE S == {Order[j] : j \in {j \in Eligible : LoadOf(j) = LoadOf(i)}}
  <2>1. S \in SUBSET Nat /\ S # {}
    BY <1>1
  <2>2. PICK m \in S : \A o \in S : m <= o
    BY <2>1, Least
  <2>3. QED BY <2>2
<1>4. \A j \in Eligible : Lighter(k, j)
  <2> SUFFICES ASSUME NEW j \in Eligible PROVE Lighter(k, j)
    OBVIOUS
  <2>1. LoadOf(i) <= LoadOf(j) /\ LoadOf(i) \in Nat /\ LoadOf(j) \in Nat
    BY <1>1, <1>2
  <2>2. CASE LoadOf(i) = LoadOf(j)
    BY <1>3, <2>2 DEF Lighter
  <2>3. CASE LoadOf(i) # LoadOf(j)
    BY <1>3, <2>1, <2>3 DEF Lighter
  <2>4. QED BY <2>2, <2>3
<1>5. Challenger \in Eligible /\ \A j \in Eligible : Lighter(Challenger, j)
  BY <1>4 DEF Challenger
<1>6. QED BY <1>1, <1>5 DEF Lighter

\* As long as one item is missing there is a name left: fewer are used than exist.
LEMMA FreeName ==
    ASSUME TypeOK, Tidy, NEW i \in Items, ~Exists(i)
    PROVE  UniqueDisplayName \in Names /\ UniqueDisplayName \notin Used
<1> DEFINE others == Items \ {i}
           f == [j \in others |-> item[j].name]
           T == {item[j].name : j \in others}
           free == {n \in Names : n \notin Used}
<1>1. /\ Cardinality(Items) \in Nat /\ Cardinality(others) = Cardinality(Items) - 1
      /\ IsFiniteSet(others)
  BY FS_RemoveElement, FS_CardinalityType
<1>2. IsFiniteSet(T) /\ Cardinality(T) <= Cardinality(others)
  <2>1. f \in Surjection(others, T)
    BY DEF Surjection
  <2> HIDE DEF f, T, others
  <2>2. QED BY <1>1, <2>1, FS_Surjection
<1>3. Used \subseteq T \cup {0}
  BY DEF Used, Tidy
<1>4. Names \subseteq Nat /\ 0 \notin Names /\ Cardinality(Names) = Cardinality(Items)
  <2>1. Names \subseteq Nat /\ 0 \notin Names
    BY <1>1 DEF Names
  <2>2. Cardinality(1 .. Cardinality(Items)) = Cardinality(Items)
    BY <1>1, FS_Interval
  <2>3. QED BY <2>1, <2>2 DEF Names
<1>5. free # {}
  <2> SUFFICES ASSUME free = {} PROVE FALSE
    OBVIOUS
  <2>1. Names \in SUBSET T
    BY <1>3, <1>4
  <2> HIDE DEF T, others
  <2>2. Cardinality(Names) <= Cardinality(T)
    BY <1>2, <2>1, FS_Subset
  <2>3. Cardinality(T) \in Nat
    BY <1>2, FS_CardinalityType
  <2>4. QED BY <1>1, <1>2, <1>4, <2>2, <2>3
<1>6. free \in SUBSET Nat
  BY <1>4
<1> HIDE DEF free
<1>7. Min(free) \in free
  BY <1>5, <1>6, MinOK
<1>8. QED BY <1>7 DEF UniqueDisplayName, free

-----------------------------------------------------------------------------
(* Types *)

LEMMA AgeOK ==
    ASSUME NEW a \in 0 .. Stale + 1
    PROVE  Min({a + 1, Stale + 1}) \in 0 .. Stale + 1
<1>1. {a + 1, Stale + 1} \in SUBSET Nat /\ {a + 1, Stale + 1} # {}
  OBVIOUS
<1>2. Min({a + 1, Stale + 1}) \in {a + 1, Stale + 1} /\ Min({a + 1, Stale + 1}) <= Stale + 1
  BY <1>1, MinOK
<1>3. QED BY <1>2

LEMMA StreakOK ==
    ASSUME NEW h \in 0 .. Streak
    PROVE  Min({h + 1, Streak}) \in 0 .. Streak /\ (Min({h + 1, Streak}) = Streak => h + 1 >= Streak)
<1>1. {h + 1, Streak} \in SUBSET Nat /\ {h + 1, Streak} # {}
  OBVIOUS
<1>2. /\ Min({h + 1, Streak}) \in {h + 1, Streak} /\ Min({h + 1, Streak}) <= Streak
      /\ Min({h + 1, Streak}) <= h + 1
  BY <1>1, MinOK
<1>3. QED BY <1>2

LEMMA InitRows ==
    ASSUME Init, NEW i \in Items
    PROVE  /\ ~item[i].star /\ item[i] \in Item
           /\ \/ item[i].status = "active" /\ item[i].name = Order[i]
              \/ item[i].status = "none" /\ item[i].name = 0
<1>1. PICK created \in SUBSET Items :
          item = [j \in Items |-> IF j \in created
                                  THEN [NoItem EXCEPT !.status = "active", !.name = Order[j]]
                                  ELSE NoItem]
  BY DEF Init
<1>2. Order[i] \in Names
  BY CatalogAssumption DEF Bijection, Injection, Names
<1>3. item[i] = IF i \in created THEN [NoItem EXCEPT !.status = "active", !.name = Order[i]] ELSE NoItem
  BY <1>1
<1>4. CASE i \in created
  <2> DEFINE q == [NoItem EXCEPT !.status = "active", !.name = Order[i]]
  <2>1. q \in Item /\ q.status = "active" /\ ~q.star /\ q.name = Order[i]
    BY <1>2 DEF Item, NoItem
  <2>2. item[i] = q
    BY <1>3, <1>4
  <2> HIDE DEF q
  <2>3. QED BY <2>1, <2>2
<1>5. CASE i \notin created
  BY <1>3, <1>5 DEF Item, NoItem
<1>6. QED BY <1>4, <1>5

LEMMA TypeInit == Init => TypeOK
<1> SUFFICES ASSUME Init PROVE TypeOK
  OBVIOUS
<1>1. LoadTypeOK
  <2>0. LoadInit
    BY DEF Init
  <2>1. /\ load \in [Servers -> Scores \cup {Null}] /\ ema \in [Servers -> Scores \cup {Null}]
        /\ age \in [Servers -> 0 .. Stale + 1] /\ hot \in [Servers -> 0 .. Streak]
        /\ poll \in [Servers -> {"idle", "ssh", "write", "alert"}]
    BY <2>0 DEF LoadInit
  <2>2. alarm \subseteq Servers /\ cut \subseteq Servers /\ phase = "idle" /\ faults = 0
    BY <2>0 DEF LoadInit
  <2>3. QED BY <2>1, <2>2 DEF LoadTypeOK
<1>4. item \in [Items -> Item]
  <2>1. item = [i \in Items |-> item[i]]
    BY DEF Init
  <2>2. QED BY <2>1, InitRows
<1>5. naming \in [Items -> Names \cup {0}] /\ todo \subseteq Items /\ edits \in 0 .. MaxEdits
  <2>1. naming = [i \in Items |-> 0] /\ todo = {} /\ edits = 0
    BY DEF Init
  <2>2. QED BY <2>1
<1>6. winner \in Items \cup {Null} /\ {calm, disturbed, overlapped} \subseteq BOOLEAN /\ twin \subseteq Items
  <2>1. winner = Null /\ calm = FALSE /\ disturbed = FALSE /\ overlapped = FALSE /\ twin = {}
    BY DEF Init
  <2>2. QED BY <2>1
<1>7. QED BY <1>1, <1>4, <1>5, <1>6 DEF TypeOK

LEMMA LoadTypeNext ==
    ASSUME LoadTypeOK, Polling
    PROVE  LoadTypeOK'
<1>1. CASE BeginPass
  <2>1. \A s \in Servers : Min({age[s] + 1, Stale + 1}) \in 0 .. Stale + 1
    BY AgeOK DEF LoadTypeOK
  <2>2. QED BY <1>1, <2>1 DEF BeginPass, LoadTypeOK
<1>2. ASSUME NEW s \in Servers, Measure(s) PROVE LoadTypeOK'
  <2>1. PICK m \in Measures[s] :
          LET prev == IF ema[s] # Null THEN ema[s] ELSE load[s]
          IN  ema' = [ema EXCEPT ![s] = EmaNext(prev, Score(m))]
    BY <1>2 DEF Measure
  <2> DEFINE prev == IF ema[s] # Null THEN ema[s] ELSE load[s]
             next == EmaNext(prev, Score(m))
  <2>2. prev \in Scores \cup {Null}
    BY DEF LoadTypeOK
  <2> HIDE DEF prev
  <2>3. next \in Scores
    BY <2>2, ScoreOK, EmaOK
  <2>4. ema' = [ema EXCEPT ![s] = next]
    BY <2>1 DEF prev
  <2> HIDE DEF next
  <2>5. QED BY <1>2, <2>3, <2>4 DEF Measure, LoadTypeOK
<1>3. ASSUME NEW s \in Servers, StoreLoad(s) PROVE LoadTypeOK'
  BY <1>3 DEF StoreLoad, LoadTypeOK
<1>4. ASSUME NEW s \in Servers, CheckLoadAlerts(s) PROVE LoadTypeOK'
  <2>1. Min({hot[s] + 1, Streak}) \in 0 .. Streak
    BY StreakOK DEF LoadTypeOK
  <2>2. QED BY <1>4, <2>1 DEF CheckLoadAlerts, Compared, LoadTypeOK
<1>5. ASSUME NEW s \in Servers, SshFails(s) PROVE LoadTypeOK'
  BY <1>5 DEF SshFails, LoadTypeOK
<1>a. ASSUME NEW s \in Servers, PollFails(s) PROVE LoadTypeOK'
  <2>1. alarm' \subseteq Servers
    BY <1>a DEF PollFails, Compared, LoadTypeOK
  <2>2. QED BY <1>a, <2>1 DEF PollFails, Fault, Alerting, LoadTypeOK
<1>6. QED BY <1>1, <1>2, <1>3, <1>4, <1>5, <1>a DEF Polling, PollStep

\* The writes of the actions leave rows of the type.
LEMMA ItemOK ==
    /\ NoItem \in Item /\ NoItem.status = "none" /\ ~NoItem.star /\ NoItem.name = 0
    /\ \A r \in Item, b \in BOOLEAN :
          LET q == [r EXCEPT !.star = b]
          IN  q \in Item /\ q.status = r.status /\ (q.star <=> b) /\ (q.ok <=> r.ok) /\ q.name = r.name
    /\ \A r \in Item :
          LET q == [r EXCEPT !.ok = ~@]
          IN  q \in Item /\ q.status = r.status /\ (q.star <=> r.star) /\ q.name = r.name
<1>1. NoItem \in Item /\ NoItem.status = "none" /\ ~NoItem.star /\ NoItem.name = 0
  BY DEF Item, NoItem
<1>2. ASSUME NEW r \in Item, NEW b \in BOOLEAN
      PROVE  LET q == [r EXCEPT !.star = b]
             IN  q \in Item /\ q.status = r.status /\ (q.star <=> b) /\ (q.ok <=> r.ok) /\ q.name = r.name
  BY DEF Item
<1>3. ASSUME NEW r \in Item
      PROVE  LET q == [r EXCEPT !.ok = ~@]
             IN  q \in Item /\ q.status = r.status /\ (q.star <=> r.star) /\ q.name = r.name
  BY DEF Item
<1>4. QED BY <1>1, <1>2, <1>3

\* pickRecommended returns a config that serves, or nothing where nothing does.
LEMMA PickOK ==
    ASSUME TypeOK, NEW w \in PickRecommended
    PROVE  Serves(w) /\ w \in Items \cup {Null}
<1>1. CASE Cardinality(Active) < 2 \/ Eligible = {}
  BY <1>1 DEF PickRecommended, Serves
<1>2. CASE ~(Cardinality(Active) < 2 \/ Eligible = {})
  <2>1. /\ \A i \in Eligible : LoadOf(i) \in Nat
        /\ Challenger \in Eligible
        /\ \A j \in Eligible : LoadOf(Challenger) <= LoadOf(j)
    BY <1>2, Lightest
  <2>2. w \in Keepers \cup {Challenger}
    BY <1>2 DEF PickRecommended
  <2>3. w \in Eligible /\ LoadOf(w) < LoadOf(Challenger) + Hysteresis
    <3>1. CASE w \in Keepers
      BY <2>1, <3>1 DEF Keepers
    <3>2. CASE w = Challenger
      BY <2>1, <3>2
    <3>3. QED BY <2>2, <3>1, <3>2
  <2>4. \A j \in Eligible : LoadOf(w) < LoadOf(j) + Hysteresis
    BY <2>1, <2>3
  <2>5. w \in Items
    BY <2>3 DEF Eligible, Active
  <2>6. QED BY <1>2, <2>3, <2>4, <2>5 DEF Serves
<1>3. QED BY <1>1, <1>2

-----------------------------------------------------------------------------
(* What each step does to the rows *)

LEMMA WriteStarOK ==
    ASSUME TypeOK, NEW i \in Items, WriteStar(i)
    PROVE  /\ item' \in [Items -> Item]
           /\ \A j \in Items : /\ item'[j].status = item[j].status /\ item'[j].name = item[j].name
                               /\ item'[j].ok <=> item[j].ok
                               /\ j # i => item'[j] = item[j]
           /\ item'[i].star <=> i = winner
<1> DEFINE b == i = winner
           q == [item[i] EXCEPT !.star = b]
<1>1. item[i] \in Item /\ item \in [Items -> Item] /\ b \in BOOLEAN /\ (b <=> i = winner)
  BY DEF TypeOK
<1>3. item' = [item EXCEPT ![i] = q]
  BY DEF WriteStar
<1> HIDE DEF b
<1>2. /\ q \in Item /\ q.status = item[i].status /\ (q.star <=> b)
      /\ (q.ok <=> item[i].ok) /\ q.name = item[i].name
  BY <1>1 DEF Item
<1> HIDE DEF q
<1>4. QED BY <1>1, <1>2, <1>3

LEMMA ClearInactiveOK ==
    ASSUME TypeOK, ClearInactive
    PROVE  /\ item' \in [Items -> Item]
           /\ \A j \in Items : /\ item'[j].status = item[j].status /\ item'[j].name = item[j].name
                               /\ item'[j].ok <=> item[j].ok
                               /\ item'[j].star <=> (j \in Active /\ item[j].star)
<1>1. item' = [i \in Items |-> IF i \in Active THEN item[i] ELSE [item[i] EXCEPT !.star = FALSE]]
  BY DEF ClearInactive
<1>2. ASSUME NEW j \in Items
      PROVE  /\ item'[j] \in Item
             /\ item'[j].status = item[j].status /\ item'[j].name = item[j].name
             /\ item'[j].ok <=> item[j].ok
             /\ item'[j].star <=> (j \in Active /\ item[j].star)
  <2>1. item[j] \in Item
    BY DEF TypeOK
  <2>2. CASE j \in Active
    BY <1>1, <2>1, <2>2
  <2>3. CASE j \notin Active
    <3> DEFINE q == [item[j] EXCEPT !.star = FALSE]
    <3>1. /\ q \in Item /\ q.status = item[j].status /\ (q.star <=> FALSE)
          /\ (q.ok <=> item[j].ok) /\ q.name = item[j].name
      BY <2>1, ItemOK
    <3>2. item'[j] = q
      BY <1>1, <2>3
    <3> HIDE DEF q
    <3>3. QED BY <2>3, <3>1, <3>2
  <2>4. QED BY <2>2, <2>3
<1>3. QED BY <1>1, <1>2

\* What an edit may make of row j: nothing that counts here, a row with another
\* status or name, a new row under the name that was found for it, or none.
Same(j) ==
    item'[j].status = item[j].status /\ (item'[j].star <=> item[j].star) /\ item'[j].name = item[j].name

Restatused(j) ==
    /\ item'[j].status \in {"draft", "active"} /\ (item'[j].star <=> item[j].star)
    /\ item'[j].status = "active" => item[j].status = "active" \/ phase # "write" \/ disturbed'

Created(j) ==
    /\ item'[j].status \in {"draft", "active"} /\ ~item'[j].star
    /\ item'[j].status = "active" => phase # "write" \/ disturbed'

Deleted(j) ==
    item'[j].status = "none" /\ ~item'[j].star /\ item'[j].name = 0 /\ j \notin todo'

Editing == (\E i \in Items : EditItem(i)) \/ \E s \in Servers : Publish(s)

LEMMA EditRest ==
    ASSUME TypeOK, Editing
    PROVE  /\ ~calm' /\ {calm', disturbed'} \subseteq BOOLEAN /\ (disturbed => disturbed')
           /\ edits' \in 0 .. MaxEdits /\ UNCHANGED <<loadVars, winner>> /\ todo' \subseteq todo
<1>1. /\ edits \in 0 .. MaxEdits /\ {disturbed} \subseteq BOOLEAN
  BY DEF TypeOK
<1>2. ASSUME NEW act, Edit(act)
      PROVE  /\ ~calm' /\ {calm', disturbed'} \subseteq BOOLEAN /\ (disturbed => disturbed')
             /\ edits' \in 0 .. MaxEdits /\ UNCHANGED <<loadVars, winner>>
  <2>1. edits' \in 0 .. MaxEdits
    BY <1>1, <1>2 DEF Edit
  <2>2. QED BY <1>2, <2>1 DEF Edit
<1>3. ASSUME NEW i \in Items, NameItem(i) \/ AssignItem(i) \/ DeleteItem(i) \/ TestItem(i)
      PROVE  (\E act : Edit(act)) /\ todo' \subseteq todo
  <2>1. CASE AssignItem(i)
    BY ZenonT(30), <2>1 DEF AssignItem
  <2>2. CASE NameItem(i) \/ DeleteItem(i) \/ TestItem(i)
    BY <2>2 DEF NameItem, DeleteItem, TestItem
  <2>3. QED BY <1>3, <2>1, <2>2
<1>4. ASSUME NEW i \in Items, CreateItem(i)
      PROVE  /\ ~calm' /\ {calm', disturbed'} \subseteq BOOLEAN /\ (disturbed => disturbed')
             /\ edits' = edits /\ UNCHANGED <<loadVars, winner, todo>>
  BY <1>4 DEF CreateItem
<1>5. ASSUME NEW s \in Servers, Publish(s)
      PROVE  (\E act : Edit(act)) /\ todo' \subseteq todo
  BY <1>5 DEF Publish
<1>6. QED BY <1>1, <1>2, <1>3, <1>4, <1>5 DEF Editing, EditItem

\* The rows that a creation and an assignment leave.
LEMMA CreateOK ==
    ASSUME TypeOK, NEW i \in Items, CreateItem(i)
    PROVE  \E status \in {"draft", "active"}, q \in Item :
              /\ item' = [item EXCEPT ![i] = q]
              /\ disturbed' = (disturbed \/ (phase = "write" /\ status = "active"))
              /\ \/ q.status = status /\ ~q.star
                 \/ q.status = "active" /\ (q.star <=> item[i].star) /\ status = "active"
                 \/ q = item[i]
              /\ ~Exists(i) => q.name = naming[i]
              /\ Exists(i) => q.name = item[i].name /\ q.status # "none"
<1> DEFINE new(status) == [NoItem EXCEPT !.status = status, !.name = naming[i]]
           next(status) == IF ~Exists(i) THEN new(status)
                           ELSE IF status = "active" THEN [item[i] EXCEPT !.status = "active"]
                           ELSE item[i]
<1>1. PICK status \in {"draft", "active"} :
          /\ item' = [item EXCEPT ![i] = next(status)]
          /\ disturbed' = (disturbed \/ (phase = "write" /\ status = "active"))
  BY DEF CreateItem
<1>2. item[i] \in Item /\ naming[i] \in Names
  BY DEF TypeOK, CreateItem
<1>3. /\ new(status) \in Item /\ new(status).status = status /\ ~new(status).star
      /\ new(status).name = naming[i]
  BY <1>2 DEF Item, NoItem
<1>4. LET on == [item[i] EXCEPT !.status = "active"]
      IN  on \in Item /\ on.status = "active" /\ (on.star <=> item[i].star) /\ on.name = item[i].name
  BY <1>2 DEF Item
<1> DEFINE q == next(status)
<1>5. /\ q \in Item
      /\ \/ q.status = status /\ ~q.star
         \/ q.status = "active" /\ (q.star <=> item[i].star) /\ status = "active"
         \/ q = item[i]
      /\ ~Exists(i) => q.name = naming[i]
      /\ Exists(i) => q.name = item[i].name /\ q.status # "none"
  <2>1. CASE ~Exists(i)
    BY <1>3, <2>1
  <2>2. CASE Exists(i) /\ status = "active"
    BY <1>4, <2>2
  <2>3. CASE Exists(i) /\ status # "active"
    BY <1>2, <2>3 DEF Exists
  <2>4. QED BY <2>1, <2>2, <2>3
<1>6. item' = [item EXCEPT ![i] = q]
  BY <1>1
<1> HIDE DEF q
<1>7. QED BY <1>1, <1>5, <1>6

LEMMA AssignOK ==
    ASSUME TypeOK, NEW i \in Items, AssignItem(i)
    PROVE  \E status \in {"draft", "active"}, q \in Item :
              /\ Edit(IF status = "active" /\ item[i].status # "active" THEN {i} ELSE {})
              /\ item' = [item EXCEPT ![i] = q] /\ q.status = status /\ (q.star <=> item[i].star)
              /\ q.name \in Names
              /\ twin' = IF q.name = item[i].name THEN twin
                         ELSE IF Taken(i, q.name) THEN twin \cup {i} ELSE twin \ {i}
<1>1. PICK status \in {"draft", "active"}, name \in Names :
          /\ Edit(IF status = "active" /\ item[i].status # "active" THEN {i} ELSE {})
          /\ item' = [item EXCEPT ![i].status = status, ![i].name = name]
          /\ twin' = IF name = item[i].name THEN twin
                     ELSE IF Taken(i, name) THEN twin \cup {i} ELSE twin \ {i}
  BY ZenonT(30) DEF AssignItem
<1> DEFINE q == [item[i] EXCEPT !.status = status, !.name = name]
<1>2. item[i] \in Item /\ item \in [Items -> Item]
  BY DEF TypeOK
<1>3. q \in Item /\ q.status = status /\ (q.star <=> item[i].star) /\ q.name = name
  BY <1>2 DEF Item
<1>4. item' = [item EXCEPT ![i] = q]
  BY <1>1, <1>2
<1> HIDE DEF q
<1>5. QED BY <1>1, <1>3, <1>4

LEMMA EditRows ==
    ASSUME TypeOK, Editing
    PROVE  /\ item' \in [Items -> Item]
           /\ \A j \in Items : Same(j) \/ Restatused(j) \/ Created(j) \/ Deleted(j)
           /\ \A j \in todo \ todo' : Deleted(j)
<1>0. /\ item \in [Items -> Item] /\ \A j \in Items : item[j] \in Item
      /\ naming \in [Items -> Names \cup {0}]
  BY DEF TypeOK
<1>1. ASSUME NEW i \in Items, NEW q \in Item, item' = [item EXCEPT ![i] = q]
      PROVE  item' \in [Items -> Item] /\ item'[i] = q /\ \A j \in Items : j # i => Same(j)
  BY <1>0, <1>1 DEF Same
<1>2. ASSUME NEW i \in Items, NameItem(i)
      PROVE  item' \in [Items -> Item] /\ \A j \in Items : Same(j)
  BY <1>0, <1>2 DEF NameItem, Same
<1>3. ASSUME NEW i \in Items, CreateItem(i)
      PROVE  /\ item' \in [Items -> Item] /\ (Same(i) \/ Restatused(i) \/ Created(i))
             /\ \A j \in Items : j # i => Same(j)
  <2>1. PICK status \in {"draft", "active"}, q \in Item :
              /\ item' = [item EXCEPT ![i] = q]
              /\ disturbed' = (disturbed \/ (phase = "write" /\ status = "active"))
              /\ \/ q.status = status /\ ~q.star
                 \/ q.status = "active" /\ (q.star <=> item[i].star) /\ status = "active"
                 \/ q = item[i]
    BY <1>3, CreateOK
  <2>2. item' \in [Items -> Item] /\ item'[i] = q /\ \A j \in Items : j # i => Same(j)
    BY <1>1, <2>1
  <2>3. disturbed' \in BOOLEAN
    BY <2>1 DEF TypeOK
  <2>4. QED BY <2>1, <2>2, <2>3 DEF Created, Same, Restatused
<1>4. ASSUME NEW i \in Items, AssignItem(i)
      PROVE  item' \in [Items -> Item] /\ Restatused(i) /\ \A j \in Items : j # i => Same(j)
  <2>1. PICK status \in {"draft", "active"}, q \in Item :
              /\ Edit(IF status = "active" /\ item[i].status # "active" THEN {i} ELSE {})
              /\ item' = [item EXCEPT ![i] = q] /\ q.status = status /\ (q.star <=> item[i].star)
    BY <1>4, AssignOK
  <2>2. item' \in [Items -> Item] /\ item'[i] = q /\ \A j \in Items : j # i => Same(j)
    BY <1>1, <2>1
  <2>3. status = "active" => item[i].status = "active" \/ phase # "write" \/ disturbed'
    BY <2>1 DEF Edit
  <2>4. QED BY <2>1, <2>2, <2>3 DEF Restatused
<1>5. ASSUME NEW i \in Items, DeleteItem(i)
      PROVE  item' \in [Items -> Item] /\ Deleted(i) /\ \A j \in Items : j # i => Same(j)
  <2>1. item' = [item EXCEPT ![i] = NoItem] /\ i \notin todo'
    BY <1>5 DEF DeleteItem
  <2>2. item' \in [Items -> Item] /\ item'[i] = NoItem /\ \A j \in Items : j # i => Same(j)
    BY <1>1, <2>1, ItemOK
  <2>3. QED BY <2>1, <2>2 DEF Deleted, NoItem
<1>6. ASSUME NEW i \in Items, TestItem(i)
      PROVE  item' \in [Items -> Item] /\ \A j \in Items : Same(j)
  <2> DEFINE q == [item[i] EXCEPT !.ok = ~@]
  <2>1. q \in Item /\ q.status = item[i].status /\ (q.star <=> item[i].star) /\ q.name = item[i].name
    BY <1>0, ItemOK
  <2>2. item' = [item EXCEPT ![i] = q]
    BY <1>6 DEF TestItem
  <2> HIDE DEF q
  <2>3. item' \in [Items -> Item] /\ item'[i] = q /\ \A j \in Items : j # i => Same(j)
    BY <1>1, <2>1, <2>2
  <2>4. QED BY <2>1, <2>3 DEF Same
<1>7. ASSUME NEW s \in Servers, Publish(s)
      PROVE  item' \in [Items -> Item] /\ \A j \in Items : Same(j) \/ Restatused(j)
  <2> DEFINE drafts == {i \in Items : item[i].status = "draft" /\ ServerOf[i] = s}
  <2>1. /\ drafts # {} /\ Edit(drafts)
        /\ item' = [i \in Items |-> IF i \in drafts THEN [item[i] EXCEPT !.status = "active"] ELSE item[i]]
    BY <1>7 DEF Publish
  <2>2. phase # "write" \/ disturbed'
    BY <2>1 DEF Edit
  <2>3. ASSUME NEW j \in Items PROVE item'[j] \in Item /\ (Same(j) \/ Restatused(j))
    <3>1. CASE j \notin drafts
      BY <1>0, <2>1, <3>1 DEF Same
    <3>2. CASE j \in drafts
      <4> DEFINE q == [item[j] EXCEPT !.status = "active"]
      <4>1. q \in Item /\ q.status = "active" /\ (q.star <=> item[j].star) /\ q.name = item[j].name
        BY <1>0 DEF Item
      <4>2. item'[j] = q /\ Exists(j)
        BY <2>1, <3>2 DEF Exists
      <4> HIDE DEF q
      <4>3. QED BY <2>2, <4>1, <4>2 DEF Restatused
    <3>3. QED BY <3>1, <3>2
  <2> HIDE DEF drafts
  <2>4. QED BY <2>1, <2>3
<1>8. /\ item' \in [Items -> Item]
      /\ \A j \in Items : Same(j) \/ Restatused(j) \/ Created(j) \/ Deleted(j)
  BY <1>2, <1>3, <1>4, <1>5, <1>6, <1>7 DEF Editing, EditItem
<1>9. ASSUME NEW j \in todo \ todo' PROVE Deleted(j)
  <2>1. PICK i \in Items : DeleteItem(i)
    BY <1>9 DEF Editing, EditItem, NameItem, CreateItem, AssignItem, TestItem, Publish
  <2>2. todo' = todo \ {i}
    BY <2>1 DEF DeleteItem
  <2>3. QED BY <1>5, <1>9, <2>1, <2>2
<1>10. QED BY <1>8, <1>9

-----------------------------------------------------------------------------
(* Types, and what hangs together *)

LEMMA NamingOK ==
    ASSUME TypeOK, Tidy, Editing
    PROVE  naming' \in [Items -> Names \cup {0}] /\ overlapped' \in BOOLEAN /\ twin' \subseteq Items
<1>0. naming \in [Items -> Names \cup {0}] /\ overlapped \in BOOLEAN /\ twin \subseteq Items
  BY DEF TypeOK
<1>1. ASSUME NEW i \in Items, NameItem(i)
      PROVE  naming' \in [Items -> Names \cup {0}] /\ overlapped' \in BOOLEAN /\ twin' = twin
  <2>1. /\ naming' = [naming EXCEPT ![i] = UniqueDisplayName] /\ UniqueDisplayName \in Names
        /\ overlapped' = (overlapped \/ \E j \in Items \ {i} : naming[j] # 0) /\ twin' = twin
    BY <1>1, FreeName DEF NameItem
  <2>2. QED BY <1>0, <2>1
<1>2. ASSUME NEW i \in Items, CreateItem(i)
      PROVE  naming' \in [Items -> Names \cup {0}] /\ UNCHANGED <<overlapped, twin>>
  BY <1>0, <1>2 DEF CreateItem
<1>3. ASSUME NEW i \in Items, AssignItem(i)
      PROVE  UNCHANGED <<naming, overlapped>> /\ twin' \subseteq Items
  <2>1. UNCHANGED <<naming, overlapped>>
    BY <1>3 DEF AssignItem
  <2>2. PICK q \in Item : twin' = IF q.name = item[i].name THEN twin
                                  ELSE IF Taken(i, q.name) THEN twin \cup {i} ELSE twin \ {i}
    BY <1>3, AssignOK
  <2>3. QED BY <1>0, <2>1, <2>2
<1>4. ASSUME NEW i \in Items, DeleteItem(i) \/ TestItem(i)
      PROVE  UNCHANGED <<naming, overlapped>> /\ twin' \subseteq Items
  BY <1>0, <1>4 DEF DeleteItem, TestItem
<1>5. ASSUME NEW s \in Servers, Publish(s)
      PROVE  UNCHANGED <<naming, overlapped, twin>>
  BY <1>5 DEF Publish
<1>6. QED BY <1>0, <1>1, <1>2, <1>3, <1>4, <1>5 DEF Editing, EditItem

LEMMA TypeNext ==
    ASSUME TypeOK, Tidy, [Next]_vars
    PROVE  TypeOK'
<1>0. /\ LoadTypeOK /\ item \in [Items -> Item] /\ naming \in [Items -> Names \cup {0}]
      /\ winner \in Items \cup {Null} /\ todo \subseteq Items /\ edits \in 0 .. MaxEdits
      /\ {calm, disturbed, overlapped} \subseteq BOOLEAN /\ twin \subseteq Items
  BY DEF TypeOK
<1>1. CASE Polling /\ UNCHANGED catalogVars
  BY <1>1, LoadTypeNext DEF TypeOK, catalogVars
<1>2. CASE Rank
  <2>1. LoadTypeOK'
    BY <1>0, <1>2 DEF Rank, LoadTypeOK
  <2>2. winner' \in Items \cup {Null}
    BY <1>2, PickOK DEF Rank
  <2>3. UNCHANGED <<item, naming, edits, overlapped, twin>> /\ todo' \subseteq Items
    BY <1>2 DEF Rank, Active
  <2>4. {calm', disturbed', overlapped'} \subseteq BOOLEAN
    BY <1>0, <1>2 DEF Rank
  <2>5. QED BY <1>0, <2>1, <2>2, <2>3, <2>4 DEF TypeOK
<1>3. ASSUME NEW i \in Items, WriteStar(i) PROVE TypeOK'
  <2>1. item' \in [Items -> Item]
    BY <1>3, WriteStarOK
  <2>2. LoadTypeOK'
    BY <1>0, <1>3 DEF WriteStar, loadVars, LoadTypeOK
  <2>3. UNCHANGED <<naming, winner, edits, calm, disturbed, overlapped, twin>> /\ todo' \subseteq Items
    BY <1>0, <1>3 DEF WriteStar
  <2>4. QED BY <1>0, <2>1, <2>2, <2>3 DEF TypeOK
<1>4. CASE ClearInactive
  <2>1. item' \in [Items -> Item]
    BY <1>4, ClearInactiveOK
  <2>2. LoadTypeOK'
    BY <1>0, <1>4 DEF ClearInactive, LoadTypeOK
  <2>3. UNCHANGED <<naming, todo, edits, calm, disturbed, overlapped, twin>> /\ winner' = Null
    BY <1>4 DEF ClearInactive
  <2>4. QED BY <1>0, <2>1, <2>2, <2>3 DEF TypeOK
<1>5. CASE RankFails \/ Crash
  <2>1. LoadTypeOK'
    BY <1>0, <1>5 DEF RankFails, Crash, LoadCrash, Fault, Alerting, LoadTypeOK
  <2>2. UNCHANGED <<item, edits, overlapped, twin>> /\ todo' = {} /\ winner' = Null
    BY <1>5 DEF RankFails, Crash
  <2>3. naming' \in [Items -> Names \cup {0}]
    BY <1>0, <1>5 DEF RankFails, Crash
  <2>4. {calm', disturbed'} \subseteq BOOLEAN
    BY <1>0, <1>5 DEF RankFails, Crash
  <2>5. QED BY <1>0, <2>1, <2>2, <2>3, <2>4 DEF TypeOK
<1>6. CASE Editing
  <2>1. item' \in [Items -> Item]
    BY <1>6, EditRows
  <2>2. naming' \in [Items -> Names \cup {0}] /\ overlapped' \in BOOLEAN /\ twin' \subseteq Items
    BY <1>6, NamingOK
  <2>3. /\ {calm', disturbed'} \subseteq BOOLEAN /\ edits' \in 0 .. MaxEdits
        /\ UNCHANGED <<loadVars, winner>> /\ todo' \subseteq todo
    BY <1>6, EditRest
  <2>4. LoadTypeOK'
    BY <1>0, <2>3 DEF loadVars, LoadTypeOK
  <2>5. QED BY <1>0, <2>1, <2>2, <2>3, <2>4 DEF TypeOK
<1>7. CASE UNCHANGED vars
  BY <1>0, <1>7 DEF TypeOK, LoadTypeOK, vars, loadVars, catalogVars
<1>8. QED BY <1>1, <1>2, <1>3, <1>4, <1>5, <1>6, <1>7 DEF Next, Editing

\* What the rows, the names and the ranking say of each other after a step.
LEMMA TidyInit == Init => Tidy
<1> SUFFICES ASSUME Init PROVE Tidy
  OBVIOUS
<1>1. /\ naming = [i \in Items |-> 0] /\ winner = Null /\ todo = {} /\ LoadInit
  BY DEF Init
<1>2. \A i \in Items : Exists(i) \/ (~item[i].star /\ item[i].name = 0)
  BY InitRows DEF Exists
<1>3. QED BY <1>1, <1>2 DEF Tidy, LoadInit

LEMMA TidyNext ==
    ASSUME TypeOK, Tidy, [Next]_vars
    PROVE  Tidy'
<1>0. /\ \A i \in Items : Exists(i) \/ (~item[i].star /\ item[i].name = 0 /\ i \notin todo)
      /\ phase # "write" => winner = Null /\ todo = {}
      /\ phase # "poll" => \A s \in Servers : poll[s] = "idle"
  BY DEF Tidy
<1>a. ASSUME UNCHANGED <<item, naming>>, todo' \subseteq todo PROVE
             \A i \in Items : Exists(i)' \/ (~item'[i].star /\ item'[i].name = 0 /\ i \notin todo')
  BY <1>0, <1>a DEF Exists
<1>1. CASE Polling /\ UNCHANGED catalogVars
  <2>1. UNCHANGED <<item, naming, winner, todo>>
    BY <1>1 DEF catalogVars
  <2>2. CASE BeginPass
    BY <1>0, <1>a, <2>1, <2>2 DEF BeginPass, Tidy
  <2>3. ASSUME NEW s \in Servers, PollStep(s) \/ SshFails(s) \/ PollFails(s) PROVE Tidy'
    <3>1. poll[s] # "idle" /\ phase' = phase
      BY <2>3 DEF PollStep, Measure, StoreLoad, CheckLoadAlerts, SshFails, PollFails
    <3>2. QED BY <1>0, <1>a, <2>1, <3>1 DEF Tidy
  <2>4. QED BY <1>1, <2>2, <2>3 DEF Polling
<1>2. CASE Rank
  <2>1. phase' = "write" /\ UNCHANGED <<item, naming, poll>> /\ Polled /\ todo' \subseteq Active
    BY <1>2 DEF Rank
  <2>2. \A i \in Items : Exists(i)' \/ (~item'[i].star /\ item'[i].name = 0 /\ i \notin todo')
    BY <1>0, <2>1 DEF Exists, Active
  <2>3. QED BY <1>0, <2>1, <2>2 DEF Tidy, Polled, Exists
<1>3. ASSUME NEW i \in Items, WriteStar(i) PROVE Tidy'
  <2>1. /\ phase = "write" /\ i \in todo /\ todo' = todo \ {i}
        /\ UNCHANGED <<phase, poll, naming, winner>>
    BY <1>3 DEF WriteStar, loadVars
  <2>2. \A j \in Items : Exists(j)' <=> Exists(j)
    BY <1>3, WriteStarOK DEF Exists
  <2>3. \A j \in Items : Exists(j)' \/ (~item'[j].star /\ item'[j].name = 0 /\ j \notin todo')
    BY <1>0, <1>3, <2>1, <2>2, WriteStarOK
  <2>4. QED BY <1>0, <2>1, <2>2, <2>3 DEF Tidy
<1>4. CASE ClearInactive
  <2>1. phase = "write" /\ todo = {} /\ phase' = "idle" /\ winner' = Null /\ UNCHANGED <<naming, todo, poll>>
    BY <1>4 DEF ClearInactive
  <2>2. \A j \in Items : Exists(j)' <=> Exists(j)
    BY <1>4, ClearInactiveOK DEF Exists
  <2>3. \A j \in Items : Exists(j)' \/ (~item'[j].star /\ item'[j].name = 0 /\ j \notin todo')
    BY <1>0, <1>4, <2>1, <2>2, ClearInactiveOK
  <2>4. QED BY <1>0, <2>1, <2>2, <2>3 DEF Tidy
<1>5. CASE RankFails
  BY <1>0, <1>a, <1>5 DEF RankFails, Polled, Tidy
<1>6. CASE Crash
  <2>1. /\ item' = item /\ todo' = {} /\ winner' = Null /\ \A i \in Items : naming'[i] = 0
        /\ \A s \in Servers : poll'[s] = "idle"
    BY <1>6 DEF Crash, LoadCrash
  <2>2. QED BY <1>0, <2>1 DEF Tidy, Exists
<1>7. CASE Editing
  <2>1. UNCHANGED <<poll, phase, winner>> /\ todo' \subseteq todo
    BY <1>7, EditRest DEF loadVars
  <2>2. ASSUME NEW j \in Items
        PROVE  Exists(j)' \/ (~item'[j].star /\ item'[j].name = 0 /\ j \notin todo')
    <3>1. Same(j) \/ Restatused(j) \/ Created(j) \/ Deleted(j)
      BY <1>7, EditRows
    <3>2. QED BY <1>0, <2>1, <3>1 DEF Exists, Same, Restatused, Created, Deleted
  <2>3. QED BY <1>0, <2>1, <2>2 DEF Tidy
<1>8. CASE UNCHANGED vars
  BY <1>0, <1>a, <1>8 DEF vars, loadVars, catalogVars, Tidy
<1>9. QED BY <1>1, <1>2, <1>3, <1>4, <1>5, <1>6, <1>7, <1>8 DEF Next, Editing

-----------------------------------------------------------------------------
(* Names *)

LEMMA NameInit == Init => NameInv
<1> SUFFICES ASSUME Init PROVE Named
  BY DEF NameInv
<1>1. \A i \in Items : naming[i] = 0
  BY DEF Init
<1>2. ASSUME NEW i \in Items, NEW j \in Items, i # j, Exists(i), Exists(j)
      PROVE  item[i].name # item[j].name
  <2>1. item[i].name = Order[i] /\ item[j].name = Order[j]
    BY <1>2, InitRows DEF Exists
  <2>2. Order[i] # Order[j]
    BY <1>2, CatalogAssumption DEF Bijection, Injection, IsInjective
  <2>3. QED BY <2>1, <2>2
<1>3. QED BY <1>1, <1>2 DEF Named

LEMMA NameEdit ==
    ASSUME TypeOK, Tidy, NameInv, Editing
    PROVE  NameInv'
<1>0. /\ item \in [Items -> Item] /\ naming \in [Items -> Names \cup {0}] /\ twin \subseteq Items
      /\ 0 \notin Names
  BY DEF TypeOK, Names
<1>1. ASSUME ~overlapped, NameInv
      PROVE  /\ \A i, j \in Items : (i # j /\ Exists(i) /\ Exists(j) /\ item[i].name = item[j].name)
                                        => i \in twin \/ j \in twin
             /\ \A i, j \in Items : (naming[i] # 0 /\ naming[j] # 0) => i = j
             /\ \A i, j \in Items : (i # j /\ naming[i] # 0 /\ Exists(j) /\ item[j].name = naming[i])
                                        => j \in twin
  BY <1>1 DEF NameInv, Named
<1>2. ASSUME NEW i \in Items, NameItem(i) PROVE NameInv'
  <2> SUFFICES ASSUME ~overlapped' PROVE Named'
    BY DEF NameInv
  <2>1. /\ naming' = [naming EXCEPT ![i] = UniqueDisplayName] /\ UniqueDisplayName \notin Used
        /\ overlapped' = (overlapped \/ \E j \in Items \ {i} : naming[j] # 0)
        /\ UNCHANGED <<item, twin>>
    BY <1>2, FreeName DEF NameItem
  <2>2. ~overlapped /\ \A j \in Items : j # i => naming'[j] = 0
    BY <1>0, <2>1
  <2>3. \A j \in Items : item[j].name # naming'[i]
    BY <1>0, <2>1 DEF Used
  <2>4. QED BY <1>1, <2>1, <2>2, <2>3 DEF Named, Exists
<1>3. ASSUME NEW i \in Items, CreateItem(i) PROVE NameInv'
  <2> SUFFICES ASSUME ~overlapped' PROVE Named'
    BY DEF NameInv
  <2>1. naming' = [naming EXCEPT ![i] = 0] /\ UNCHANGED <<overlapped, twin>> /\ naming[i] # 0
    BY <1>3 DEF CreateItem
  <2>2. PICK q \in Item : /\ item' = [item EXCEPT ![i] = q]
                          /\ ~Exists(i) => q.name = naming[i]
                          /\ Exists(i) => q.name = item[i].name
    BY <1>3, CreateOK
  <2>3. /\ \A j \in Items : naming'[j] = 0
        /\ \A j \in Items : j # i => item'[j] = item[j]
        /\ item'[i].name = q.name
    BY <1>0, <1>1, <2>1, <2>2
  <2>4. ASSUME NEW j \in Items, j # i, Exists(j), item[j].name = q.name
        PROVE  i \in twin \/ j \in twin
    BY <1>1, <2>1, <2>2, <2>4
  <2>5. QED BY <1>1, <2>1, <2>3, <2>4 DEF Named, Exists
<1>4. ASSUME NEW i \in Items, AssignItem(i) PROVE NameInv'
  <2> SUFFICES ASSUME ~overlapped' PROVE Named'
    BY DEF NameInv
  <2>1. UNCHANGED <<naming, overlapped>>
    BY <1>4 DEF AssignItem
  <2>2. PICK q \in Item :
              /\ item' = [item EXCEPT ![i] = q] /\ q.name \in Names
              /\ twin' = IF q.name = item[i].name THEN twin
                         ELSE IF Taken(i, q.name) THEN twin \cup {i} ELSE twin \ {i}
    BY <1>4, AssignOK
  <2>3. /\ \A j \in Items : j # i => item'[j] = item[j] /\ (j \in twin' <=> j \in twin)
        /\ item'[i].name = q.name
    BY <1>0, <2>2
  <2>4. ASSUME NEW j \in Items, j # i, Exists(j), item[j].name = q.name
        PROVE  i \in twin' \/ j \in twin'
    <3>1. CASE q.name = item[i].name
      <4>1. Exists(i)
        BY <1>0, <2>2, <3>1 DEF Tidy
      <4>2. QED BY <1>1, <2>1, <2>2, <2>4, <3>1, <4>1
    <3>2. CASE q.name # item[i].name
      <4>1. Taken(i, q.name)
        BY <2>4 DEF Taken
      <4>2. QED BY <2>2, <3>2, <4>1
    <3>3. QED BY <3>1, <3>2
  <2>5. ASSUME NEW j \in Items, j # i, naming[j] # 0, q.name = naming[j]
        PROVE  i \in twin'
    <3>1. CASE q.name = item[i].name
      <4>1. Exists(i)
        BY <1>0, <2>2, <3>1 DEF Tidy
      <4>2. i \in twin
        BY <1>1, <2>1, <2>5, <3>1, <4>1
      <4>3. QED BY <2>2, <3>1, <4>2
    <3>2. CASE q.name # item[i].name
      <4>1. Taken(i, q.name)
        BY <2>5 DEF Taken
      <4>2. QED BY <2>2, <3>2, <4>1
    <3>3. QED BY <3>1, <3>2
  <2>6. QED BY <1>1, <2>1, <2>3, <2>4, <2>5 DEF Named, Exists
<1>5. ASSUME NEW i \in Items, DeleteItem(i) PROVE NameInv'
  <2>1. /\ item' = [item EXCEPT ![i] = NoItem] /\ twin' = twin \ {i}
        /\ UNCHANGED <<naming, overlapped>>
    BY <1>5 DEF DeleteItem
  <2>2. \A j \in Items : Exists(j)' => j # i /\ Exists(j) /\ item'[j] = item[j]
    BY <1>0, <2>1 DEF Exists, NoItem
  <2>3. QED BY <1>1, <2>1, <2>2 DEF NameInv, Named
<1>6. ASSUME NEW i \in Items, TestItem(i) PROVE NameInv'
  <2>1. UNCHANGED <<naming, overlapped, twin>>
    BY <1>6 DEF TestItem
  <2>2. \A j \in Items : item'[j].name = item[j].name /\ item'[j].status = item[j].status
    BY <1>0, <1>6 DEF TestItem, Item
  <2>3. QED BY <1>1, <2>1, <2>2 DEF NameInv, Named, Exists
<1>7. ASSUME NEW s \in Servers, Publish(s) PROVE NameInv'
  <2>1. UNCHANGED <<naming, overlapped, twin>>
    BY <1>7 DEF Publish
  <2>2. \A j \in Items : item'[j].name = item[j].name /\ (Exists(j)' <=> Exists(j))
    BY <1>0, <1>7 DEF Publish, Item, Exists
  <2>3. QED BY <1>1, <2>1, <2>2 DEF NameInv, Named
<1>8. QED BY <1>2, <1>3, <1>4, <1>5, <1>6, <1>7 DEF Editing, EditItem

LEMMA NameNext ==
    ASSUME TypeOK, Tidy, NameInv, [Next]_vars
    PROVE  NameInv'
<1>1. ASSUME UNCHANGED <<overlapped, twin>>, \A i \in Items : naming'[i] \in {0, naming[i]},
             \A i \in Items : item'[i].name = item[i].name /\ (Exists(i)' <=> Exists(i))
      PROVE  NameInv'
  BY <1>1 DEF NameInv, Named
<1>2. CASE Polling /\ UNCHANGED catalogVars
  BY <1>1, <1>2 DEF catalogVars, Exists
<1>3. CASE Rank \/ RankFails \/ Crash
  BY <1>1, <1>3 DEF Rank, RankFails, Crash, Exists
<1>4. ASSUME NEW i \in Items, WriteStar(i) PROVE NameInv'
  <2>1. UNCHANGED <<overlapped, naming, twin>>
    BY <1>4 DEF WriteStar
  <2>2. QED BY <1>1, <1>4, <2>1, WriteStarOK DEF Exists
<1>5. CASE ClearInactive
  <2>1. UNCHANGED <<overlapped, naming, twin>>
    BY <1>5 DEF ClearInactive
  <2>2. QED BY <1>1, <1>5, <2>1, ClearInactiveOK DEF Exists
<1>6. CASE Editing
  BY <1>6, NameEdit
<1>7. CASE UNCHANGED vars
  BY <1>1, <1>7 DEF vars, catalogVars, Exists
<1>8. QED BY <1>2, <1>3, <1>4, <1>5, <1>6, <1>7 DEF Next, Editing

-----------------------------------------------------------------------------
(* Stars *)

LEMMA StarNext ==
    ASSUME TypeOK, Tidy, StarInv, [Next]_vars
    PROVE  StarInv'
<1>0. \A i \in Items : i \in Active <=> item[i].status = "active"
  BY DEF Active
<1>00. \A i \in Items : i \in Active' <=> item'[i].status = "active"
  BY DEF Active
<1>1. CASE Polling /\ UNCHANGED catalogVars
  <2>1. phase # "write" /\ phase' # "write"
    BY <1>1 DEF Polling, BeginPass, PollStep, Measure, StoreLoad, CheckLoadAlerts, SshFails, PollFails, Tidy
  <2>2. QED BY <1>1, <2>1 DEF StarInv, catalogVars
<1>2. CASE Rank
  <2>1. /\ phase' = "write" /\ item' = item
        /\ \A i \in Active : i \in todo' <=> item[i].star # (i = winner')
    BY <1>2 DEF Rank
  <2>2. \A i \in Active' \ todo' : item'[i].star <=> i = winner'
    <3> SUFFICES ASSUME NEW i \in Active' \ todo' PROVE item'[i].star <=> i = winner'
      OBVIOUS
    <3>1. i \in Items /\ i \in Active /\ item[i] \in Item
      BY <2>1 DEF Active, TypeOK
    <3>2. item[i].star = (i = winner')
      BY <2>1, <3>1
    <3>3. QED BY <2>1, <3>2
  <2>3. QED BY <2>1, <2>2 DEF StarInv
<1>3. ASSUME NEW i \in Items, WriteStar(i) PROVE StarInv'
  <2>1. phase = "write" /\ phase' = "write" /\ winner' = winner /\ disturbed' = disturbed /\ todo' = todo \ {i}
    BY <1>3 DEF WriteStar, loadVars
  <2>2. /\ \A j \in Items : item'[j].status = item[j].status
        /\ \A j \in Items : j # i => item'[j] = item[j]
        /\ item'[i].star <=> i = winner
    BY <1>3, WriteStarOK
  <2>3. \A j \in Active' \ todo' : j \in Items /\ j \in Active /\ (j = i \/ j \notin todo)
    BY <2>1, <2>2 DEF Active
  <2>4. QED BY <2>1, <2>2, <2>3 DEF StarInv
<1>4. CASE ClearInactive
  <2>1. phase = "write" /\ todo = {} /\ phase' = "idle" /\ disturbed' = disturbed
    BY <1>4 DEF ClearInactive
  <2>2. \A j \in Items : item'[j].star <=> (j \in Active /\ item[j].star)
    BY <1>4, ClearInactiveOK
  <2>3. QED BY <2>1, <2>2 DEF StarInv
<1>5. CASE RankFails \/ Crash
  <2>1. /\ phase' = "idle" /\ item' = item /\ disturbed' = (disturbed \/ phase = "write")
    BY <1>5 DEF RankFails, Crash, LoadCrash
  <2>2. QED BY <2>1 DEF StarInv
<1>6. CASE Editing
  <2>1. phase' = phase /\ winner' = winner /\ (disturbed => disturbed')
    BY <1>6, EditRest DEF loadVars
  <2>2. /\ \A j \in Items : Same(j) \/ Restatused(j) \/ Created(j) \/ Deleted(j)
        /\ \A j \in todo \ todo' : Deleted(j)
    BY <1>6, EditRows
  <2>3. \A j \in Items : item'[j].star => item[j].star
    BY <2>2 DEF Same, Restatused, Created, Deleted
  <2>4. ASSUME NEW j \in Items, phase = "write", ~disturbed', item'[j].status = "active", j \notin todo'
        PROVE  item[j].status = "active" /\ j \notin todo /\ (item'[j].star <=> item[j].star)
    BY <2>2, <2>4 DEF Same, Restatused, Created, Deleted
  <2>5. CASE phase = "write"
    <3>1. ASSUME NEW j \in Active' \ todo', ~disturbed' PROVE item'[j].star <=> j = winner'
      <4>1. j \in Items /\ item'[j].status = "active" /\ j \notin todo'
        BY <3>1 DEF Active
      <4>2. j \in Active \ todo /\ (item'[j].star <=> item[j].star)
        BY <1>0, <2>4, <2>5, <3>1, <4>1
      <4>3. QED BY <2>1, <2>5, <3>1, <4>2 DEF StarInv
    <3>2. QED BY <2>1, <2>5, <3>1 DEF StarInv
  <2>6. CASE phase # "write"
    BY <2>1, <2>3, <2>6 DEF StarInv
  <2>7. QED BY <2>5, <2>6
<1>7. CASE UNCHANGED vars
  BY <1>7 DEF vars, loadVars, catalogVars, StarInv, Active
<1>8. QED BY <1>1, <1>2, <1>3, <1>4, <1>5, <1>6, <1>7 DEF Next, Editing

LEMMA StarTold == TypeOK /\ Tidy /\ StarInv => OneStar
<1> SUFFICES ASSUME TypeOK, Tidy, StarInv, phase = "idle", ~disturbed
             PROVE  Cardinality(Starred) <= 1
  BY DEF OneStar
<1>1. \A i, j \in Starred : i = j
  BY DEF StarInv, Starred
<1>2. CASE Starred = {}
  BY <1>2, FS_EmptySet
<1>3. CASE Starred # {}
  <2>1. PICK i \in Starred : TRUE
    BY <1>3
  <2>2. Starred = {i}
    BY <1>1
  <2>3. Cardinality({i}) = 1
    BY FS_Singleton
  <2>4. QED BY <2>2, <2>3
<1>4. QED BY <1>2, <1>3

\* Whether a config serves depends on the loads, the states and the tests.
LEMMA ServesSame ==
    ASSUME UNCHANGED <<load, age>>,
           \A j \in Items : item'[j].status = item[j].status /\ (item'[j].ok <=> item[j].ok),
           NEW w, Serves(w)
    PROVE  Serves(w)'
<1>1. Active' = Active
  BY DEF Active
<1>2. Eligible' = Eligible
  BY <1>1 DEF Eligible, IsLoadFresh, Active
<1>3. \A j : LoadOf(j)' = LoadOf(j)
  BY DEF LoadOf
<1>4. QED BY <1>1, <1>2, <1>3 DEF Serves

LEMMA ServeNext ==
    ASSUME TypeOK, Tidy, StarInv, ServeInv, [Next]_vars
    PROVE  ServeInv'
<1>1. CASE Polling /\ UNCHANGED catalogVars
  <2>1. phase' = "poll"
    BY <1>1 DEF Polling, BeginPass, PollStep, Measure, StoreLoad, CheckLoadAlerts, SshFails, PollFails, Tidy
  <2>2. QED BY <2>1 DEF ServeInv
<1>2. CASE Rank
  <2>1. phase' = "write" /\ UNCHANGED <<load, age, item>> /\ ~disturbed' /\ winner' \in PickRecommended
    BY <1>2 DEF Rank
  <2>2. Serves(winner')
    BY <2>1, PickOK
  <2>3. Active' = Active /\ Eligible' = Eligible /\ \A j : LoadOf(j)' = LoadOf(j)
    BY <2>1 DEF Active, Eligible, LoadOf, IsLoadFresh
  <2>4. Serves(winner)'
    BY <2>2, <2>3 DEF Serves
  <2>5. QED BY <2>1, <2>4 DEF ServeInv
<1>3. ASSUME NEW i \in Items, WriteStar(i) PROVE ServeInv'
  <2>1. phase = "write" /\ UNCHANGED <<phase, load, age, winner, calm, disturbed>>
    BY <1>3 DEF WriteStar, loadVars
  <2>2. Serves(winner) => Serves(winner)'
    <3> DEFINE w == winner
    <3>1. \A j \in Items : item'[j].status = item[j].status /\ (item'[j].ok <=> item[j].ok)
      BY <1>3, WriteStarOK
    <3>2. Active' = Active
      BY <3>1 DEF Active
    <3>3. Eligible' = Eligible /\ \A j : LoadOf(j)' = LoadOf(j)
      BY <2>1, <3>1, <3>2 DEF Eligible, IsLoadFresh, Active, LoadOf
    <3>4. QED BY <2>1, <3>2, <3>3 DEF Serves
  <2>3. QED BY <2>1, <2>2 DEF ServeInv
<1>4. CASE ClearInactive
  <2> SUFFICES ASSUME calm' PROVE \E w \in Items \cup {Null} : Serves(w)' /\ Starred' = {w} \ {Null}
    BY <1>4 DEF ServeInv, ClearInactive
  <2>1. phase = "write" /\ todo = {} /\ UNCHANGED <<load, age>> /\ calm
    BY <1>4 DEF ClearInactive
  <2>2. ~disturbed /\ Serves(winner)
    BY <2>1 DEF ServeInv
  <2>3. \A j \in Items : /\ item'[j].status = item[j].status /\ (item'[j].ok <=> item[j].ok)
                         /\ item'[j].star <=> (j \in Active /\ item[j].star)
    BY <1>4, ClearInactiveOK
  <2>4. \A j \in Active : item[j].star <=> j = winner
    BY <2>1, <2>2 DEF StarInv
  <2>5. winner = Null \/ winner \in Active
    BY <2>2 DEF Serves, Eligible
  <2>6. winner \in Items \cup {Null}
    BY DEF TypeOK
  <2>7. Starred' = {winner} \ {Null}
    <3>1. ASSUME NEW j \in Items PROVE item'[j].star <=> (j = winner /\ j # Null)
      BY <2>3, <2>4, <2>5
    <3>2. QED BY <2>6, <3>1 DEF Starred
  <2> DEFINE w == winner
  <2>8. w \in Items \cup {Null} /\ Serves(w) /\ Starred' = {w} \ {Null}
    BY <2>2, <2>6, <2>7
  <2> HIDE DEF w
  <2>9. PICK u \in Items \cup {Null} : Serves(u) /\ Starred' = {u} \ {Null}
    BY <2>8
  <2>10. Serves(u)'
    BY <2>1, <2>3, <2>9, ServesSame
  <2>11. QED BY <2>9, <2>10
<1>5. CASE RankFails \/ Crash
  BY <1>5 DEF RankFails, Crash, ServeInv
<1>6. CASE Editing
  <2>1. ~calm'
    BY <1>6, EditRest
  <2>2. QED BY <2>1 DEF ServeInv
<1>7. CASE UNCHANGED vars
  <2>1. UNCHANGED <<load, age, item, phase, winner, calm, disturbed>>
    BY <1>7 DEF vars, loadVars, catalogVars
  <2>2. Active' = Active /\ Eligible' = Eligible /\ Starred' = Starred /\ \A j : LoadOf(j)' = LoadOf(j)
    BY <2>1 DEF Active, Eligible, LoadOf, IsLoadFresh, Starred
  <2>3. \A w : Serves(w) => Serves(w)'
    BY <2>2 DEF Serves
  <2>4. Serves(winner) => Serves(winner)'
    BY <2>1, <2>2 DEF Serves
  <2>5. QED BY <2>1, <2>2, <2>3, <2>4 DEF ServeInv
<1>8. QED BY <1>1, <1>2, <1>3, <1>4, <1>5, <1>6, <1>7 DEF Next, Editing

LEMMA ServeTold == TypeOK /\ ServeInv => StarServable
<1> SUFFICES ASSUME TypeOK, ServeInv, phase = "idle", calm
             PROVE  IF Cardinality(Active) < 2 \/ Eligible = {} THEN Starred = {}
                    ELSE Starred # {} /\ \A i \in Starred :
                            i \in Eligible /\ LoadOf(i) < LoadOf(Challenger) + Hysteresis
  BY DEF StarServable
<1>1. PICK w \in Items \cup {Null} : Serves(w) /\ Starred = {w} \ {Null}
  BY DEF ServeInv
<1>2. CASE Cardinality(Active) < 2 \/ Eligible = {}
  BY <1>1, <1>2 DEF Serves
<1>3. CASE ~(Cardinality(Active) < 2 \/ Eligible = {})
  <2>1. w \in Eligible /\ \A j \in Eligible : LoadOf(w) < LoadOf(j) + Hysteresis
    BY <1>1, <1>3 DEF Serves
  <2>2. Starred = {w}
    BY <1>1, <2>1 DEF Eligible, Active
  <2>3. Challenger \in Eligible
    BY <1>3, Lightest
  <2>4. QED BY <1>3, <2>1, <2>2, <2>3
<1>4. QED BY <1>2, <1>3

-----------------------------------------------------------------------------
(* Alerts *)

LEMMA AlarmNext ==
    ASSUME Floor <= Threshold, TypeOK, Tidy, AlarmInv, [Next]_vars
    PROVE  AlarmInv'
<1>0. /\ load \in [Servers -> Scores \cup {Null}] /\ ema \in [Servers -> Scores \cup {Null}]
      /\ hot \in [Servers -> 0 .. Streak]
      /\ poll \in [Servers -> {"idle", "ssh", "write", "alert"}] /\ Scores \subseteq Nat
  BY DEF TypeOK, LoadTypeOK, Scores
<1>1. CASE BeginPass
  <2>1. /\ UNCHANGED <<load, alarm, ema, cut>>
        /\ \A s \in Servers : poll'[s] \in {"ssh", "idle"} /\ hot'[s] \in {0, hot[s]}
        /\ \A s \in Servers : poll[s] = "idle"
    BY <1>1 DEF BeginPass, Tidy
  <2>2. QED BY <2>1 DEF AlarmInv
<1>2. ASSUME NEW s \in Servers, Measure(s) PROVE AlarmInv'
  <2>1. PICK m \in Measures[s] :
          LET prev == IF ema[s] # Null THEN ema[s] ELSE load[s]
          IN  ema' = [ema EXCEPT ![s] = EmaNext(prev, Score(m))]
    BY <1>2 DEF Measure
  <2> DEFINE prev == IF ema[s] # Null THEN ema[s] ELSE load[s]
             next == EmaNext(prev, Score(m))
  <2>2. prev \in Scores \cup {Null}
    BY <1>0
  <2> HIDE DEF prev
  <2>3. next \in Scores
    BY <2>2, ScoreOK, EmaOK
  <2>4. ema' = [ema EXCEPT ![s] = next]
    BY <2>1 DEF prev
  <2> HIDE DEF next
  <2>5. next # Null
    BY <1>0, <2>3
  <2>6. /\ UNCHANGED <<load, alarm, hot, cut>> /\ poll[s] = "ssh" /\ poll' = [poll EXCEPT ![s] = "write"]
    BY <1>2 DEF Measure
  <2>7. QED BY <1>0, <2>4, <2>5, <2>6 DEF AlarmInv
<1>3. ASSUME NEW s \in Servers, StoreLoad(s) PROVE AlarmInv'
  BY <1>0, <1>3 DEF StoreLoad, AlarmInv
<1>4. ASSUME NEW s \in Servers, CheckLoadAlerts(s) PROVE AlarmInv'
  <2>0. /\ UNCHANGED <<load, ema, cut>> /\ poll[s] = "alert" /\ poll' = [poll EXCEPT ![s] = "idle"]
        /\ load[s] = ema[s] /\ ema[s] \in Nat /\ alarm' = Compared(s)
    BY <1>0, <1>4 DEF CheckLoadAlerts, AlarmInv
  <2>1. CASE ema[s] >= Threshold
    <3> DEFINE streak == Min({hot[s] + 1, Streak})
    <3>1. hot' = [hot EXCEPT ![s] = streak]
      BY <1>4, <2>1 DEF CheckLoadAlerts
    <3>2. load[s] >= Floor /\ load[s] # Null
      BY <2>0, <2>1
    <3>3. streak = Streak => hot[s] + 1 >= Streak
      BY <1>0, StreakOK
    <3> HIDE DEF streak
    <3>4. \A u \in Servers : u # s => /\ hot'[u] = hot[u] /\ poll'[u] = poll[u]
                                      /\ (u \in alarm' <=> u \in alarm)
      BY <1>0, <2>0, <3>1 DEF Compared
    <3>5. ASSUME hot'[s] = Streak PROVE s \in alarm'
      <4>1. hot[s] + 1 >= Streak
        BY <1>0, <3>1, <3>3, <3>5
      <4>2. alarm' = alarm \cup {s}
        BY <2>0, <2>1, <4>1 DEF Compared
      <4>3. QED BY <4>2
    <3>6. QED BY <1>0, <2>0, <3>2, <3>4, <3>5 DEF AlarmInv
  <2>2. CASE ~(ema[s] >= Threshold)
    <3>1. /\ hot' = [hot EXCEPT ![s] = 0]
          /\ alarm' = IF ema[s] < Floor THEN alarm \ {s} ELSE alarm
      <4>1. hot' = [hot EXCEPT ![s] = 0]
        BY <1>4, <2>2 DEF CheckLoadAlerts
      <4>2. ema[s] < Threshold
        BY <2>0, <2>2, LoadMetricsAssumption
      <4>3. alarm' = IF ema[s] < Floor THEN alarm \ {s} ELSE alarm
        BY <2>0, <2>2, <4>2 DEF Compared
      <4>4. QED BY <4>1, <4>3
    <3>2. hot'[s] # Streak
      BY <1>0, <3>1
    <3>3. s \in alarm' => load[s] >= Floor /\ load[s] # Null
      BY <2>0, <3>1
    <3>4. \A u \in Servers : u # s => /\ hot'[u] = hot[u] /\ poll'[u] = poll[u]
                                      /\ (u \in alarm' <=> u \in alarm)
      BY <1>0, <2>0, <3>1
    <3>5. QED BY <1>0, <2>0, <3>2, <3>3, <3>4 DEF AlarmInv
  <2>3. QED BY <2>1, <2>2
<1>5. ASSUME NEW s \in Servers, SshFails(s) PROVE AlarmInv'
  <2>1. /\ UNCHANGED <<load, alarm, ema, cut>> /\ poll[s] = "ssh" /\ poll' = [poll EXCEPT ![s] = "idle"]
        /\ hot' = [hot EXCEPT ![s] = 0] /\ 0 # Streak
    BY <1>5 DEF SshFails
  <2>2. QED BY <1>0, <2>1 DEF AlarmInv
<1>6. ASSUME NEW s \in Servers, PollFails(s) PROVE AlarmInv'
  <2>1. /\ UNCHANGED <<load, ema>> /\ poll' = [poll EXCEPT ![s] = "idle"]
        /\ hot' = [hot EXCEPT ![s] = 0] /\ 0 # Streak
        /\ cut' = IF poll[s] = "alert" THEN cut \cup {s} ELSE cut
        /\ alarm' = alarm \/ (poll[s] = "alert" /\ alarm' = Compared(s))
    BY <1>6 DEF PollFails, Alerting
  <2>2. \A u \in Servers : u # s => (u \in alarm' <=> u \in alarm)
    BY <2>1 DEF Compared
  <2>3. /\ s \in alarm' => load[s] # Null
        /\ s \in alarm' \ cut' => s \in alarm \ cut /\ poll[s] # "alert"
    BY <1>0, <2>1 DEF AlarmInv
  <2>4. QED BY <1>0, <2>1, <2>2, <2>3 DEF AlarmInv
<1>7. CASE Crash
  <2>1. /\ UNCHANGED <<load, alarm>> /\ 0 # Streak
        /\ \A s \in Servers : poll'[s] = "idle" /\ hot'[s] = 0
        /\ \A s \in Servers : s \in cut' <=> s \in cut \/ poll[s] = "alert"
    BY <1>7 DEF Crash, LoadCrash, Alerting
  <2>2. QED BY <1>0, <2>1 DEF AlarmInv
<1>8. CASE \/ Rank \/ (\E i \in Items : WriteStar(i)) \/ ClearInactive \/ RankFails
           \/ Editing \/ UNCHANGED vars
  <2>1. Editing => UNCHANGED loadVars
    BY EditRest
  <2>2. UNCHANGED <<load, alarm, ema, hot, poll, cut>>
    BY <1>8, <2>1 DEF Rank, WriteStar, ClearInactive, RankFails, vars, loadVars
  <2>3. QED BY <2>2 DEF AlarmInv
<1>9. QED BY <1>1, <1>2, <1>3, <1>4, <1>5, <1>6, <1>7, <1>8 DEF Next, Polling, PollStep, Editing

-----------------------------------------------------------------------------
(* The theorems *)

Inv == TypeOK /\ Tidy /\ NameInv /\ StarInv /\ ServeInv

LEMMA InvInit == Init => Inv
<1> SUFFICES ASSUME Init PROVE Inv
  OBVIOUS
<1>1. StarInv
  BY InitRows DEF Init, LoadInit, StarInv
<1>2. ServeInv
  BY DEF Init, ServeInv
<1>3. QED BY <1>1, <1>2, TypeInit, TidyInit, NameInit DEF Inv

LEMMA InvNext == Inv /\ [Next]_vars => Inv'
BY TypeNext, TidyNext, NameNext, StarNext, ServeNext DEF Inv

\* Every step leaves rows, polls and the ranking with values of their types: a
\* score stays on the scale, a name can be found for every item.
THEOREM TypeCorrect == Spec => []TypeOK
<1>1. Inv => TypeOK
  BY DEF Inv
<1>2. QED BY <1>1, InvInit, InvNext, PTL DEF Spec

\* The default sync looks for a name before the insert; it is still free there unless
\* an admin has given it meanwhile or two items were being created together.
THEOREM UniqueNamesHolds == Spec => []UniqueNames
<1>1. Inv => UniqueNames
  BY DEF Inv, NameInv, Named, UniqueNames
<1>2. QED BY <1>1, InvInit, InvNext, PTL DEF Spec

\* Stars are written one row at a time among edits, and the last update clears
\* those of inactive rows: at most one is left.
THEOREM OneStarHolds == Spec => []OneStar
<1>1. Inv => OneStar
  BY StarTold DEF Inv
<1>2. QED BY <1>1, InvInit, InvNext, PTL DEF Spec

\* The star of a pass that no edit has met is on a config that works, has a fresh
\* load, and is less than Hysteresis worse than the best.
THEOREM StarServableHolds == Spec => []StarServable
<1>1. Inv => StarServable
  BY ServeTold DEF Inv
<1>2. QED BY <1>1, InvInit, InvNext, PTL DEF Spec

\* pickRecommended takes the star from the only config that has it, and could keep
\* it, for one that is lighter by Hysteresis at least.
THEOREM NoFlappingHolds == Spec => NoFlapping
<1>1. ASSUME Inv, [Next]_vars, winner = Null, winner' # Null,
             NEW i \in (Starred \cap Eligible) \ {winner'}, Starred = {i}
      PROVE  LoadOf(winner') <= LoadOf(i) - Hysteresis
  <2>1. Rank
    <3>1. ASSUME Editing PROVE winner' = winner
      <4>1. TypeOK
        BY <1>1 DEF Inv
      <4>2. QED BY <3>1, <4>1, EditRest DEF loadVars
    <3>2. QED BY <1>1, <3>1 DEF Next, Editing, catalogVars, vars, WriteStar, ClearInactive, RankFails, Crash
  <2>2. winner' \in PickRecommended
    BY <2>1 DEF Rank
  <2>3. winner' \in Keepers \cup {Challenger} /\ Eligible # {}
    BY <1>1, <2>2 DEF PickRecommended
  <2>4. Keepers \subseteq {i}
    BY <1>1 DEF Keepers
  <2>5. Active \cap Starred = {i}
    BY <1>1 DEF Eligible
  <2>6. winner' = Challenger /\ i \notin Keepers
    BY <1>1, <2>2, <2>3, <2>4, <2>5 DEF PickRecommended
  <2>7. /\ LoadOf(i) \in Nat /\ Challenger \in Eligible /\ LoadOf(Challenger) \in Nat
    BY <1>1, <2>3, Lightest DEF Inv
  <2>8. ~(LoadOf(Challenger) > LoadOf(i) - Hysteresis)
    BY <1>1, <2>5, <2>6 DEF Keepers
  <2>9. QED BY <2>6, <2>7, <2>8
<1>2. Inv /\ [Next]_vars =>
         [(winner = Null /\ winner' # Null) =>
             \A i \in (Starred \cap Eligible) \ {winner'} :
                 Starred = {i} => LoadOf(winner') <= LoadOf(i) - Hysteresis]_vars
  BY <1>1
<1>3. QED BY <1>2, InvInit, InvNext, PTL DEF Spec, NoFlapping

\* Where the threshold of the alert is not set below the floor at which it is
\* resolved: the open alerts say what the loads are, also after failed attempts
\* and across restarts.
THEOREM AlarmTruthfulHolds ==
    ASSUME Floor <= Threshold
    PROVE  Spec => []AlarmTruthful
<1>1. Init => AlarmInv
  BY DEF Init, LoadInit, AlarmInv
<1>2. Inv /\ AlarmInv /\ [Next]_vars => Inv' /\ AlarmInv'
  BY InvNext, AlarmNext DEF Inv
<1>3. AlarmInv => AlarmTruthful
  BY DEF AlarmInv, AlarmTruthful
<1>4. QED BY <1>1, <1>2, <1>3, InvInit, PTL DEF Spec

=============================================================================
