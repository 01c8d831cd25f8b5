-------------------------------- MODULE Catalog --------------------------------
(***************************************************************************)
(* The published configs of one country and type: the star that a load     *)
(* pass puts on the least loaded one (updateRecommendations), among the    *)
(* edits that create, publish, test, deactivate and delete configs.        *)
(*                                                                         *)
(* The ranking reads its rows once, then writes one at a time the stars    *)
(* that must change, then clears those of inactive rows in one update.     *)
(* Edits go on between any two steps.  Creating a default item looks for a *)
(* free name first and inserts afterwards; the search is one step, and one *)
(* item is not created twice at once.  An item that an admin assigns gets  *)
(* the name of the request or the user's own, which nothing compares with  *)
(* the others'.  Left out: the assignment to apps, an item's move to       *)
(* another country, an edit of its order or star, and the other columns.   *)
(***************************************************************************)
EXTENDS LoadMetrics, Functions

CONSTANTS
    Items,        \* pairs of a server and a user; all have the same base name
    ServerOf,     \* the server of each item
    Order,        \* sort order and id, as one number from 1 on
    Hysteresis,   \* HYSTERESIS_PTS
    MaxEdits      \* bound on edits of the catalog

ASSUME CatalogAssumption ==
    /\ IsFiniteSet(Items) /\ Null \notin Items
    /\ ServerOf \in [Items -> Servers]
    /\ Order \in Bijection(Items, 1 .. Cardinality(Items))
    /\ Hysteresis \in Nat \ {0} /\ MaxEdits \in Nat

VARIABLES
    item,        \* the VpnCatalogItem rows
    naming,      \* the name found for an item that is being created, 0 if none
    winner,      \* winnerId
    todo,        \* rows whose star the ranking has yet to change
    edits,
    calm,        \* nothing was edited and nothing has failed since the ranking began
    disturbed,   \* a row was activated, or a write failed, while stars were written
    overlapped,  \* two items were being created at the same time
    twin         \* history: items whose name was taken when an admin gave it

catalogVars == <<item, naming, winner, todo, edits, calm, disturbed, overlapped, twin>>
vars == <<loadVars, catalogVars>>

Names == 1 .. Cardinality(Items)   \* the base name is 1, "base n" is n

Item == [status : {"none", "draft", "active"}, star : BOOLEAN, ok : BOOLEAN, name : Names \cup {0}]

NoItem == [status |-> "none", star |-> FALSE, ok |-> TRUE, name |-> 0]

TypeOK ==
    /\ LoadTypeOK
    /\ item \in [Items -> Item]
    /\ naming \in [Items -> Names \cup {0}]
    /\ winner \in Items \cup {Null}
    /\ todo \subseteq Items
    /\ edits \in 0 .. MaxEdits
    /\ {calm, disturbed, overlapped} \subseteq BOOLEAN
    /\ twin \subseteq Items

Init ==
    /\ LoadInit
    /\ \E created \in SUBSET Items :
          item = [i \in Items |-> IF i \in created
                                  THEN [NoItem EXCEPT !.status = "active", !.name = Order[i]]
                                  ELSE NoItem]
    /\ naming = [i \in Items |-> 0]
    /\ winner = Null
    /\ todo = {}
    /\ edits = 0
    /\ calm = FALSE /\ disturbed = FALSE /\ overlapped = FALSE
    /\ twin = {}

-----------------------------------------------------------------------------
(* The ranking *)

Exists(i) == item[i].status # "none"
Active == {i \in Items : item[i].status = "active"}
Starred == {i \in Items : item[i].star}

LoadOf(i) == load[ServerOf[i]]

Eligible == {i \in Active : IsLoadFresh(ServerOf[i]) /\ item[i].ok}

\* The order of the sort in pickRecommended.
Lighter(i, j) == LoadOf(i) < LoadOf(j) \/ (LoadOf(i) = LoadOf(j) /\ Order[i] <= Order[j])

Challenger == CHOOSE i \in Eligible : \A j \in Eligible : Lighter(i, j)

\* Starred configs that are light enough to keep the star.
Keepers == {i \in Active \cap Starred \cap Eligible : LoadOf(Challenger) > LoadOf(i) - Hysteresis}

\* Mutant of PickRecommended: the lightest config wins whoever has the star.
PickRecommended_NoHysteresis ==
    IF Cardinality(Active) < 2 \/ Eligible = {} THEN {Null} ELSE {Challenger}

\* Mutant of PickRecommended: a config that has the star keeps it while it can.
PickRecommended_Sticky ==
    IF Cardinality(Active) < 2 \/ Eligible = {} THEN {Null}
    ELSE IF Starred \cap Eligible # {} THEN Starred \cap Eligible
    ELSE {Challenger}

\* What pickRecommended may return: of several stars the first one read is the
\* incumbent, and the rows come in any order.
PickRecommended ==
    IF Cardinality(Active) < 2 \/ Eligible = {} THEN {Null}
    ELSE Keepers \cup (IF Active \cap Starred # {} /\ Active \cap Starred = Keepers THEN {} ELSE {Challenger})

Polled == phase = "poll" /\ \A s \in Servers : poll[s] = "idle"

\* Mutant of Rank: only the winner's star is written.
Rank_NoReset ==
    /\ Polled
    /\ phase' = "write"
    /\ winner' \in PickRecommended
    /\ todo' = {i \in Active : i = winner' /\ ~item[i].star}
    /\ calm' = TRUE /\ disturbed' = FALSE
    /\ UNCHANGED <<load, age, alarm, ema, hot, poll, cut, faults, item, naming, edits, overlapped, twin>>

Rank ==
    /\ Polled
    /\ phase' = "write"
    /\ winner' \in PickRecommended
    /\ todo' = {i \in Active : item[i].star # (i = winner')}
    /\ calm' = TRUE /\ disturbed' = FALSE
    /\ UNCHANGED <<load, age, alarm, ema, hot, poll, cut, faults, item, naming, edits, overlapped, twin>>

\* A row that was deactivated meanwhile is starred all the same.
WriteStar(i) ==
    /\ phase = "write" /\ i \in todo
    /\ item' = [item EXCEPT ![i].star = (i = winner)]
    /\ todo' = todo \ {i}
    /\ UNCHANGED <<loadVars, naming, winner, edits, calm, disturbed, overlapped, twin>>

ClearInactive ==
    /\ phase = "write" /\ todo = {}
    /\ phase' = "idle"
    /\ winner' = Null
    /\ item' = [i \in Items |-> IF i \in Active THEN item[i] ELSE [item[i] EXCEPT !.star = FALSE]]
    /\ UNCHANGED <<load, age, alarm, ema, hot, poll, cut, faults, naming, todo, edits,
                   calm, disturbed, overlapped, twin>>

\* A query of the ranking fails: the rest of the pass is given up.
RankFails ==
    /\ Polled \/ phase = "write"
    /\ Fault
    /\ phase' = "idle"
    /\ todo' = {} /\ winner' = Null
    /\ calm' = FALSE /\ disturbed' = (disturbed \/ phase = "write")
    /\ UNCHANGED <<load, age, alarm, ema, hot, poll, cut, item, naming, edits, overlapped, twin>>

Crash ==
    /\ LoadCrash
    /\ todo' = {} /\ winner' = Null
    /\ naming' = [i \in Items |-> 0]
    /\ calm' = FALSE /\ disturbed' = (disturbed \/ phase = "write")
    /\ UNCHANGED <<item, edits, overlapped, twin>>

-----------------------------------------------------------------------------
(* Edits of the catalog *)

\* activated: the rows that the edit makes active.
Edit(activated) ==
    /\ edits < MaxEdits /\ edits' = edits + 1
    /\ calm' = FALSE
    /\ disturbed' = (disturbed \/ (phase = "write" /\ activated # {}))
    /\ UNCHANGED <<loadVars, winner>>

Used == {item[i].name : i \in Items}

\* Mutant of UniqueDisplayName: the first server's name is taken without a look.
UniqueDisplayName_Base == 1

UniqueDisplayName == Min({n \in Names : n \notin Used})

\* ensureDefaultCatalog, as long as the item is not there.
NameItem(i) ==
    /\ ~Exists(i) /\ naming[i] = 0
    /\ Edit({})
    /\ naming' = [naming EXCEPT ![i] = UniqueDisplayName]
    /\ overlapped' = (overlapped \/ \E j \in Items \ {i} : naming[j] # 0)
    /\ UNCHANGED <<item, todo, twin>>

\* findOrCreate, and the update that activates when asked to: an item assigned
\* meanwhile keeps its name.
CreateItem(i) ==
    /\ naming[i] # 0
    /\ \E status \in {"draft", "active"} :
          /\ item' = [item EXCEPT ![i] =
                IF ~Exists(i) THEN [NoItem EXCEPT !.status = status, !.name = naming[i]]
                ELSE IF status = "active" THEN [@ EXCEPT !.status = "active"] ELSE @]
          /\ disturbed' = (disturbed \/ (phase = "write" /\ status = "active"))
    /\ naming' = [naming EXCEPT ![i] = 0]
    /\ calm' = FALSE
    /\ UNCHANGED <<loadVars, winner, todo, edits, overlapped, twin>>

\* publishServerCatalog: all rows of a server in one update.
Publish(s) ==
    LET drafts == {i \in Items : item[i].status = "draft" /\ ServerOf[i] = s}
    IN  /\ drafts # {}
        /\ Edit(drafts)
        /\ item' = [i \in Items |-> IF i \in drafts THEN [item[i] EXCEPT !.status = "active"] ELSE item[i]]
        /\ UNCHANGED <<naming, todo, overlapped, twin>>

\* Another item has the name, or will have it.
Taken(i, name) == \E j \in Items \ {i} : name \in {item[j].name, naming[j]}

\* POST /catalog/assign and PUT /catalog/:id: the item, inserted if it is not
\* there (by the former only), has the status and the name it is given.
AssignItem(i) ==
    /\ \E status \in {"draft", "active"}, name \in Names :
          /\ <<status, name>> # <<item[i].status, item[i].name>>
          /\ Edit(IF status = "active" /\ item[i].status # "active" THEN {i} ELSE {})
          /\ item' = [item EXCEPT ![i].status = status, ![i].name = name]
          /\ twin' = IF name = item[i].name THEN twin
                     ELSE IF Taken(i, name) THEN twin \cup {i} ELSE twin \ {i}
    /\ UNCHANGED <<naming, todo, overlapped>>

\* A write that is still due for the row will change nothing.
DeleteItem(i) ==
    /\ Exists(i)
    /\ Edit({})
    /\ item' = [item EXCEPT ![i] = NoItem]
    /\ todo' = todo \ {i}
    /\ twin' = twin \ {i}
    /\ UNCHANGED <<naming, overlapped>>

\* The result of a tunnel test.
TestItem(i) ==
    /\ Exists(i)
    /\ Edit({})
    /\ item' = [item EXCEPT ![i].ok = ~@]
    /\ UNCHANGED <<naming, todo, overlapped, twin>>

EditItem(i) == NameItem(i) \/ CreateItem(i) \/ AssignItem(i) \/ DeleteItem(i) \/ TestItem(i)

Polling ==
    \/ BeginPass
    \/ \E s \in Servers : PollStep(s) \/ SshFails(s) \/ PollFails(s)

Next ==
    \/ Polling /\ UNCHANGED catalogVars
    \/ Rank \/ (\E i \in Items : WriteStar(i)) \/ ClearInactive \/ RankFails
    \/ Crash
    \/ \E i \in Items : EditItem(i)
    \/ \E s \in Servers : Publish(s)

Spec == Init /\ [][Next]_vars

-----------------------------------------------------------------------------
\* Between passes at most one config has a star, active or not, whatever was edited
\* meanwhile, unless a config was activated or a write failed while the last
\* ranking wrote its stars.
OneStar == (phase = "idle" /\ ~disturbed) => Cardinality(Starred) <= 1

\* When a pass ends that no edit has met, the star is on a config that works, with a
\* fresh load that is less than Hysteresis worse than the best one's; there is no
\* star only if no config can have it or there is nothing to choose.
StarServable ==
    (phase = "idle" /\ calm) =>
        IF Cardinality(Active) < 2 \/ Eligible = {} THEN Starred = {}
        ELSE Starred # {} /\ \A i \in Starred : i \in Eligible /\ LoadOf(i) < LoadOf(Challenger) + Hysteresis

\* The star does not flap: a pass takes it from a config that could keep it only for
\* one that is lighter by Hysteresis.
NoFlapping ==
    [][(winner = Null /\ winner' # Null) =>
          \A i \in (Starred \cap Eligible) \ {winner'} :
              Starred = {i} => LoadOf(winner') <= LoadOf(i) - Hysteresis]_vars

\* Names tell the configs of one country apart: the name that a default sync finds
\* is neither an earlier item's nor one an admin has given, so two have the same
\* only if an admin has given one of them a name that was taken, or if two were
\* being created at the same time.
UniqueNames ==
    ~overlapped =>
        \A i, j \in Items :
            (i # j /\ Exists(i) /\ Exists(j) /\ item[i].name = item[j].name) => {i, j} \cap twin # {}
=============================================================================
