------------------------------- MODULE RuleCache -------------------------------
(***************************************************************************)
(* The three in-memory caches in front of slowly changing tables: the ban  *)
(* rules (banService), the tenant of one app key (tenantService) and the   *)
(* settings (settingsService).  They share nothing, so a behaviour is that *)
(* of one of them, named by `service'.                                     *)
(*                                                                         *)
(* A caller is one request (or one loop that reads a setting).  A query is *)
(* sent (asked), executed by the database (read) and comes back; edits,    *)
(* invalidations and other callers run in between.  Ban and tenant lookups *)
(* share a query under way, setting lookups do not.                        *)
(*                                                                         *)
(* Time is counted in ticks.  A value stands for all that one lookup sees: *)
(* whether a client is banned, a tenant's row or its absence, a setting.   *)
(***************************************************************************)
EXTENDS Integers, FiniteSets

CONSTANTS
    Services,   \* the caches that are followed
    Values,     \* what the table may hold for the lookup
    None,       \* no value
    Callers,    \* requests that may be under way together
    TTL,        \* TTL_MS, APP_CACHE_TTL_MS, CACHE_TTL_MS
    Latency     \* bound: ticks a query may take, and a request after its guard

ASSUME RuleCacheAssumption ==
    /\ Services \subseteq {"ban", "tenant", "settings"}
    /\ None \notin Values
    /\ Latency \in Nat
    /\ TTL \in Nat /\ TTL > Latency

VARIABLES
    service,    \* which of the services this is
    stored,     \* the value in the table
    entry,      \* the cached value and the ticks since it was stamped
    query,      \* each caller's own query
    caller,
    edit,       \* the change of the table that is under way
    last,       \* ticks since each value was stored
    answer,     \* the last answer a caller got
    unguarded   \* whether it was found behind a ban guard that had failed

vars == <<service, stored, entry, query, caller, edit, last, answer, unguarded>>

Far == TTL + 2 * Latency + 1

Older(n, bound) == IF n < bound THEN n + 1 ELSE bound

Lookup == Values \cup {None}

\* raced: an edit was committed while the value was being read, or was never
\* followed by an invalidation.
Entry == [val : Lookup, age : 0 .. TTL, raced : BOOLEAN]
Query == [at : {"none", "asked", "read"}, val : Lookup, age : 0 .. Latency, raced : BOOLEAN]
\* late: past the ban guard; blind: past it because its query has failed.
Caller == [pc : {"idle", "wait", "late", "blind"}, age : 0 .. Latency]

Empty == [val |-> None, age |-> TTL, raced |-> FALSE]
NoQuery == [at |-> "none", val |-> None, age |-> 0, raced |-> FALSE]
Idle == [pc |-> "idle", age |-> 0]

TypeOK ==
    /\ service \in Services
    /\ stored \in Values
    /\ entry \in Entry
    /\ query \in [Callers -> Query]
    /\ caller \in [Callers -> Caller]
    /\ edit \in {"none", "committed"}
    /\ last \in [Values -> 0 .. Far]
    /\ answer \in Lookup
    /\ unguarded \in BOOLEAN

Init ==
    /\ service \in Services
    /\ stored \in Values
    /\ entry = Empty
    /\ query = [c \in Callers |-> NoQuery]
    /\ caller = [c \in Callers |-> Idle]
    /\ edit = "none"
    /\ last = [v \in Values |-> IF v = stored THEN 0 ELSE Far]
    /\ answer = None
    /\ unguarded = FALSE

-----------------------------------------------------------------------------
\* An invalidated ban cache keeps its rules and counts as expired.
Fresh == entry.val # None /\ entry.age < TTL

InFlight == {c \in Callers : query[c].at # "none"}

Shared == service \in {"ban", "tenant"}

Behind(c) == caller[c].pc \in {"late", "blind"}

Answer(v) == answer' = v /\ unguarded' = FALSE

\* The callers that c's query answers.
Awaiting(c) == IF Shared THEN {d \in Callers : caller[d].pc = "wait"} ELSE {c}

\* A lookup is answered from the entry, joins the query under way or sends one.
Ask(c, next) ==
    /\ caller[c].pc = "idle"
    /\ IF Fresh
       THEN /\ Answer(entry.val)
            /\ caller' = [caller EXCEPT ![c].pc = next]
            /\ UNCHANGED query
       ELSE /\ caller' = [caller EXCEPT ![c].pc = "wait"]
            /\ query' = IF Shared /\ InFlight # {} THEN query
                        ELSE [query EXCEPT ![c].at = "asked"]
            /\ UNCHANGED <<answer, unguarded>>
    /\ UNCHANGED <<service, stored, entry, edit, last>>

\* banGuardMiddleware refuses the request or lets it go on to verifySignedRequest,
\* which looks the account up in whatever rules are loaded by then.
BanGuard(c) == service = "ban" /\ \E next \in {"idle", "late"} : Ask(c, next)

ResolveApp(c) == service = "tenant" /\ Ask(c, "idle")

LoadAll(c) == service = "settings" /\ Ask(c, "idle")

\* isBannedValue asks no freshness: the rules may be of any age here.
AccountCheck(c) ==
    /\ Behind(c)
    /\ caller' = [caller EXCEPT ![c] = Idle]
    /\ answer' = entry.val
    /\ unguarded' = (caller[c].pc = "blind")
    /\ UNCHANGED <<service, stored, entry, query, edit, last>>

DatabaseReads(c) ==
    /\ query[c].at = "asked"
    /\ query' = [query EXCEPT ![c].at = "read", ![c].val = stored]
    /\ UNCHANGED <<service, stored, entry, caller, edit, last, answer, unguarded>>

\* The rows of c's query become the entry, with the given age, and answer c and
\* all that joined it.
Deliver(c, age, next) ==
    /\ query[c].at = "read"
    /\ entry' = [val |-> query[c].val, age |-> age, raced |-> query[c].raced]
    /\ Answer(query[c].val)
    /\ query' = [query EXCEPT ![c] = NoQuery]
    /\ caller' = [d \in Callers |-> IF d \in Awaiting(c) THEN [Idle EXCEPT !.pc = next] ELSE caller[d]]
    /\ UNCHANGED <<service, stored, edit, last>>

DeliverRules(c) == service = "ban" /\ \E next \in {"idle", "late"} : Deliver(c, 0, next)

\* Mutant of DeliverApp: the tenant is cached without the time it was loaded.
DeliverApp_Unstamped(c) == service = "tenant" /\ Deliver(c, None, "idle")

DeliverApp(c) == service = "tenant" /\ Deliver(c, 0, "idle")

\* Mutant of DeliverSettings: stamped when the rows arrive, as the others are.
DeliverSettings_StampedLate(c) == service = "settings" /\ Deliver(c, 0, "idle")

\* loadAll has taken the time before its query.
DeliverSettings(c) == service = "settings" /\ Deliver(c, query[c].age, "idle")

\* Mutant of QueryFails: the shared promise is kept when it has failed.
QueryFails_KeepsLoading(c) ==
    /\ query[c].at \in {"asked", "read"}
    /\ query' = [query EXCEPT ![c].at = "lost"]
    /\ caller' = [d \in Callers |-> IF d \in Awaiting(c) THEN Idle ELSE caller[d]]
    /\ Answer(None)
    /\ UNCHANGED <<service, stored, entry, edit, last>>

\* The entry stays, however old.  A tenant or settings lookup ends with an error;
\* the ban guard fails open, and its requests go on to their account checks.
QueryFails(c) ==
    /\ query[c].at # "none"
    /\ query' = [query EXCEPT ![c] = NoQuery]
    /\ \E next \in {"idle"} \cup (IF service = "ban" THEN {"blind"} ELSE {}) :
          caller' = [d \in Callers |->
                        IF d \in Awaiting(c) THEN [Idle EXCEPT !.pc = next] ELSE caller[d]]
    /\ Answer(None)
    /\ UNCHANGED <<service, stored, entry, edit, last>>

-----------------------------------------------------------------------------
(* Edits: POST and DELETE /bans, the /apps routes, PUT /settings *)

Commit(v) ==
    /\ edit = "none"
    /\ v # stored
    /\ stored' = v
    /\ last' = [last EXCEPT ![v] = 0]
    /\ edit' = "committed"
    /\ query' = [c \in Callers |-> [query[c] EXCEPT !.raced = (query[c].at # "none")]]
    /\ UNCHANGED <<service, entry, caller, answer, unguarded>>

Invalidated(e) ==
    /\ edit = "committed"
    /\ edit' = "none"
    /\ entry' = e
    /\ UNCHANGED <<service, stored, query, caller, last, answer, unguarded>>

\* Mutant of InvalidateRules: the rules are kept and so is their age.
InvalidateRules_KeepsAge == service = "ban" /\ Invalidated(entry)

InvalidateRules == service = "ban" /\ Invalidated([entry EXCEPT !.age = TTL])

InvalidateApps == service = "tenant" /\ Invalidated(Empty)

InvalidateSettings == service = "settings" /\ Invalidated(Empty)

\* The change is in the table and its route fails all the same (the second update
\* of POST /bans, a lost reply): nothing is invalidated.
EditFails ==
    /\ edit = "committed"
    /\ edit' = "none"
    /\ entry' = [entry EXCEPT !.raced = (entry.val # None)]
    /\ query' = [c \in Callers |-> [query[c] EXCEPT !.raced = (query[c].at # "none")]]
    /\ UNCHANGED <<service, stored, caller, last, answer, unguarded>>

\* The process dies and comes back with nothing cached.
Restart ==
    /\ entry' = Empty
    /\ query' = [c \in Callers |-> NoQuery]
    /\ caller' = [c \in Callers |-> Idle]
    /\ edit' = "none"
    /\ UNCHANGED <<service, stored, last, answer, unguarded>>

Tick ==
    /\ \A c \in Callers : query[c].at # "none" => query[c].age < Latency
    /\ \A c \in Callers : Behind(c) => caller[c].age < Latency
    /\ entry' = [entry EXCEPT !.age = Older(@, TTL)]
    /\ query' = [c \in Callers |->
                    IF query[c].at = "none" THEN query[c] ELSE [query[c] EXCEPT !.age = @ + 1]]
    /\ caller' = [c \in Callers |->
                    IF Behind(c) THEN [caller[c] EXCEPT !.age = @ + 1] ELSE caller[c]]
    /\ last' = [v \in Values |-> IF v = stored THEN 0 ELSE Older(last[v], Far)]
    /\ UNCHANGED <<service, stored, edit, answer, unguarded>>

Delivers(c) == DeliverRules(c) \/ DeliverApp(c) \/ DeliverSettings(c)

Next ==
    \/ \E c \in Callers :
          \/ BanGuard(c) \/ ResolveApp(c) \/ LoadAll(c) \/ AccountCheck(c)
          \/ DatabaseReads(c) \/ Delivers(c) \/ QueryFails(c)
    \/ \E v \in Values : Commit(v)
    \/ InvalidateRules \/ InvalidateApps \/ InvalidateSettings
    \/ EditFails \/ Restart \/ Tick

Spec == Init /\ [][Next]_vars

\* A query is executed and comes back, or fails.
FairSpec ==
    /\ Spec
    /\ \A c \in Callers : WF_vars(DatabaseReads(c)) /\ WF_vars(Delivers(c)) /\ WF_vars(AccountCheck(c))

-----------------------------------------------------------------------------
\* An edit takes effect at once unless a query was under way when it was made:
\* when no edit is going on, a servable entry that no edit has raced is what the
\* table holds.
CurrentUnlessRaced ==
    (edit = "none" /\ Fresh /\ ~entry.raced) => entry.val = stored

\* How old an answer may be.  Bans and tenants are stamped when their rows
\* arrive, so the query's time comes on top of the TTL, and a ban's account check
\* comes later still; settings are stamped before the query.
Limit ==
    CASE service = "ban" -> TTL - 1 + 2 * Latency
      [] service = "tenant" -> TTL - 1 + Latency
      [] service = "settings" -> TTL - 1

\* Behind a guard that has failed nothing is promised.
Promise == INSTANCE StaleReads WITH limit <- Limit, answer <- IF unguarded THEN None ELSE answer

\* Races or not, no caller whose own lookup has succeeded is answered with a value
\* that was replaced longer ago than Limit, failed edits and the failed queries of
\* others included: the caches implement StaleReads.  The exception is a ban query
\* that fails: the guard lets its requests pass, and their account checks go by
\* rules of any age.
ServesWithinLimit == Promise!Spec

\* No lookup waits for ever, on its own query or on one it has joined: a failed
\* query releases all who share it.
EveryLookupEnds == \A c \in Callers : caller[c].pc = "wait" ~> caller[c].pc # "wait"
=============================================================================
