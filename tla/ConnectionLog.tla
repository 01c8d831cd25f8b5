----------------------------- MODULE ConnectionLog -----------------------------
(***************************************************************************)
(* The legal record of VPN sessions (connectionLogService): a row written  *)
(* at POST /v1/sessions/start, closed by POST /v1/sessions/stop or by the  *)
(* hourly sweep, and deleted by the daily purge.                           *)
(*                                                                         *)
(* A task is one request's handler or one sweep; each await is a step, and *)
(* the handler closes the instance it has found, the sweep those it has    *)
(* listed, without looking again.  A device stops its own sessions only    *)
(* (the 403 and 404 answers change nothing and are left out), and may send *)
(* a stop twice.  What a row says besides its times is left out.           *)
(***************************************************************************)
EXTENDS Integers, FiniteSets

CONSTANTS
    Logs,        \* log tokens; one is reused when its row has been purged
    Tasks,       \* handlers and sweeps that may be under way together
    MaxAge,      \* maxHours, in ticks
    Retain,      \* CONNECTION_LOG_RETENTION_DAYS, in ticks
    MaxFaults    \* bound on crashes and failing queries

ASSUME ConnectionLogAssumption ==
    /\ MaxAge \in Nat /\ Retain \in Nat /\ MaxAge < Retain
    /\ MaxFaults \in Nat

VARIABLES
    log,      \* the ConnectionLog rows
    task,
    told,     \* the durations answered to the stops of each row
    shared,   \* rows that two tasks have held open at the same time
    faults

logVars == <<log, task, told, shared, faults>>

Ages == 0 .. Retain + 1   \* ticks since connect_at; the last means any longer time

Log == [state : {"none", "open", "closed"}, age : Ages,
        by : {"nobody", "client", "timeout"}, duration : Ages]

Task == [pc : {"idle", "start", "find", "close", "sweep"},
         held : SUBSET Logs,   \* the instances it has found open
         duration : Ages]      \* durationSeconds

NoLog == [state |-> "none", age |-> 0, by |-> "nobody", duration |-> 0]
Idle == [pc |-> "idle", held |-> {}, duration |-> 0]

LogTypeOK ==
    /\ log \in [Logs -> Log]
    /\ task \in [Tasks -> Task]
    /\ told \in [Logs -> SUBSET Ages]
    /\ shared \subseteq Logs
    /\ faults \in 0 .. MaxFaults

LogInit ==
    /\ log = [l \in Logs |-> NoLog]
    /\ task = [t \in Tasks |-> Idle]
    /\ told = [l \in Logs |-> {}]
    /\ shared = {}
    /\ faults = 0

-----------------------------------------------------------------------------
At(t, step) == task[t].pc = step

Open(l) == log[l].state = "open"

Holds(t, l) == l \in task[t].held

\* Rows that t would hold together with another task.
Contended(t, rows) == {l \in rows : \E u \in Tasks \ {t} : Holds(u, l)}

Closed(l, by, duration) ==
    [log[l] EXCEPT !.state = "closed", !.by = by, !.duration = duration]

\* A start has a token to use: Logs bounds the rows there are at a time.
BeginRequest(t, handler) ==
    /\ At(t, "idle")
    /\ handler = "start" =>
          Cardinality({u \in Tasks : At(u, "start")}) < Cardinality({l \in Logs : log[l].state = "none"})
    /\ task' = [task EXCEPT ![t].pc = handler]
    /\ UNCHANGED <<log, told, shared, faults>>

StartLog(t) ==
    /\ At(t, "start")
    /\ \E l \in Logs :
          /\ log[l].state = "none"
          /\ \A u \in Tasks : ~Holds(u, l)
          /\ log' = [log EXCEPT ![l] = [NoLog EXCEPT !.state = "open"]]
    /\ task' = [task EXCEPT ![t] = Idle]
    /\ UNCHANGED <<told, shared, faults>>

\* Mutant of FindLog: a row that is already closed is closed again.
FindLog_Again(t, l) ==
    /\ At(t, "find")
    /\ log[l].state # "none"
    /\ task' = [task EXCEPT ![t] = [pc |-> "close", held |-> {l}, duration |-> log[l].age]]
    /\ shared' = shared \cup Contended(t, {l})
    /\ UNCHANGED <<log, told, faults>>

\* Mutant of FindLog: the duration is stored in milliseconds.
FindLog_Millis(t, l) ==
    /\ At(t, "find")
    /\ Open(l)
    /\ task' = [task EXCEPT ![t] = [pc |-> "close", held |-> {l}, duration |-> 1000 * log[l].age]]
    /\ shared' = shared \cup Contended(t, {l})
    /\ UNCHANGED <<log, told, faults>>

\* stopLog takes the time as soon as it has the row; a closed row is the answer.
FindLog(t, l) ==
    /\ At(t, "find")
    /\ \/ /\ Open(l)
          /\ task' = [task EXCEPT ![t] = [pc |-> "close", held |-> {l}, duration |-> log[l].age]]
          /\ shared' = shared \cup Contended(t, {l})
          /\ UNCHANGED told
       \/ /\ log[l].state = "closed"
          /\ told' = [told EXCEPT ![l] = @ \cup {log[l].duration}]
          /\ task' = [task EXCEPT ![t] = Idle]
          /\ UNCHANGED shared
    /\ UNCHANGED <<log, faults>>

NotFound(t) ==
    /\ At(t, "find")
    /\ task' = [task EXCEPT ![t] = Idle]
    /\ UNCHANGED <<log, told, shared, faults>>

\* The update of a row purged meanwhile changes nothing and is answered the same.
CloseLog(t) ==
    /\ At(t, "close")
    /\ LET l == CHOOSE l \in task[t].held : TRUE
       IN  /\ log' = IF log[l].state = "none" THEN log
                     ELSE [log EXCEPT ![l] = Closed(l, "client", task[t].duration)]
           /\ told' = IF log[l].state = "none" THEN told
                      ELSE [told EXCEPT ![l] = @ \cup {task[t].duration}]
    /\ task' = [task EXCEPT ![t] = Idle]
    /\ UNCHANGED <<shared, faults>>

\* Mutant of ListStale: every open session is taken for a stale one.
ListStale_AllOpen(t) ==
    /\ At(t, "idle")
    /\ LET stale == {l \in Logs : Open(l)}
       IN  /\ task' = [task EXCEPT ![t] = [Idle EXCEPT !.pc = "sweep", !.held = stale]]
           /\ shared' = shared \cup Contended(t, stale)
    /\ UNCHANGED <<log, told, faults>>

\* Mutant of ListStale: sessions that have just passed the cap are taken, those
\* that have been missed then are not.
ListStale_JustExpired(t) ==
    /\ At(t, "idle")
    /\ LET stale == {l \in Logs : Open(l) /\ log[l].age = MaxAge + 1}
       IN  /\ task' = [task EXCEPT ![t] = [Idle EXCEPT !.pc = "sweep", !.held = stale]]
           /\ shared' = shared \cup Contended(t, stale)
    /\ UNCHANGED <<log, told, faults>>

\* sweepStale begins: the hourly cron does not wait for its previous sweep, and
\* what a sweep does before its list arrives changes nothing.
ListStale(t) ==
    /\ At(t, "idle")
    /\ LET stale == {l \in Logs : Open(l) /\ log[l].age > MaxAge}
       IN  /\ task' = [task EXCEPT ![t] = [Idle EXCEPT !.pc = "sweep", !.held = stale]]
           /\ shared' = shared \cup Contended(t, stale)
    /\ UNCHANGED <<log, told, faults>>

SweepOne(t, l) ==
    /\ At(t, "sweep")
    /\ Holds(t, l)
    /\ log' = IF log[l].state = "none" THEN log
              ELSE [log EXCEPT ![l] = Closed(l, "timeout", MaxAge)]
    /\ task' = [task EXCEPT ![t].held = @ \ {l}]
    /\ UNCHANGED <<told, shared, faults>>

EndSweep(t) ==
    /\ At(t, "sweep") /\ task[t].held = {}
    /\ task' = [task EXCEPT ![t] = Idle]
    /\ UNCHANGED <<log, told, shared, faults>>

\* purgeOldConnectionLogs, whether the rows are closed or not.
Purge ==
    LET old == {l \in Logs : log[l].state # "none" /\ log[l].age > Retain}
    IN  /\ old # {}
        /\ log' = [l \in Logs |-> IF l \in old THEN NoLog ELSE log[l]]
        /\ told' = [l \in Logs |-> IF l \in old THEN {} ELSE told[l]]
        /\ shared' = shared \ old
        /\ UNCHANGED <<task, faults>>

\* A failing query ends its task; a sweep leaves the rest for the next one.
LogQueryFails(t) ==
    /\ ~At(t, "idle")
    /\ faults < MaxFaults /\ faults' = faults + 1
    /\ task' = [task EXCEPT ![t] = Idle]
    /\ UNCHANGED <<log, told, shared>>

LogCrash ==
    /\ faults < MaxFaults /\ faults' = faults + 1
    /\ task' = [t \in Tasks |-> Idle]
    /\ UNCHANGED <<log, told, shared>>

LogTick ==
    /\ log' = [l \in Logs |-> IF log[l].state = "none" THEN log[l]
                              ELSE [log[l] EXCEPT !.age = IF @ > Retain THEN @ ELSE @ + 1]]
    /\ UNCHANGED <<task, told, shared, faults>>

LogStep(t) ==
    \/ StartLog(t) \/ (\E l \in Logs : FindLog(t, l)) \/ NotFound(t) \/ CloseLog(t)
    \/ (\E l \in Logs : SweepOne(t, l)) \/ EndSweep(t)

-----------------------------------------------------------------------------
\* The record says what the client was told: all stops of a session are answered
\* with the recorded duration, however often they are sent and whatever the sweep
\* does, unless a stop or sweep met another that held the open row.
AnswersAgree ==
    \A l \in Logs \ shared : told[l] # {} => log[l].state = "closed" /\ told[l] = {log[l].duration}

\* No record claims a longer session than there was time for since it began.
NeverTooLong == \A l \in Logs : log[l].state = "closed" => log[l].duration <= log[l].age

\* Every session's record is closed (or purged) in the end, whether the app
\* stops it, is killed, or a sweep fails on the way.
EveryLogCloses == \A l \in Logs : Open(l) ~> ~Open(l)
=============================================================================
