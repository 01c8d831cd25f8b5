------------------------------ MODULE LoadMetrics ------------------------------
(***************************************************************************)
(* The load pipeline (loadMetricsService): the self-rescheduling loop, the *)
(* poll of every server over ssh, the smoothed score and its row, and the  *)
(* alert on sustained load.                                                *)
(*                                                                         *)
(* A pass polls the servers side by side, one step per await; it ends with *)
(* the ranking of the catalog (module Catalog), and the next one starts an *)
(* interval after that, so a tick of a row's age is a pass.  Scores have a *)
(* coarser scale than 0 .. 100, with the code's smoothing; an alarm is the *)
(* server's open 'load' incident (opened and resolved by openIncident and  *)
(* resolveIncidents, whose own steps are in ServerMonitor).  What a box is *)
(* doing when a pass reads its row is any of busy, unreachable and neither.*)
(* Left out: the parsing of the listing, the per-user counters (a failing  *)
(* fold is PollFails), the mail, and the other rollup columns.             *)
(***************************************************************************)
EXTENDS Integers, FiniteSets, FiniteSetsExt

CONSTANTS
    Servers,
    Measures,      \* what a poll of each server may measure
    Null,          \* not known
    Top,           \* the highest score (100)
    Threshold,     \* load_alert_threshold
    Floor,         \* ALERT_RESOLVE_BELOW
    Streak,        \* ALERT_CONSECUTIVE_POLLS
    Concurrency,   \* CONCURRENCY
    Stale,         \* loadStaleMsFor, in polling intervals
    MaxFaults      \* bound on failing writes and crashes

VARIABLES
    load,     \* Server.load_pct
    age,      \* intervals since Server.load_updated_at
    alarm,    \* servers with an open 'load' incident
    ema,      \* _ema
    hot,      \* _hot
    poll,     \* where the poll of each server is
    phase,    \* where the pass is
    cut,      \* servers whose last load was stored and not compared with the threshold
    faults

ASSUME LoadMetricsAssumption ==
    /\ {Top, Threshold, Floor, Stale, MaxFaults} \subseteq Nat
    /\ {Streak, Concurrency} \subseteq Nat \ {0}
    /\ Null \notin Nat
    /\ Measures \in [Servers -> SUBSET [bandwidth : Nat \cup {Null}, cpu : Nat \cup {Null},
                                       ips : Nat \cup {Null}]]

loadVars == <<load, age, alarm, ema, hot, poll, phase, cut, faults>>

Scores == 0 .. Top

LoadTypeOK ==
    /\ load \in [Servers -> Scores \cup {Null}]
    /\ age \in [Servers -> 0 .. Stale + 1]
    /\ alarm \subseteq Servers
    /\ ema \in [Servers -> Scores \cup {Null}]
    /\ hot \in [Servers -> 0 .. Streak]
    /\ poll \in [Servers -> {"idle", "ssh", "write", "alert"}]
    /\ phase \in {"idle", "poll", "write"}
    /\ cut \subseteq Servers
    /\ faults \in 0 .. MaxFaults

LoadInit ==
    /\ load = [s \in Servers |-> Null]
    /\ age = [s \in Servers |-> Stale + 1]
    /\ alarm = {}
    /\ ema = [s \in Servers |-> Null]
    /\ hot = [s \in Servers |-> 0]
    /\ poll = [s \in Servers |-> "idle"]
    /\ phase = "idle"
    /\ cut = {}
    /\ faults = 0

-----------------------------------------------------------------------------
Fault == faults < MaxFaults /\ faults' = faults + 1

\* Mutant of Score: a box that is asked for more than it has scores more than all.
Score_Unclamped(m) == Max({0} \cup ({m.bandwidth, m.cpu, m.ips} \ {Null}))

\* computeLoadScore: the worst of the utilisations that are known, at most Top.
Score(m) == Min({Top} \cup {Max({0} \cup ({m.bandwidth, m.cpu, m.ips} \ {Null}))})

\* emaNext, with EMA_ALPHA = 0.4: the nearest integer of 0.4 raw + 0.6 prev.
EmaNext(prev, raw) == IF prev = Null THEN raw ELSE (4 * raw + 6 * prev + 5) \div 10

IsLoadFresh(s) == load[s] # Null /\ age[s] <= Stale

\* Servers whose load has been stored, before checkLoadAlerts.
Alerting == {s \in Servers : poll[s] = "alert"}

\* The rows are read: busy servers are skipped as they are, unreachable ones lose
\* their streak, the others are polled.
BeginPass ==
    /\ phase = "idle"
    /\ phase' = "poll"
    /\ \E polled \in SUBSET Servers : \E unreachable \in SUBSET (Servers \ polled) :
          /\ poll' = [s \in Servers |-> IF s \in polled THEN "ssh" ELSE "idle"]
          /\ hot' = [s \in Servers |-> IF s \in unreachable THEN 0 ELSE hot[s]]
    /\ age' = [s \in Servers |-> Min({age[s] + 1, Stale + 1})]
    /\ UNCHANGED <<load, alarm, ema, cut, faults>>

\* mapLimit: at most Concurrency polls are under way together.  One is counted from
\* here on, when pollServer has its answers: the smoothed value is kept before it is stored.
Measure(s) ==
    /\ poll[s] = "ssh"
    /\ Cardinality({u \in Servers : poll[u] \in {"write", "alert"}}) < Concurrency
    /\ \E m \in Measures[s] :
          LET prev == IF ema[s] # Null THEN ema[s] ELSE load[s]
          IN  ema' = [ema EXCEPT ![s] = EmaNext(prev, Score(m))]
    /\ poll' = [poll EXCEPT ![s] = "write"]
    /\ UNCHANGED <<load, age, alarm, hot, phase, cut, faults>>

StoreLoad(s) ==
    /\ poll[s] = "write"
    /\ load' = [load EXCEPT ![s] = ema[s]]
    /\ age' = [age EXCEPT ![s] = 0]
    /\ poll' = [poll EXCEPT ![s] = "alert"]
    /\ cut' = cut \ {s}
    /\ UNCHANGED <<alarm, ema, hot, phase, faults>>

\* The incidents once s has been compared: opened by a full streak, resolved by a
\* load under the floor.
Compared(s) ==
    IF ema[s] >= Threshold /\ hot[s] + 1 >= Streak THEN alarm \cup {s}
    ELSE IF ema[s] < Threshold /\ ema[s] < Floor THEN alarm \ {s}
    ELSE alarm

\* Mutant of CheckLoadAlerts: an alert is resolved only from the streak in memory.
CheckLoadAlerts_OnlyIfHot(s) ==
    /\ poll[s] = "alert"
    /\ hot' = [hot EXCEPT ![s] = IF ema[s] >= Threshold THEN Min({@ + 1, Streak}) ELSE 0]
    /\ alarm' = IF ema[s] < Floor /\ hot[s] < Streak THEN alarm ELSE Compared(s)
    /\ poll' = [poll EXCEPT ![s] = "idle"]
    /\ UNCHANGED <<load, age, ema, phase, cut, faults>>

CheckLoadAlerts(s) ==
    /\ poll[s] = "alert"
    /\ hot' = [hot EXCEPT ![s] = IF ema[s] >= Threshold THEN Min({@ + 1, Streak}) ELSE 0]
    /\ alarm' = Compared(s)
    /\ poll' = [poll EXCEPT ![s] = "idle"]
    /\ UNCHANGED <<load, age, ema, phase, cut, faults>>

\* No connection, a timeout, no binary.
SshFails(s) ==
    /\ poll[s] = "ssh"
    /\ hot' = [hot EXCEPT ![s] = 0]
    /\ poll' = [poll EXCEPT ![s] = "idle"]
    /\ UNCHANGED <<load, age, alarm, ema, phase, cut, faults>>

\* A query of the poll fails: what was kept or stored before it stays, the incident
\* too that was opened or resolved before the rest of it failed.
PollFails(s) ==
    /\ poll[s] \in {"write", "alert"}
    /\ Fault
    /\ hot' = [hot EXCEPT ![s] = 0]
    /\ poll' = [poll EXCEPT ![s] = "idle"]
    /\ alarm' \in {alarm} \cup {Compared(u) : u \in {s} \cap Alerting}
    /\ cut' = cut \cup ({s} \cap Alerting)
    /\ UNCHANGED <<load, age, ema, phase>>

PollStep(s) == Measure(s) \/ StoreLoad(s) \/ CheckLoadAlerts(s)

\* The process dies and starts again: the maps are empty, the rows remain.
LoadCrash ==
    /\ Fault
    /\ ema' = [s \in Servers |-> Null]
    /\ hot' = [s \in Servers |-> 0]
    /\ poll' = [s \in Servers |-> "idle"]
    /\ phase' = "idle"
    /\ cut' = cut \cup Alerting
    /\ UNCHANGED <<load, age, alarm>>

-----------------------------------------------------------------------------
\* The open alerts say what the loads are: a streak that the process remembers has
\* raised one, also after failed attempts, and none outlives a stored load under the
\* floor, also across restarts, unless the poll that stored it was cut off there.
AlarmTruthful ==
    \A s \in Servers :
        /\ hot[s] = Streak => s \in alarm
        /\ (s \in alarm \ cut /\ poll[s] # "alert") => load[s] >= Floor
=============================================================================
