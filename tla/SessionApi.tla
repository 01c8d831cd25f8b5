------------------------------ MODULE SessionApi ------------------------------
(***************************************************************************)
(* POST /v1/sessions/start and /stop: the limiter in front of the          *)
(* connection log, on one clock.  A request passes the limiter at once and *)
(* is then verified (SignedRequest, not repeated here) and handled; a      *)
(* request that is refused never reaches the log.                          *)
(***************************************************************************)
EXTENDS RateLimit, ConnectionLog

vars == <<limiterVars, logVars>>

TypeOK == LimiterTypeOK /\ LogTypeOK

Init == LimiterInit /\ LogInit

Request(d) ==
    \/ /\ Admit(d)
       /\ \E t \in Tasks, handler \in {"start", "find"} : BeginRequest(t, handler)
    \/ /\ Limit(d)
       /\ UNCHANGED logVars

Prune == PruneBuckets /\ UNCHANGED logVars

\* The other endpoints of /v1 pass the same limiter.
OtherRequest(d) == Admit(d) /\ UNCHANGED logVars

Crash == LimiterRestart /\ LogCrash

Tick == LimiterTick /\ LogTick

Next ==
    \/ \E d \in Devices : Request(d) \/ OtherRequest(d)
    \/ Prune
    \/ \E t \in Tasks : (ListStale(t) \/ LogStep(t) \/ LogQueryFails(t)) /\ UNCHANGED limiterVars
    \/ Purge /\ UNCHANGED limiterVars
    \/ Crash
    \/ Tick

Spec == Init /\ [][Next]_vars

\* Time passes, queries end, and cron starts its sweep every hour, whatever
\* requests keep the model's few tasks busy.
FairSpec ==
    /\ Spec
    /\ WF_vars(Tick)
    /\ \A t \in Tasks : WF_vars(LogStep(t) /\ UNCHANGED limiterVars)
    /\ SF_vars(\E t \in Tasks : ListStale(t) /\ UNCHANGED limiterVars)
=============================================================================
