------------------------------- MODULE RateLimit -------------------------------
(***************************************************************************)
(* The in-memory limiter of the mobile API: a fixed window per device and  *)
(* one per IP address, both bumped by every request                        *)
(* (mobileRateLimitMiddleware), and the hourly prune of expired buckets.   *)
(* The middleware runs without an await, so a request is one step.         *)
(*                                                                         *)
(* All devices are behind one address.  In the code a count grows with     *)
(* every request of its window; here it stops at its maximum, which bounds *)
(* the model and changes no answer: a request that finds it reached is one *)
(* too many, however many came before.                                     *)
(***************************************************************************)
EXTENDS Integers

CONSTANTS
    Devices,     \* device ids behind the address
    IP,          \* the key of the address's own bucket
    Window,      \* RATE_LIMIT_WINDOW_MS in ticks
    DeviceMax,   \* RATE_LIMIT_MAX_REQUESTS
    IpMax        \* RATE_LIMIT_IP_MAX_REQUESTS

ASSUME RateLimitAssumption ==
    /\ IP \notin Devices
    /\ Window \in Nat /\ DeviceMax \in Nat \ {0} /\ IpMax \in Nat \ {0}

VARIABLES
    bucket,   \* rateLimitBuckets
    passed,   \* history: how many requests of each device, and of all behind the
              \* address, got through in this tick and the 0, 1, ... before it
    restarts  \* history: how often the process restarted in the same time

limiterVars == <<bucket, passed, restarts>>

Keys == Devices \cup {IP}
Maximum(k) == IF k = IP THEN IpMax ELSE DeviceMax

\* left: the ticks to resetAt, -1 when it has passed.
Bucket(k) == [there : BOOLEAN, count : 0 .. Maximum(k), left : -1 .. Window]
NoBucket == [there |-> FALSE, count |-> 0, left |-> -1]

LimiterTypeOK ==
    /\ DOMAIN bucket = Keys
    /\ \A k \in Keys : bucket[k] \in Bucket(k)
    /\ passed \in [Keys -> [0 .. Window -> Nat]]
    /\ restarts \in [0 .. Window -> Nat]

LimiterInit ==
    /\ bucket = [k \in Keys |-> NoBucket]
    /\ passed = [k \in Keys |-> [n \in 0 .. Window |-> 0]]
    /\ restarts = [n \in 0 .. Window |-> 0]

-----------------------------------------------------------------------------
Begun(k) == bucket[k].there /\ bucket[k].left >= 0

Counted(k) == IF Begun(k) THEN bucket[k].count ELSE 0

\* One more request, up to the maximum.
OneMore(k) == IF Counted(k) < Maximum(k) THEN Counted(k) + 1 ELSE Maximum(k)

\* Mutant of Bumped: every request pushes the end of the window further away.
Bumped_Extended(k) == [there |-> TRUE, count |-> OneMore(k), left |-> Window]

\* bumpBucket: a new or expired bucket starts a window with this request.
Bumped(k) ==
    [there |-> TRUE, count |-> OneMore(k),
     left |-> IF Begun(k) THEN bucket[k].left ELSE Window]

\* This request is one more than the maximum.
Over(k) == Counted(k) >= Maximum(k)

Bump(d) == bucket' = [bucket EXCEPT ![d] = Bumped(d), ![IP] = Bumped(IP)]

\* Both buckets count the request whichever of them is full.
Admit(d) ==
    /\ ~Over(d) /\ ~Over(IP)
    /\ Bump(d)
    /\ passed' = [k \in Keys |-> IF k \in {d, IP} THEN [n \in 0 .. Window |-> passed[k][n] + 1]
                                ELSE passed[k]]
    /\ UNCHANGED restarts

\* 429 with Retry-After
Limit(d) ==
    /\ Over(d) \/ Over(IP)
    /\ Bump(d)
    /\ UNCHANGED <<passed, restarts>>

\* Mutant of PruneBuckets: full buckets of the running window go too.
PruneBuckets_All ==
    /\ bucket' = [k \in Keys |-> NoBucket]
    /\ UNCHANGED <<passed, restarts>>

PruneBuckets ==
    /\ bucket' = [k \in Keys |-> IF bucket[k].left < 0 THEN NoBucket ELSE bucket[k]]
    /\ UNCHANGED <<passed, restarts>>

\* The history f one tick later.
Shifted(f) == [n \in 0 .. Window |-> IF n = 0 THEN 0 ELSE f[n - 1]]

LimiterTick ==
    /\ bucket' = [k \in Keys |-> IF bucket[k].left < 0 THEN bucket[k]
                                 ELSE [bucket[k] EXCEPT !.left = @ - 1]]
    /\ passed' = [k \in Keys |-> Shifted(passed[k])]
    /\ restarts' = Shifted(restarts)

\* A restart forgets every bucket; what got through before it has got through.
LimiterRestart ==
    /\ bucket' = [k \in Keys |-> NoBucket]
    /\ restarts' = [n \in 0 .. Window |-> restarts[n] + 1]
    /\ UNCHANGED passed

-----------------------------------------------------------------------------
\* However the requests fall, also across the end of a window and with a prune in
\* between, a device never gets more than two windows' worth through in the time
\* of one, nor do the devices behind one address together; every restart in that
\* time, which empties the buckets, lets one window's worth more through.
AtMostTwoWindows == \A k \in Keys : passed[k][Window] <= (2 + restarts[Window]) * Maximum(k)

\* Refused requests count but never push the end of a window away: however a device
\* goes on asking, its bucket and its address's are not full for ever.
NeverShutOut == \A k \in Keys : []<>~Over(k)
=============================================================================
