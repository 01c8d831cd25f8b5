---------------------------- MODULE SignedRequest ----------------------------
(***************************************************************************)
(* The replay guard of the signed mobile API: verifySignedRequest of       *)
(* mobileSecurityService.js, the ApiNonce table it writes, and the hourly  *)
(* purge of that table (connectionLogService.purgeExpiredNonces).          *)
(*                                                                         *)
(* A request is one signed header set: its X-Nonce and its X-Timestamp are *)
(* fixed when the client signs it, so a request stands for its nonce.  It  *)
(* may reach the server any number of times (client retries, proxies), and *)
(* every arrival is a verification of its own, which gives the event loop  *)
(* away at each await.  Whether device, session, body hash and signature   *)
(* are good is not what this module is about (module MobileSessions is):   *)
(* a verification may be refused for them at any of its awaits.            *)
(***************************************************************************)
EXTENDS Integers

CONSTANTS
    Requests,   \* signed requests; each has its own fresh X-Nonce
    Workers,    \* verifications that may be under way at the same time
    Skew,       \* REQUEST_CLOCK_SKEW_MS
    Rounding,   \* what a DATETIME column may add to or take from expires_at
    Margin,     \* an arrival is at least Margin later, on the server's clock,
                \* than its X-Timestamp; negative when client clocks run ahead
    MaxStall,   \* longest time from the timestamp check to the nonce insert
    Horizon     \* bound on the clock, so that TLC's state space is finite

ASSUME SignedRequestAssumption ==
    /\ Skew \in Nat
    /\ Rounding \in Nat
    /\ Margin \in Int
    /\ MaxStall \in Nat
    /\ Horizon \in Nat

NoTime == -(Horizon + Skew + Rounding + 1)   \* unsigned, or no row

VARIABLES
    now,        \* Date.now() of the server
    stamp,      \* X-Timestamp of each request, NoTime before it is signed
    rows,       \* expires_at of each nonce's ApiNonce row, NoTime when absent
    worker,     \* what each verification is doing
    executed    \* how often each request got past the middleware to its route

vars == <<now, stamp, rows, worker, executed>>

Clock == 0 .. Horizon
Stamps == {NoTime} \cup ((-Skew) .. (Horizon + Skew))
Expiries == {NoTime} \cup ((Skew - Rounding) .. (Horizon + Skew + Rounding))

Idle == [pc |-> "idle"]
Busy == [pc : {"lookup", "insert", "touch"}, req : Requests, began : Clock]

Doing(w, step) == worker[w].pc = step

TypeOK ==
    /\ now \in Clock
    /\ stamp \in [Requests -> Stamps]
    /\ rows \in [Requests -> Expiries]
    /\ worker \in [Workers -> {Idle} \cup Busy]
    /\ executed \in [Requests -> Nat]

Init ==
    /\ now = 0
    /\ stamp = [r \in Requests |-> NoTime]
    /\ rows = [r \in Requests |-> NoTime]
    /\ worker = [w \in Workers |-> Idle]
    /\ executed = [r \in Requests |-> 0]

-----------------------------------------------------------------------------
\* The client: signs a request, its clock off by up to Skew either way.
Sign(r) ==
    /\ stamp[r] = NoTime
    /\ \E t \in (now - Skew) .. (now + Skew) : stamp' = [stamp EXCEPT ![r] = t]
    /\ UNCHANGED <<now, rows, worker, executed>>

-----------------------------------------------------------------------------
\* The server.

InWindow(r) == stamp[r] - now <= Skew /\ now - stamp[r] <= Skew

Goto(w, step) == worker' = [worker EXCEPT ![w].pc = step]

\* A request arrives and passes the timestamp check; outside the window it is
\* answered 401 there and then and leaves no trace.
Arrive(w, r) ==
    /\ Doing(w, "idle")
    /\ stamp[r] # NoTime
    /\ now >= stamp[r] + Margin
    /\ InWindow(r)
    /\ worker' = [worker EXCEPT ![w] = [pc |-> "lookup", req |-> r, began |-> now]]
    /\ UNCHANGED <<now, stamp, rows, executed>>

\* The ApiNonce.findOne lookup finds no row for the nonce.
LookUp(w) ==
    /\ Doing(w, "lookup")
    /\ rows[worker[w].req] = NoTime
    /\ Goto(w, "insert")
    /\ UNCHANGED <<now, stamp, rows, executed>>

\* Mutants of InsertNonce: no unique index on the nonce; the challenge's
\* lifetime instead of the skew.
InsertNonce_NoIndex(w) ==
    LET r == worker[w].req
    IN  /\ Doing(w, "insert")
        /\ rows' = [rows EXCEPT ![r] = now + Skew]
        /\ Goto(w, "touch")
        /\ UNCHANGED <<now, stamp, executed>>

InsertNonce_LongLife(w) ==
    LET r == worker[w].req
    IN  /\ Doing(w, "insert")
        /\ rows[r] = NoTime
        /\ rows' = [rows EXCEPT ![r] = now + 5 * Skew]
        /\ Goto(w, "touch")
        /\ UNCHANGED <<now, stamp, executed>>

\* ApiNonce.create: the unique index lets only the first insert through.
InsertNonce(w) ==
    LET r == worker[w].req
    IN  /\ Doing(w, "insert")
        /\ rows[r] = NoTime
        /\ \E drift \in (-Rounding) .. Rounding :
              rows' = [rows EXCEPT ![r] = now + Skew + drift]
        /\ Goto(w, "touch")
        /\ UNCHANGED <<now, stamp, executed>>

\* device.update succeeds and next() runs the route.
Execute(w) ==
    /\ Doing(w, "touch")
    /\ executed' = [executed EXCEPT ![worker[w].req] = @ + 1]
    /\ worker' = [worker EXCEPT ![w] = Idle]
    /\ UNCHANGED <<now, stamp, rows>>

\* Any error thrown on the way: bad device, session, body hash or signature, a
\* nonce that is already there, a failing query.
Refuse(w) ==
    /\ ~ Doing(w, "idle")
    /\ worker' = [worker EXCEPT ![w] = Idle]
    /\ UNCHANGED <<now, stamp, rows, executed>>

\* cron, hourly: ApiNonce.destroy where expires_at < now.
PurgeExpiredNonces ==
    /\ rows' = [r \in Requests |-> IF rows[r] < now THEN NoTime ELSE rows[r]]
    /\ UNCHANGED <<now, stamp, worker, executed>>

\* The process dies: verifications are gone, the table stays.
Crash ==
    /\ worker' = [w \in Workers |-> Idle]
    /\ UNCHANGED <<now, stamp, rows, executed>>

\* Time passes; no verification is kept waiting for its insert beyond MaxStall.
Tick ==
    /\ now < Horizon
    /\ \A w \in Workers :
          (Doing(w, "lookup") \/ Doing(w, "insert")) => now < worker[w].began + MaxStall
    /\ now' = now + 1
    /\ UNCHANGED <<stamp, rows, worker, executed>>

Next ==
    \/ \E r \in Requests : Sign(r)
    \/ \E w \in Workers, r \in Requests : Arrive(w, r)
    \/ \E w \in Workers : LookUp(w) \/ InsertNonce(w) \/ Execute(w) \/ Refuse(w)
    \/ PurgeExpiredNonces
    \/ Crash
    \/ Tick

Spec == Init /\ [][Next]_vars

-----------------------------------------------------------------------------
\* However often and however concurrently a signed request is delivered, and
\* whenever the purge and crashes fall, its route runs at most once
\* (verifySignedRequest's nonce table).  It needs ClockMargin, below.
AtMostOnce == \A r \in Requests : executed[r] <= 1

\* When arrivals are later than their timestamps by at least the longest stall,
\* no row is purged while a delivery that passed the timestamp check can still
\* reach the insert.  Clients whose clock runs ahead break it.
ClockMargin == MaxStall + Rounding <= Margin
=============================================================================
