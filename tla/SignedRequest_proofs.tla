------------------------ MODULE SignedRequest_proofs ------------------------
(***************************************************************************)
(* Under ClockMargin a signed request runs at most once, for every number  *)
(* of requests and of concurrent verifications and for every clock bound.  *)
(***************************************************************************)
EXTENDS SignedRequest, TLAPS

USE SignedRequestAssumption

\* A verification before its insert: when it began, the timestamp was inside
\* the window and Margin old, and it is not older than MaxStall.
Timely ==
    \A w \in Workers : (Doing(w, "lookup") \/ Doing(w, "insert")) =>
        LET r == worker[w].req
            b == worker[w].began
        IN  /\ stamp[r] # NoTime
            /\ stamp[r] + Margin <= b
            /\ b <= stamp[r] + Skew
            /\ b <= now
            /\ now <= b + MaxStall

\* A request whose nonce was inserted by a verification that still counts.
Spent(r) == executed[r] # 0 \/ \E w \in Workers : Doing(w, "touch") /\ worker[w].req = r

\* The last instant a row of r's first insert may be expected to last.
Closing(r) == stamp[r] + Margin + Skew - Rounding

\* The nonce of a spent request is in the table until Closing(r) has passed.
Guarded ==
    \A r \in Requests : Spent(r) =>
        /\ stamp[r] # NoTime
        /\ (rows[r] # NoTime /\ rows[r] >= Closing(r)) \/ now > Closing(r)

\* One verification at a time is past the insert, and none once r has run.
Exclusive ==
    \A w \in Workers : Doing(w, "touch") =>
        /\ executed[worker[w].req] = 0
        /\ \A v \in Workers :
              (Doing(v, "touch") /\ worker[v].req = worker[w].req) => v = w

IInv == TypeOK /\ Timely /\ Guarded /\ Exclusive /\ AtMostOnce

\* Every step keeps the types.
LEMMA TypeStep == TypeOK /\ [Next]_vars => TypeOK'
<1> SUFFICES ASSUME TypeOK, [Next]_vars PROVE TypeOK'
  OBVIOUS
<1> USE DEF TypeOK, Doing, Goto, Idle, Busy
<1>1. ASSUME NEW r \in Requests, Sign(r) PROVE TypeOK'
  <2>1. stamp' \in [Requests -> Stamps]
    BY <1>1 DEF Sign, Stamps, Clock
  <2>2. QED BY <1>1, <2>1 DEF Sign
<1>2. ASSUME NEW w \in Workers, NEW r \in Requests, Arrive(w, r) PROVE TypeOK'
  BY <1>2 DEF Arrive
<1>3. ASSUME NEW w \in Workers, LookUp(w) PROVE TypeOK'
  BY <1>3 DEF LookUp
<1>4. ASSUME NEW w \in Workers, InsertNonce(w) PROVE TypeOK'
  <2>1. worker[w] \in Busy /\ worker[w].req \in Requests
    BY <1>4 DEF InsertNonce
  <2>2. rows' \in [Requests -> Expiries]
    BY <1>4, <2>1 DEF InsertNonce, Expiries, Clock
  <2>3. worker' \in [Workers -> {Idle} \cup Busy]
    BY <1>4, <2>1 DEF InsertNonce
  <2>4. QED BY <1>4, <2>2, <2>3 DEF InsertNonce
<1>5. ASSUME NEW w \in Workers, Execute(w) PROVE TypeOK'
  BY <1>5 DEF Execute
<1>6. ASSUME NEW w \in Workers, Refuse(w) PROVE TypeOK'
  BY <1>6 DEF Refuse
<1>7. CASE PurgeExpiredNonces
  BY <1>7 DEF PurgeExpiredNonces, Expiries
<1>8. CASE Crash
  BY <1>8 DEF Crash
<1>9. CASE Tick
  BY <1>9 DEF Tick, Clock
<1>10. CASE UNCHANGED vars
  BY <1>10 DEF vars
<1>11. QED
  BY <1>1, <1>2, <1>3, <1>4, <1>5, <1>6, <1>7, <1>8, <1>9, <1>10 DEF Next

\* The variables keep their types in every behaviour of the replay guard.
THEOREM TypeCorrect == Spec => []TypeOK
<1>1. Init => TypeOK
  BY DEF Init, TypeOK, Clock, Stamps, Expiries, Idle, Busy, NoTime
<1>2. QED BY <1>1, TypeStep, PTL DEF Spec

-----------------------------------------------------------------------------
\* A verification is timely until its insert: time does not outrun it.
LEMMA TimelyStep == TypeOK /\ Timely /\ [Next]_vars => Timely'
<1> SUFFICES ASSUME TypeOK, Timely, [Next]_vars PROVE Timely'
  OBVIOUS
<1> USE DEF TypeOK, Doing, Goto, Idle, Busy, Timely
<1>1. ASSUME NEW r \in Requests, Sign(r) PROVE Timely'
  <2>1. \A w \in Workers : (Doing(w, "lookup") \/ Doing(w, "insert")) =>
            worker[w].req \in Requests /\ worker[w].req # r
    BY <1>1 DEF Sign
  <2>2. QED BY <1>1, <2>1 DEF Sign
<1>2. ASSUME NEW w \in Workers, NEW r \in Requests, Arrive(w, r) PROVE Timely'
  <2>1. /\ stamp[r] \in Int /\ now \in Int
        /\ stamp[r] # NoTime /\ stamp[r] + Margin <= now /\ now <= stamp[r] + Skew
    BY <1>2 DEF Arrive, InWindow, Stamps, Clock, NoTime
  <2>2. QED BY <1>2, <2>1 DEF Arrive, Clock
<1>3. ASSUME NEW w \in Workers, LookUp(w) PROVE Timely'
  BY <1>3 DEF LookUp
<1>4. ASSUME NEW w \in Workers, InsertNonce(w) PROVE Timely'
  BY <1>4 DEF InsertNonce
<1>5. ASSUME NEW w \in Workers, Execute(w) \/ Refuse(w) PROVE Timely'
  BY <1>5 DEF Execute, Refuse
<1>6. CASE PurgeExpiredNonces
  BY <1>6 DEF PurgeExpiredNonces
<1>7. CASE Crash
  BY <1>7 DEF Crash
<1>8. CASE Tick
  <2>1. \A w \in Workers : (Doing(w, "lookup") \/ Doing(w, "insert")) =>
            worker[w].began \in Clock
    OBVIOUS
  <2>2. QED BY <1>8, <2>1 DEF Tick, Clock
<1>9. CASE UNCHANGED vars
  BY <1>9 DEF vars
<1>10. QED
  BY <1>1, <1>2, <1>3, <1>4, <1>5, <1>6, <1>7, <1>8, <1>9 DEF Next

\* The heart of the matter: when the clocks leave room for the longest stall, a
\* verification can only insert a nonce whose request has not been spent, since
\* the row of a spent one outlives every verification that is still timely.
LEMMA InsertUnspent ==
    ASSUME ClockMargin, TypeOK, Timely, Guarded, NEW w \in Workers, InsertNonce(w)
    PROVE  ~ Spent(worker[w].req)
<1> DEFINE r == worker[w].req
<1>1. r \in Requests /\ worker[w].began \in Clock
  BY DEF TypeOK, InsertNonce, Doing, Idle, Busy
<1>2. rows[r] = NoTime
  BY DEF InsertNonce
<1>3. now <= worker[w].began + MaxStall /\ worker[w].began <= stamp[r] + Skew
  BY DEF Timely, InsertNonce, Doing
<1>4. now \in Int /\ stamp[r] \in Int /\ worker[w].began \in Int
  BY <1>1 DEF TypeOK, Stamps, Clock, NoTime
<1>5. ~ now > Closing(r)
  BY <1>3, <1>4 DEF Closing, ClockMargin
<1>6. QED
  BY <1>1, <1>2, <1>5 DEF Guarded

\* Every step of the replay guard keeps the rows of spent requests for as long
\* as they are needed.
LEMMA GuardedStep == ClockMargin /\ IInv /\ [Next]_vars => Guarded'
<1> SUFFICES ASSUME ClockMargin, IInv, [Next]_vars PROVE Guarded'
  OBVIOUS
<1> USE DEF IInv, TypeOK, Doing, Goto, Idle, Busy, Guarded, Spent, Closing
<1>1. ASSUME NEW r \in Requests, Sign(r) PROVE Guarded'
  BY <1>1 DEF Sign
<1>2. ASSUME NEW w \in Workers, NEW r \in Requests, Arrive(w, r) PROVE Guarded'
  BY <1>2 DEF Arrive
<1>3. ASSUME NEW w \in Workers, LookUp(w) PROVE Guarded'
  BY <1>3 DEF LookUp
<1>4. ASSUME NEW w \in Workers, InsertNonce(w) PROVE Guarded'
  <2> DEFINE q == worker[w].req
  <2>1. q \in Requests /\ worker[w] \in Busy
    BY <1>4 DEF InsertNonce
  <2>2. stamp[q] # NoTime /\ stamp[q] + Margin <= now
    <3>1. stamp[q] + Margin <= worker[w].began /\ worker[w].began <= now /\ stamp[q] # NoTime
      BY <1>4 DEF Timely, InsertNonce
    <3>2. stamp[q] \in Int /\ worker[w].began \in Int /\ now \in Int
      BY <2>1 DEF Stamps, Clock, NoTime
    <3>3. QED BY <3>1, <3>2
  <2>3. rows'[q] # NoTime /\ rows'[q] >= stamp[q] + Margin + Skew - Rounding
    <3>1. PICK drift \in (-Rounding) .. Rounding :
              rows' = [rows EXCEPT ![q] = now + Skew + drift]
      BY <1>4 DEF InsertNonce
    <3>2. stamp[q] \in Int /\ now \in Nat /\ now <= Horizon
      BY <2>1 DEF Stamps, Clock, NoTime
    <3>3. QED BY <2>1, <2>2, <3>1, <3>2 DEF NoTime
  <2>4. ASSUME NEW p \in Requests, p # q, Spent(p)' PROVE Spent(p) /\ rows'[p] = rows[p]
    BY <1>4, <2>1, <2>4 DEF InsertNonce
  <2>5. stamp' = stamp /\ now' = now
    BY <1>4 DEF InsertNonce
  <2>6. QED BY <2>2, <2>3, <2>4, <2>5
<1>5. ASSUME NEW w \in Workers, Execute(w) PROVE Guarded'
  <2>1. \A r \in Requests : Spent(r)' => Spent(r)
    BY <1>5 DEF Execute
  <2>2. QED BY <1>5, <2>1 DEF Execute
<1>6. ASSUME NEW w \in Workers, Refuse(w) PROVE Guarded'
  BY <1>6 DEF Refuse
<1>7. CASE PurgeExpiredNonces
  <2>1. ASSUME NEW r \in Requests, Spent(r)'
        PROVE  /\ stamp'[r] # NoTime
               /\ (rows'[r] # NoTime /\ rows'[r] >= Closing(r)) \/ now > Closing(r)
    <3>1. Spent(r)
      BY <1>7, <2>1 DEF PurgeExpiredNonces
    <3>2. stamp[r] \in Int /\ now \in Int /\ rows[r] \in Int
      BY DEF Stamps, Clock, Expiries, NoTime
    <3>3. QED BY <1>7, <3>1, <3>2 DEF PurgeExpiredNonces
  <2>2. QED BY <1>7, <2>1 DEF PurgeExpiredNonces
<1>8. CASE Crash
  BY <1>8 DEF Crash
<1>9. CASE Tick
  <2>1. ASSUME NEW r \in Requests PROVE stamp[r] \in Int /\ now \in Int
    BY DEF Stamps, Clock, NoTime
  <2>2. QED BY <1>9, <2>1 DEF Tick
<1>10. CASE UNCHANGED vars
  BY <1>10 DEF vars
<1>11. QED
  BY <1>1, <1>2, <1>3, <1>4, <1>5, <1>6, <1>7, <1>8, <1>9, <1>10 DEF Next

\* Every step keeps at most one verification between insert and route, and none
\* for a request that has run.
LEMMA OnceStep == ClockMargin /\ IInv /\ [Next]_vars => Exclusive' /\ AtMostOnce'
<1> SUFFICES ASSUME ClockMargin, IInv, [Next]_vars PROVE Exclusive' /\ AtMostOnce'
  OBVIOUS
<1> USE DEF IInv, TypeOK, Doing, Goto, Idle, Busy, Exclusive, AtMostOnce
<1>1. ASSUME NEW r \in Requests, Sign(r) PROVE Exclusive' /\ AtMostOnce'
  BY <1>1 DEF Sign
<1>2. ASSUME NEW w \in Workers, NEW r \in Requests, Arrive(w, r)
      PROVE  Exclusive' /\ AtMostOnce'
  BY <1>2 DEF Arrive
<1>3. ASSUME NEW w \in Workers, LookUp(w) PROVE Exclusive' /\ AtMostOnce'
  BY <1>3 DEF LookUp
<1>4. ASSUME NEW w \in Workers, InsertNonce(w) PROVE Exclusive' /\ AtMostOnce'
  <2>1. ~ Spent(worker[w].req)
    BY <1>4, InsertUnspent
  <2>2. QED BY <1>4, <2>1 DEF InsertNonce, Spent
<1>5. ASSUME NEW w \in Workers, Execute(w) PROVE Exclusive' /\ AtMostOnce'
  <2>1. executed[worker[w].req] = 0 /\ worker[w].req \in Requests
    BY <1>5 DEF Execute
  <2>2. AtMostOnce'
    BY <1>5, <2>1 DEF Execute
  <2>3. \A v \in Workers : v # w /\ Doing(v, "touch") => worker[v].req # worker[w].req
    BY <1>5 DEF Execute
  <2>4. Exclusive'
    BY <1>5, <2>1, <2>3 DEF Execute
  <2>5. QED BY <2>2, <2>4
<1>6. ASSUME NEW w \in Workers, Refuse(w) PROVE Exclusive' /\ AtMostOnce'
  BY <1>6 DEF Refuse
<1>7. CASE PurgeExpiredNonces
  BY <1>7 DEF PurgeExpiredNonces
<1>8. CASE Crash
  BY <1>8 DEF Crash
<1>9. CASE Tick
  BY <1>9 DEF Tick
<1>10. CASE UNCHANGED vars
  BY <1>10 DEF vars
<1>11. QED
  BY <1>1, <1>2, <1>3, <1>4, <1>5, <1>6, <1>7, <1>8, <1>9, <1>10 DEF Next

\* A signed request runs its route at most once, whatever is retried, delayed,
\* purged or lost in a crash, provided arrivals lag their timestamps by at least
\* the longest stall between timestamp check and nonce insert.
THEOREM AtMostOnceHolds ==
    ASSUME ClockMargin PROVE Spec => []AtMostOnce
<1>1. Init => IInv
  BY DEF Init, IInv, TypeOK, Clock, Stamps, Expiries, Idle, Busy, NoTime, Timely,
         Guarded, Spent, Exclusive, AtMostOnce, Doing
<1>2. IInv /\ [Next]_vars => IInv'
  BY ClockMargin, TypeStep, TimelyStep, GuardedStep, OnceStep DEF IInv
<1>3. IInv => AtMostOnce
  BY DEF IInv
<1>4. QED BY <1>1, <1>2, <1>3, PTL DEF Spec
=============================================================================
