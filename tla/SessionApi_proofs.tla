--------------------------- MODULE SessionApi_proofs ---------------------------
(***************************************************************************)
(* The session endpoints behind the limiter: types, and what the legal     *)
(* record says, for any number of devices, tokens, handlers and sweeps.    *)
(***************************************************************************)
EXTENDS SessionApi, TLAPS

USE RateLimitAssumption, ConnectionLogAssumption

\* Restarts in the last n ticks each spare the requests of one window.
Spared(k, n) == restarts[n] * Maximum(k)

\* The limiter's part of the inductive invariant, for what got through in the last n
\* ticks.  While a window runs it is what that has counted, what was spared if n
\* reaches back to its beginning, and one earlier window if it reaches further;
\* when none runs, the latter two.
Tally(k) ==
    \A n \in 0 .. Window :
        IF Begun(k)
        THEN LET since == Window - bucket[k].left
             IN  passed[k][n] <= bucket[k].count + (IF n >= since THEN Spared(k, n) ELSE 0)
                                                 + (IF n > since THEN Maximum(k) ELSE 0)
        ELSE passed[k][n] <= Spared(k, n) + (IF n > 0 THEN Maximum(k) ELSE 0)

Counting == \A k \in Keys : Tally(k)

\* One more restart spares one maximum more.
LEMMA OneMoreSpared ==
    ASSUME NEW r \in Nat, NEW m \in Nat
    PROVE  r * m \in Nat /\ (r + 1) * m = r * m + m /\ (2 + r) * m = r * m + m + m
  OBVIOUS

LEMMA LimiterFields ==
    ASSUME LimiterTypeOK, NEW k \in Keys
    PROVE  /\ bucket[k] \in Bucket(k) /\ bucket[k].there \in BOOLEAN
           /\ bucket[k].count \in 0 .. Maximum(k) /\ bucket[k].left \in -1 .. Window
           /\ Maximum(k) \in Nat \ {0} /\ passed[k] \in [0 .. Window -> Nat]
           /\ 0 \in 0 .. Window /\ Window \in 0 .. Window
           /\ NoBucket \in Bucket(k)
BY DEF LimiterTypeOK, Bucket, NoBucket, Maximum, Keys

\* The same in numbers.
LEMMA LimiterNumbers ==
    ASSUME LimiterTypeOK, NEW k \in Keys
    PROVE  /\ Maximum(k) \in Nat /\ bucket[k].count \in Nat /\ bucket[k].count <= Maximum(k)
           /\ bucket[k].left \in -1 .. Window /\ 0 \in 0 .. Window /\ Window \in 0 .. Window
           /\ \A n \in 0 .. Window : passed[k][n] \in Nat
           /\ \A n \in 0 .. Window : restarts[n] \in Nat /\ Spared(k, n) \in Nat
<1>1. \A n \in 0 .. Window : passed[k][n] \in Nat
  BY LimiterFields
<1>2. Maximum(k) \in Nat /\ bucket[k].count \in 0 .. Maximum(k)
  BY LimiterFields
<1>3. bucket[k].left \in -1 .. Window
  BY LimiterFields
<1>4. \A n \in 0 .. Window : restarts[n] \in Nat
  BY DEF LimiterTypeOK
<1>5. \A n \in 0 .. Window : Spared(k, n) \in Nat
  BY <1>2, <1>4, OneMoreSpared DEF Spared
<1>6. QED BY <1>1, <1>2, <1>3, <1>4, <1>5

LEMMA LimiterInitOK == LimiterInit => LimiterTypeOK /\ Counting
<1> SUFFICES ASSUME LimiterInit PROVE LimiterTypeOK /\ Counting
  OBVIOUS
<1>1. \A k \in Keys : Maximum(k) \in Nat
  BY DEF Maximum, Keys
<1>2. \A k \in Keys : bucket[k] = NoBucket /\ NoBucket \in Bucket(k) /\ ~Begun(k)
  BY <1>1 DEF LimiterInit, NoBucket, Bucket, Begun
<1>3. DOMAIN bucket = Keys
  BY DEF LimiterInit
<1>4. passed \in [Keys -> [0 .. Window -> Nat]] /\ \A k \in Keys, n \in 0 .. Window : passed[k][n] = 0
  BY DEF LimiterInit
<1>5. restarts \in [0 .. Window -> Nat]
  BY DEF LimiterInit
<1>6. LimiterTypeOK
  BY <1>2, <1>3, <1>4, <1>5 DEF LimiterTypeOK
<1>7. \A k \in Keys, n \in 0 .. Window : 0 <= Spared(k, n) + (IF n > 0 THEN Maximum(k) ELSE 0)
  BY <1>6, LimiterNumbers
<1>8. Counting
  BY <1>2, <1>4, <1>7 DEF Counting, Tally
<1>9. QED BY <1>6, <1>8

\* A request is counted in a bucket of its type, in a window that runs.
LEMMA BumpedOK ==
    ASSUME LimiterTypeOK, NEW k \in Keys
    PROVE  /\ Bumped(k) \in Bucket(k)
           /\ Bumped(k).there /\ Bumped(k).left = IF Begun(k) THEN bucket[k].left ELSE Window
           /\ Bumped(k).left >= 0 /\ Bumped(k).count = OneMore(k)
           /\ Counted(k) \in 0 .. Maximum(k) /\ Counted(k) <= OneMore(k)
           /\ ~Over(k) => OneMore(k) = Counted(k) + 1
<1>1. bucket[k] \in Bucket(k) /\ Maximum(k) \in Nat \ {0}
  BY LimiterFields
<1>2. Counted(k) \in 0 .. Maximum(k)
  BY <1>1 DEF Counted, Bucket
<1>3. OneMore(k) \in 0 .. Maximum(k)
  BY <1>1, <1>2 DEF OneMore
<1>4. Bumped(k) \in Bucket(k)
  BY <1>1, <1>3 DEF Bumped, Bucket, Begun
<1>5. /\ Bumped(k).there /\ Bumped(k).left >= 0 /\ Bumped(k).count = OneMore(k)
      /\ Bumped(k).left = IF Begun(k) THEN bucket[k].left ELSE Window
  BY <1>1 DEF Bumped, Bucket, Begun
<1>6. QED BY <1>1, <1>2, <1>4, <1>5 DEF OneMore, Over

\* One more request of a key, let through only if the window has room for it.
LEMMA BumpCounts ==
    ASSUME LimiterTypeOK, NEW k \in Keys, Tally(k), bucket'[k] = Bumped(k),
           NEW more \in {0, 1}, more = 1 => ~Over(k), restarts' = restarts,
           \A n \in 0 .. Window : passed'[k][n] = passed[k][n] + more
    PROVE  Tally(k)'
<1>1. Maximum(k) \in Nat /\ bucket[k].left \in -1 .. Window
  BY LimiterNumbers
<1>2. Counted(k) \in Nat /\ OneMore(k) \in Nat /\ Counted(k) + more <= OneMore(k)
  <2>1. Counted(k) \in 0 .. Maximum(k) /\ Counted(k) <= OneMore(k) /\ (~Over(k) => OneMore(k) = Counted(k) + 1)
    BY BumpedOK
  <2>2. OneMore(k) \in Nat
    BY <1>1, <2>1 DEF OneMore
  <2>3. QED BY <2>1, <2>2
<1>3. /\ Begun(k)' /\ bucket'[k].count = OneMore(k)
      /\ bucket'[k].left = IF Begun(k) THEN bucket[k].left ELSE Window
  BY BumpedOK DEF Begun
<1>4. \A n \in 0 .. Window : Spared(k, n)' = Spared(k, n)
  BY DEF Spared
<1>5. ASSUME NEW n \in 0 .. Window
      PROVE  passed'[k][n] <= bucket'[k].count
                 + (IF n >= Window - bucket'[k].left THEN Spared(k, n) ELSE 0)
                 + (IF n > Window - bucket'[k].left THEN Maximum(k) ELSE 0)
  <2>1. passed[k][n] \in Nat /\ Spared(k, n) \in Nat /\ passed'[k][n] = passed[k][n] + more
    BY LimiterNumbers
  <2>2. CASE Begun(k)
    <3>1. passed[k][n] <= Counted(k) + (IF n >= Window - bucket[k].left THEN Spared(k, n) ELSE 0)
                                     + (IF n > Window - bucket[k].left THEN Maximum(k) ELSE 0)
      BY <2>2 DEF Tally, Counted
    <3>2. bucket'[k].left = bucket[k].left
      BY <1>3, <2>2
    <3>3. QED BY <1>1, <1>2, <1>3, <2>1, <3>1, <3>2
  <2>3. CASE ~Begun(k)
    <3>1. passed[k][n] <= Spared(k, n) + (IF n > 0 THEN Maximum(k) ELSE 0)
      BY <2>3 DEF Tally
    <3>2. bucket'[k].left = Window /\ Counted(k) = 0
      BY <1>3, <2>3 DEF Counted
    <3>3. QED BY <1>1, <1>2, <1>3, <2>1, <3>1, <3>2
  <2>4. QED BY <2>2, <2>3
<1>6. QED BY <1>3, <1>4, <1>5 DEF Tally

LEMMA RequestOK ==
    ASSUME LimiterTypeOK, Counting, NEW d \in Devices, Admit(d) \/ Limit(d)
    PROVE  LimiterTypeOK' /\ Counting'
<1> DEFINE bumped == [bucket EXCEPT ![d] = Bumped(d), ![IP] = Bumped(IP)]
<1>1. bucket' = bumped
  BY DEF Admit, Limit, Bump
<1>2. d \in Keys /\ IP \in Keys /\ d # IP
  BY DEF Keys
<1>3. /\ DOMAIN bucket' = Keys
      /\ bucket'[d] = Bumped(d) /\ bucket'[IP] = Bumped(IP)
      /\ \A k \in Keys \ {d, IP} : bucket'[k] = bucket[k]
  BY <1>1, <1>2 DEF LimiterTypeOK
<1>4. \A k \in Keys : bucket'[k] \in Bucket(k)
  BY <1>2, <1>3, BumpedOK DEF LimiterTypeOK
<1>5. PICK more \in {0, 1} :
        /\ more = 1 => ~Over(d) /\ ~Over(IP)
        /\ passed' \in [Keys -> [0 .. Window -> Nat]] /\ restarts' = restarts
        /\ \A k \in {d, IP}, n \in 0 .. Window : passed'[k][n] = passed[k][n] + more
        /\ \A k \in Keys \ {d, IP} : passed'[k] = passed[k]
  <2>1. CASE Admit(d)
    <3>1. passed' = [k \in Keys |-> IF k \in {d, IP} THEN [n \in 0 .. Window |-> passed[k][n] + 1] ELSE passed[k]]
      BY <2>1 DEF Admit
    <3>2. passed' \in [Keys -> [0 .. Window -> Nat]]
      BY <3>1, LimiterFields
    <3>3. ~Over(d) /\ ~Over(IP)
      BY <2>1 DEF Admit
    <3>4. \A k \in {d, IP}, n \in 0 .. Window : passed'[k][n] = passed[k][n] + 1
      BY <1>2, <3>1
    <3>5. \A k \in Keys \ {d, IP} : passed'[k] = passed[k]
      BY <3>1
    <3>6. restarts' = restarts
      BY <2>1 DEF Admit
    <3>7. QED BY <3>2, <3>3, <3>4, <3>5, <3>6
  <2>2. CASE Limit(d)
    <3>1. passed' = passed /\ restarts' = restarts /\ passed \in [Keys -> [0 .. Window -> Nat]]
      BY <2>2 DEF Limit, LimiterTypeOK
    <3>2. \A k \in {d, IP}, n \in 0 .. Window : passed'[k][n] = passed[k][n] + 0
      BY <1>2, <3>1
    <3>3. QED BY <3>1, <3>2
  <2>3. QED BY <2>1, <2>2
<1>6. ASSUME NEW k \in {d, IP} PROVE Tally(k)'
  BY <1>2, <1>3, <1>5, BumpCounts DEF Counting
<1>7. ASSUME NEW k \in Keys \ {d, IP} PROVE Tally(k)'
  <2>1. bucket'[k] = bucket[k] /\ passed'[k] = passed[k] /\ restarts' = restarts /\ Tally(k)
    BY <1>3, <1>5 DEF Counting
  <2>2. QED BY <2>1 DEF Tally, Begun, Spared
<1>8. QED BY <1>3, <1>4, <1>5, <1>6, <1>7 DEF LimiterTypeOK, Counting

LEMMA PruneOK ==
    ASSUME LimiterTypeOK, Counting, PruneBuckets PROVE LimiterTypeOK' /\ Counting'
<1>1. \A k \in Keys : bucket'[k] = IF bucket[k].left < 0 THEN NoBucket ELSE bucket[k]
  BY DEF PruneBuckets
<1>2. DOMAIN bucket' = Keys /\ UNCHANGED <<passed, restarts>> /\ \A k \in Keys : bucket'[k] \in Bucket(k)
  BY <1>1, LimiterFields DEF PruneBuckets
<1>3. ASSUME NEW k \in Keys PROVE Tally(k)'
  <2>1. CASE bucket[k].left < 0
    <3>1. ~Begun(k) /\ ~Begun(k)'
      BY <1>1, <2>1, LimiterFields DEF Begun, NoBucket
    <3>2. QED BY <1>2, <3>1 DEF Counting, Tally, Spared
  <2>2. CASE ~(bucket[k].left < 0)
    <3>1. bucket'[k] = bucket[k]
      BY <1>1, <2>2
    <3>2. QED BY <1>2, <3>1 DEF Counting, Tally, Begun, Spared
  <2>3. QED BY <2>1, <2>2
<1>4. QED BY <1>2, <1>3 DEF LimiterTypeOK, Counting

LEMMA LimiterTickOK ==
    ASSUME LimiterTypeOK, Counting, LimiterTick PROVE LimiterTypeOK' /\ Counting'
<1>1. \A k \in Keys : bucket'[k] = IF bucket[k].left < 0 THEN bucket[k]
                                   ELSE [bucket[k] EXCEPT !.left = @ - 1]
  BY DEF LimiterTick
<1>2. /\ \A k \in Keys : passed'[k] = [n \in 0 .. Window |-> IF n = 0 THEN 0 ELSE passed[k][n - 1]]
      /\ restarts' = [n \in 0 .. Window |-> IF n = 0 THEN 0 ELSE restarts[n - 1]]
  BY DEF LimiterTick, Shifted
<1>3. ASSUME NEW k \in Keys
      PROVE  /\ bucket'[k] \in Bucket(k)
             /\ ~(bucket[k].left < 0) => /\ bucket'[k].left = bucket[k].left - 1
                                         /\ bucket'[k].there = bucket[k].there
                                         /\ bucket'[k].count = bucket[k].count
  <2>1. CASE bucket[k].left < 0
    BY <1>1, <2>1, LimiterFields
  <2>2. CASE ~(bucket[k].left < 0)
    <3>1. bucket[k].left - 1 \in -1 .. Window
      BY <2>2, LimiterFields
    <3>2. bucket'[k] = [bucket[k] EXCEPT !.left = bucket[k].left - 1]
      BY <1>1, <2>2
    <3>3. QED BY <2>2, <3>1, <3>2, LimiterFields DEF Bucket
  <2>3. QED BY <2>1, <2>2
<1>4. ASSUME NEW k \in Keys
      PROVE  /\ passed'[k] \in [0 .. Window -> Nat] /\ passed'[k][0] = 0
             /\ \A n \in 1 .. Window : n - 1 \in 0 .. Window /\ passed'[k][n] = passed[k][n - 1]
  <2>1. \A n \in 1 .. Window : n - 1 \in 0 .. Window /\ n \in 0 .. Window /\ n # 0
    OBVIOUS
  <2>2. \A n \in 0 .. Window : passed[k][n] \in Nat
    BY LimiterNumbers
  <2>3. \A n \in 0 .. Window : n # 0 => n - 1 \in 0 .. Window
    OBVIOUS
  <2>4. passed'[k] = [n \in 0 .. Window |-> IF n = 0 THEN 0 ELSE passed[k][n - 1]]
    BY <1>2
  <2>5. passed'[k] \in [0 .. Window -> Nat]
    BY <2>2, <2>3, <2>4
  <2>6. passed'[k][0] = 0
    BY <2>4, LimiterNumbers
  <2>7. \A n \in 1 .. Window : passed'[k][n] = passed[k][n - 1]
    BY <2>1, <2>4
  <2>8. QED BY <2>1, <2>5, <2>6, <2>7
<1>5. /\ restarts' \in [0 .. Window -> Nat]
      /\ \A k \in Keys, n \in 1 .. Window : Spared(k, n)' = Spared(k, n - 1)
  <2>1. \A n \in 0 .. Window : restarts[n] \in Nat /\ (n # 0 => n - 1 \in 0 .. Window)
    BY DEF LimiterTypeOK
  <2>2. restarts' \in [0 .. Window -> Nat]
    BY <1>2, <2>1
  <2>3. \A n \in 1 .. Window : restarts'[n] = restarts[n - 1]
    <3>1. \A n \in 1 .. Window : n \in 0 .. Window /\ n # 0
      OBVIOUS
    <3>2. QED BY <1>2, <3>1
  <2>4. QED BY <2>2, <2>3 DEF Spared
<1>6. ASSUME NEW k \in Keys, NEW n \in 0 .. Window
      PROVE  /\ bucket'[k].count \in Nat /\ Maximum(k) \in Nat
             /\ Spared(k, n)' \in Nat /\ passed'[k][n] \in Nat
             /\ bucket[k].left \in -1 .. Window /\ bucket'[k].left \in -1 .. Window
  <2>1. Maximum(k) \in Nat /\ bucket[k].left \in -1 .. Window
    BY LimiterNumbers
  <2>2. bucket'[k].count \in 0 .. Maximum(k) /\ bucket'[k].left \in -1 .. Window
    BY <1>3 DEF Bucket
  <2>3. restarts'[n] \in Nat /\ passed'[k][n] \in Nat
    BY <1>4, <1>5
  <2>4. Spared(k, n)' \in Nat
    BY <2>1, <2>3, OneMoreSpared DEF Spared
  <2>5. QED BY <2>1, <2>2, <2>3, <2>4
<1>7. ASSUME NEW k \in Keys PROVE Tally(k)'
  <2>1. CASE Begun(k) /\ bucket[k].left # 0
    <3>1. /\ Begun(k)' /\ bucket'[k].left = bucket[k].left - 1
          /\ bucket'[k].count = bucket[k].count
      BY <1>3, <2>1, LimiterFields DEF Begun
    <3>2. ASSUME NEW n \in 0 .. Window
          PROVE  passed'[k][n] <= bucket'[k].count
                     + (IF n >= Window - bucket'[k].left THEN Spared(k, n)' ELSE 0)
                     + (IF n > Window - bucket'[k].left THEN Maximum(k) ELSE 0)
      <4>1. CASE n = 0
        BY <1>4, <1>6, <4>1
      <4>2. CASE n # 0
        <5>1. n - 1 \in 0 .. Window /\ n \in 1 .. Window
          BY <4>2
        <5>2. passed'[k][n] = passed[k][n - 1] /\ Spared(k, n)' = Spared(k, n - 1)
          BY <1>4, <1>5, <5>1
        <5>3. passed[k][n - 1] <= bucket[k].count
                  + (IF n - 1 >= Window - bucket[k].left THEN Spared(k, n - 1) ELSE 0)
                  + (IF n - 1 > Window - bucket[k].left THEN Maximum(k) ELSE 0)
          BY <2>1, <5>1 DEF Counting, Tally
        <5>4. QED BY <1>6, <3>1, <5>1, <5>2, <5>3
      <4>3. QED BY <4>1, <4>2
    <3>3. QED BY <3>1, <3>2 DEF Tally
  <2>2. CASE ~(Begun(k) /\ bucket[k].left # 0)
    <3>1. ~Begun(k)'
      <4>1. CASE bucket[k].left < 0
        <5>1. bucket'[k] = bucket[k]
          BY <1>1, <4>1
        <5>2. bucket[k].left \in -1 .. Window
          BY LimiterNumbers
        <5>3. QED BY <4>1, <5>1, <5>2 DEF Begun
      <4>2. CASE bucket[k].left = 0
        <5>1. bucket'[k].left = -1
          BY <1>3, <4>2
        <5>2. QED BY <5>1 DEF Begun
      <4>3. CASE bucket[k].left > 0
        <5>1. ~bucket[k].there
          BY <2>2, <4>3, LimiterNumbers DEF Begun
        <5>2. bucket'[k].there = bucket[k].there
          BY <1>3, <4>3, LimiterNumbers
        <5>3. QED BY <5>1, <5>2 DEF Begun
      <4>4. QED BY <4>1, <4>2, <4>3, LimiterNumbers
    <3>2. ASSUME NEW n \in 0 .. Window
          PROVE  passed'[k][n] <= Spared(k, n)' + (IF n > 0 THEN Maximum(k) ELSE 0)
      <4>1. CASE n = 0
        BY <1>4, <1>6, <4>1
      <4>2. CASE n # 0
        <5>1. n - 1 \in 0 .. Window /\ n \in 1 .. Window /\ n - 1 < Window
          BY <4>2
        <5>2. passed'[k][n] = passed[k][n - 1] /\ Spared(k, n)' = Spared(k, n - 1)
          BY <1>4, <1>5, <5>1
        <5>3. bucket[k].count \in Nat /\ bucket[k].count <= Maximum(k)
          BY LimiterNumbers
        <5>4. CASE Begun(k)
          <6>1. bucket[k].left = 0
            BY <2>2, <5>4
          <6>2. passed[k][n - 1] <= bucket[k].count
                    + (IF n - 1 >= Window - bucket[k].left THEN Spared(k, n - 1) ELSE 0)
                    + (IF n - 1 > Window - bucket[k].left THEN Maximum(k) ELSE 0)
            BY <5>1, <5>4 DEF Counting, Tally
          <6>3. QED BY <1>6, <5>1, <5>2, <5>3, <6>1, <6>2
        <5>5. CASE ~Begun(k)
          <6>1. passed[k][n - 1] <= Spared(k, n - 1) + (IF n - 1 > 0 THEN Maximum(k) ELSE 0)
            BY <5>1, <5>5 DEF Counting, Tally
          <6>2. QED BY <1>6, <5>1, <5>2, <6>1
        <5>6. QED BY <5>4, <5>5
      <4>3. QED BY <4>1, <4>2
    <3>3. QED BY <3>1, <3>2 DEF Tally
  <2>3. QED BY <2>1, <2>2
<1>8. passed' \in [Keys -> [0 .. Window -> Nat]] /\ DOMAIN bucket' = Keys
  BY <1>4 DEF LimiterTick
<1>9. QED BY <1>3, <1>5, <1>7, <1>8 DEF LimiterTypeOK, Counting

\* A restart forgets what the buckets counted, at most one maximum each.
LEMMA LimiterRestartOK ==
    ASSUME LimiterTypeOK, Counting, LimiterRestart PROVE LimiterTypeOK' /\ Counting'
<1>1. /\ passed' = passed /\ restarts' = [n \in 0 .. Window |-> restarts[n] + 1]
      /\ bucket' = [k \in Keys |-> NoBucket]
  BY DEF LimiterRestart
<1>2. LimiterTypeOK'
  <2>1. \A n \in 0 .. Window : restarts[n] + 1 \in Nat
    BY DEF LimiterTypeOK
  <2>2. restarts' \in [0 .. Window -> Nat]
    BY <1>1, <2>1
  <2>3. \A k \in Keys : NoBucket \in Bucket(k)
    BY LimiterFields
  <2>4. QED BY <1>1, <2>2, <2>3 DEF LimiterTypeOK
<1>3. ASSUME NEW k \in Keys PROVE Tally(k)'
  <2>1. ~Begun(k)'
    BY <1>1 DEF Begun, NoBucket
  <2>2. ASSUME NEW n \in 0 .. Window
        PROVE  passed'[k][n] <= Spared(k, n)' + (IF n > 0 THEN Maximum(k) ELSE 0)
    <3>1. Maximum(k) \in Nat /\ restarts[n] \in Nat /\ Spared(k, n) \in Nat
      BY LimiterNumbers
    <3>2. Spared(k, n)' = Spared(k, n) + Maximum(k)
      <4>1. restarts'[n] = restarts[n] + 1
        BY <1>1
      <4>2. QED BY <3>1, <4>1, OneMoreSpared DEF Spared
    <3>3. passed[k][n] \in Nat /\ bucket[k].count \in Nat /\ bucket[k].count <= Maximum(k)
      BY LimiterNumbers
    <3>4. bucket[k].left \in -1 .. Window
      BY LimiterNumbers
    <3>5. CASE Begun(k)
      <4>1. passed[k][n] <= bucket[k].count
                + (IF n >= Window - bucket[k].left THEN Spared(k, n) ELSE 0)
                + (IF n > Window - bucket[k].left THEN Maximum(k) ELSE 0)
        BY <3>5 DEF Counting, Tally
      <4>2. n > Window - bucket[k].left => n > 0
        BY <3>4
      <4>3. QED BY <1>1, <3>1, <3>2, <3>3, <4>1, <4>2
    <3>6. CASE ~Begun(k)
      <4>1. passed[k][n] <= Spared(k, n) + (IF n > 0 THEN Maximum(k) ELSE 0)
        BY <3>6 DEF Counting, Tally
      <4>2. QED BY <1>1, <3>1, <3>2, <3>3, <4>1
    <3>7. QED BY <3>5, <3>6
  <2>3. QED BY <2>1, <2>2 DEF Tally
<1>4. QED BY <1>2, <1>3 DEF Counting

\* What has got through in the time of a window: what the running one has counted,
\* one maximum for each restart, and at most one window's worth before it.
LEMMA TwoWindows == ASSUME LimiterTypeOK, Counting PROVE AtMostTwoWindows
<1> SUFFICES ASSUME NEW k \in Keys PROVE passed[k][Window] <= (2 + restarts[Window]) * Maximum(k)
  BY DEF AtMostTwoWindows
<1>1. /\ Maximum(k) \in Nat /\ bucket[k].count \in Nat /\ bucket[k].count <= Maximum(k)
      /\ Window \in 0 .. Window /\ passed[k][Window] \in Nat
      /\ restarts[Window] \in Nat /\ Spared(k, Window) \in Nat
  BY LimiterNumbers
<1>2. (2 + restarts[Window]) * Maximum(k) = Spared(k, Window) + Maximum(k) + Maximum(k)
  BY <1>1, OneMoreSpared DEF Spared
<1>3. CASE Begun(k)
  <2>1. passed[k][Window] <= bucket[k].count
            + (IF Window >= Window - bucket[k].left THEN Spared(k, Window) ELSE 0)
            + (IF Window > Window - bucket[k].left THEN Maximum(k) ELSE 0)
    BY <1>1, <1>3 DEF Counting, Tally
  <2>2. QED BY <1>1, <1>2, <2>1
<1>4. CASE ~Begun(k)
  <2>1. passed[k][Window] <= Spared(k, Window) + (IF Window > 0 THEN Maximum(k) ELSE 0)
    BY <1>1, <1>4 DEF Counting, Tally
  <2>2. QED BY <1>1, <1>2, <2>1
<1>5. QED BY <1>3, <1>4

-----------------------------------------------------------------------------
\* The log's part.  What a task holds was open when it found it.
Found ==
    \A t \in Tasks :
        /\ At(t, "close") => \E l \in Logs : task[t].held = {l}
        /\ task[t].pc \notin {"close", "sweep"} => task[t].held = {}

\* A row that is held and not shared has one holder and is open still.
HeldOpen ==
    \A l \in Logs \ shared : log[l].state # "none" =>
        \A t \in Tasks : Holds(t, l) =>
            Open(l) /\ \A u \in Tasks : Holds(u, l) => u = t

\* There is time for the duration that a task will write.
DurationFits ==
    \A t \in Tasks, l \in Logs :
        (Holds(t, l) /\ log[l].state # "none") =>
            /\ At(t, "close") => task[t].duration <= log[l].age
            /\ At(t, "sweep") => MaxAge <= log[l].age

\* A token that is not in use is clean.
Clean == \A l \in Logs : log[l].state = "none" => told[l] = {} /\ l \notin shared

LogInv ==
    /\ LogTypeOK
    /\ Found
    /\ HeldOpen
    /\ DurationFits
    /\ Clean
    /\ AnswersAgree
    /\ NeverTooLong

LEMMA LogInitOK == LogInit => LogInv
<1> SUFFICES ASSUME LogInit PROVE LogInv
  OBVIOUS
<1>1. LogTypeOK
  BY DEF LogInit, LogTypeOK, NoLog, Log, Idle, Task, Ages
<1>2. \A t \in Tasks : task[t].pc = "idle" /\ task[t].held = {}
  BY DEF LogInit, Idle
<1>3. \A l \in Logs : log[l].state = "none" /\ told[l] = {} /\ l \notin shared
  BY DEF LogInit, NoLog
<1>4. QED
  BY <1>1, <1>2, <1>3 DEF LogInv, Found, HeldOpen, DurationFits, Clean, AnswersAgree,
     NeverTooLong, Holds, At
\* Every step of the log keeps the types.
LEMMA LogTypeStep ==
    ASSUME LogTypeOK, Found,
           \/ \E t \in Tasks : ListStale(t) \/ LogStep(t) \/ LogQueryFails(t)
           \/ \E t \in Tasks, handler \in {"start", "find"} : BeginRequest(t, handler)
           \/ Purge \/ LogCrash \/ LogTick \/ UNCHANGED logVars
    PROVE  LogTypeOK'
<1> USE DEF LogTypeOK, Log, Task, Idle, NoLog
<1>1. /\ Idle \in Task /\ NoLog \in Log
      /\ \A l \in Logs : log[l] \in Log
      /\ \A t \in Tasks : task[t] \in Task
  BY DEF Ages
<1>2. ASSUME NEW t \in Tasks, NEW handler \in {"start", "find"}, BeginRequest(t, handler)
      PROVE LogTypeOK'
  <2>1. [task[t] EXCEPT !.pc = handler] \in Task
    BY <1>1
  <2>2. QED BY <1>2, <2>1 DEF BeginRequest
<1>3. ASSUME NEW t \in Tasks, StartLog(t) PROVE LogTypeOK'
  <2>1. [NoLog EXCEPT !.state = "open"] \in Log
    BY DEF Ages
  <2>2. QED BY <1>1, <1>3, <2>1 DEF StartLog
<1>4. ASSUME NEW t \in Tasks, NEW l \in Logs, FindLog(t, l) PROVE LogTypeOK'
  <2>1. log[l].age \in Ages /\ log[l].duration \in Ages
    BY <1>1
  <2>2. [pc |-> "close", held |-> {l}, duration |-> log[l].age] \in Task
    BY <2>1
  <2>3. (told[l] \cup {log[l].duration}) \in SUBSET Ages
    BY <2>1
  <2>4. QED BY <1>1, <1>4, <2>2, <2>3 DEF FindLog, Contended
<1>5. ASSUME NEW t \in Tasks, NotFound(t) \/ EndSweep(t) \/ LogQueryFails(t) PROVE LogTypeOK'
  BY <1>1, <1>5 DEF NotFound, EndSweep, LogQueryFails
<1>6. ASSUME NEW t \in Tasks, CloseLog(t) PROVE LogTypeOK'
  <2>1. PICK l \in Logs : task[t].held = {l}
    BY <1>6 DEF Found, CloseLog
  <2>2. (CHOOSE m \in task[t].held : TRUE) = l
    BY <2>1
  <2>3. task[t].duration \in Ages
    BY <1>1
  <2>4. Closed(l, "client", task[t].duration) \in Log
    BY <1>1, <2>3 DEF Closed
  <2>5. (told[l] \cup {task[t].duration}) \in SUBSET Ages
    BY <2>3
  <2>6. log' \in [Logs -> Log] /\ told' \in [Logs -> SUBSET Ages]
    BY <1>6, <2>2, <2>4, <2>5 DEF CloseLog
  <2>7. QED BY <1>1, <1>6, <2>6 DEF CloseLog
<1>7. ASSUME NEW t \in Tasks, ListStale(t) PROVE LogTypeOK'
  <2>1. \A S \in SUBSET Logs : [Idle EXCEPT !.pc = "sweep", !.held = S] \in Task
    BY <1>1
  <2>2. QED BY <1>7, <2>1 DEF ListStale, Contended
<1>8. ASSUME NEW t \in Tasks, NEW l \in Logs, SweepOne(t, l) PROVE LogTypeOK'
  <2>1. Closed(l, "timeout", MaxAge) \in Log
    <3>1. MaxAge \in Ages
      BY DEF Ages
    <3>2. QED BY <1>1, <3>1 DEF Closed
  <2>2. [task[t] EXCEPT !.held = @ \ {l}] \in Task
    BY <1>1
  <2>3. QED BY <1>8, <2>1, <2>2 DEF SweepOne
<1>9. CASE Purge
  BY <1>1, <1>9 DEF Purge
<1>10. CASE LogCrash
  BY <1>1, <1>10 DEF LogCrash
<1>11. CASE LogTick
  <2>1. ASSUME NEW l \in Logs
        PROVE [log[l] EXCEPT !.age = IF log[l].age > Retain THEN log[l].age ELSE log[l].age + 1] \in Log
    <3>1. (IF log[l].age > Retain THEN log[l].age ELSE log[l].age + 1) \in Ages
      BY <1>1 DEF Ages
    <3>2. QED BY <1>1, <3>1
  <2>2. QED BY <1>1, <1>11, <2>1 DEF LogTick
<1>12. CASE UNCHANGED logVars
  BY <1>12 DEF logVars
<1>13. QED
  BY <1>2, <1>3, <1>4, <1>5, <1>6, <1>7, <1>8, <1>9, <1>10, <1>11, <1>12 DEF LogStep
Rest == Found /\ HeldOpen /\ DurationFits /\ Clean /\ AnswersAgree /\ NeverTooLong

\* A task that lets go of what it holds disturbs nothing.
LEMMA LetsGo ==
    ASSUME LogInv, UNCHANGED <<log, told, shared>>,
           \A t \in Tasks : \/ task'[t] = task[t]
                            \/ task'[t].held = {} /\ task'[t].pc # "close"
    PROVE  Rest'
<1>1. \A t \in Tasks, l \in Logs : Holds(t, l)' => Holds(t, l) /\ task'[t] = task[t]
  BY DEF Holds
<1>2. Found'
  BY DEF LogInv, Found, At
<1>3. HeldOpen'
  BY <1>1 DEF LogInv, HeldOpen, Open
<1>4. DurationFits'
  BY <1>1 DEF LogInv, DurationFits, At
<1>5. QED BY <1>2, <1>3, <1>4 DEF Rest, LogInv, Clean, AnswersAgree, NeverTooLong

LEMMA StartLogOK == ASSUME LogInv, NEW t \in Tasks, StartLog(t) PROVE Rest'
<1> USE DEF LogInv, LogTypeOK
<1>1. PICK l \in Logs :
        /\ log[l].state = "none" /\ \A u \in Tasks : ~Holds(u, l)
        /\ log' = [log EXCEPT ![l] = [NoLog EXCEPT !.state = "open"]]
  BY DEF StartLog
<1>2. /\ log'[l].state = "open"
      /\ \A m \in Logs \ {l} : log'[m] = log[m]
      /\ UNCHANGED <<told, shared>> /\ told[l] = {}
  BY <1>1 DEF StartLog, NoLog, Clean
<1>3. \A u \in Tasks : task'[u] = task[u] \/ task'[u] = Idle
  BY DEF StartLog
<1>4. \A u \in Tasks, m \in Logs : Holds(u, m)' => Holds(u, m) /\ task'[u] = task[u] /\ m # l
  BY <1>1, <1>3 DEF Holds, Idle
<1>5. Found'
  BY <1>3 DEF Found, At, Idle
<1>6. HeldOpen' /\ DurationFits'
  BY <1>2, <1>4 DEF HeldOpen, DurationFits, Open, At
<1>7. Clean' /\ AnswersAgree' /\ NeverTooLong'
  BY <1>2 DEF Clean, AnswersAgree, NeverTooLong
<1>8. QED BY <1>5, <1>6, <1>7 DEF Rest

\* A stop that finds an open row is its only holder, or the row is shared from now on.
LEMMA FindLogOK == ASSUME LogInv, NEW t \in Tasks, NEW l \in Logs, FindLog(t, l) PROVE Rest'
<1> USE DEF LogInv, LogTypeOK
<1>1. log' = log /\ \A u \in Tasks \ {t} : task'[u] = task[u]
  BY DEF FindLog
<1>2. CASE Open(l)
  <2>1. /\ task'[t] = [pc |-> "close", held |-> {l}, duration |-> log[l].age]
        /\ shared' = shared \cup Contended(t, {l}) /\ told' = told
    BY <1>2 DEF FindLog, Open
  <2>2. Contended(t, {l}) \subseteq {l} /\ \A u \in Tasks \ {t} : Holds(u, l) => l \in shared'
    BY <2>1 DEF Contended
  <2>3. \A m \in Logs : Holds(t, m)' <=> m = l
    BY <2>1 DEF Holds
  <2>4. \A u \in Tasks \ {t}, m \in Logs : Holds(u, m)' <=> Holds(u, m)
    BY <1>1 DEF Holds
  <2>5. Found'
    BY <1>1, <2>1 DEF Found, At
  <2>6. HeldOpen'
    <3> SUFFICES ASSUME NEW m \in Logs \ shared', log[m].state # "none", NEW u \in Tasks, Holds(u, m)'
                 PROVE  Open(m) /\ \A v \in Tasks : Holds(v, m)' => v = u
      BY <1>1 DEF HeldOpen, Open
    <3>1. CASE m = l
      BY <1>2, <2>2, <2>4, <3>1
    <3>2. CASE m # l
      <4>1. m \notin shared /\ \A v \in Tasks : Holds(v, m)' => Holds(v, m)
        BY <2>1, <2>3, <2>4, <3>2
      <4>2. QED BY <4>1 DEF HeldOpen
    <3>3. QED BY <3>1, <3>2
  <2>7. DurationFits'
    <3> SUFFICES ASSUME NEW u \in Tasks, NEW m \in Logs, Holds(u, m)', log[m].state # "none"
                 PROVE  /\ At(u, "close")' => task'[u].duration <= log[m].age
                        /\ At(u, "sweep")' => MaxAge <= log[m].age
      BY <1>1 DEF DurationFits
    <3>1. CASE u = t
      <4>1. log[l].age \in Int
        BY DEF Log, Ages
      <4>2. QED BY <2>1, <2>3, <3>1, <4>1 DEF At
    <3>2. CASE u # t
      BY <1>1, <2>4, <3>2 DEF DurationFits, At
    <3>3. QED BY <3>1, <3>2
  <2>8. Clean' /\ AnswersAgree' /\ NeverTooLong'
    BY <1>1, <1>2, <2>1, <2>2 DEF Clean, AnswersAgree, NeverTooLong, Open
  <2>9. QED BY <2>5, <2>6, <2>7, <2>8 DEF Rest
<1>3. CASE ~Open(l)
  <2>1. /\ log[l].state = "closed" /\ shared' = shared
        /\ told' = [told EXCEPT ![l] = told[l] \cup {log[l].duration}]
        /\ task'[t] = Idle
    BY <1>3 DEF FindLog
  <2>2. \A u \in Tasks, m \in Logs : Holds(u, m)' => Holds(u, m) /\ task'[u] = task[u]
    BY <1>1, <2>1 DEF Holds, Idle
  <2>3. Found'
    BY <1>1, <2>1 DEF Found, At, Idle
  <2>4. HeldOpen' /\ DurationFits'
    BY <1>1, <2>1, <2>2 DEF HeldOpen, DurationFits, Open, At
  <2>5. Clean' /\ AnswersAgree' /\ NeverTooLong'
    BY <1>1, <2>1 DEF Clean, AnswersAgree, NeverTooLong
  <2>6. QED BY <2>3, <2>4, <2>5 DEF Rest
<1>4. QED BY <1>2, <1>3

\* Closing a row that nobody shares is the first that is told of it.
LEMMA CloseLogOK == ASSUME LogInv, NEW t \in Tasks, CloseLog(t) PROVE Rest'
<1> USE DEF LogInv, LogTypeOK
<1>1. PICK l \in Logs : task[t].held = {l}
  BY DEF Found, CloseLog
<1>2. (CHOOSE m \in task[t].held : TRUE) = l
  BY <1>1
<1>3. /\ task'[t] = Idle /\ \A u \in Tasks \ {t} : task'[u] = task[u]
      /\ shared' = shared /\ At(t, "close") /\ Holds(t, l)
  BY <1>1 DEF CloseLog, Holds
<1>4. \A m \in Logs \ {l} : log'[m] = log[m] /\ told'[m] = told[m]
  BY <1>2 DEF CloseLog
<1>5. \A u \in Tasks, m \in Logs : Holds(u, m)' => Holds(u, m) /\ task'[u] = task[u] /\ u # t
  BY <1>3 DEF Holds, Idle
<1>6. Found'
  BY <1>3 DEF Found, At, Idle
<1>7. CASE log[l].state = "none"
  <2>1. log' = log /\ told' = told
    BY <1>2, <1>7 DEF CloseLog
  <2>2. \A u \in Tasks : task'[u] = task[u] \/ (task'[u].held = {} /\ task'[u].pc # "close")
    BY <1>3 DEF Idle
  <2>3. QED BY <1>3, <2>1, <2>2, LetsGo
<1>8. CASE log[l].state # "none"
  <2>1. log'[l] = Closed(l, "client", task[t].duration) /\ told'[l] = told[l] \cup {task[t].duration}
    BY <1>2, <1>8 DEF CloseLog
  <2>2. log'[l].state = "closed" /\ log'[l].duration = task[t].duration /\ log'[l].age = log[l].age
    BY <2>1 DEF Closed, Log
  <2>3. task[t].duration <= log[l].age
    BY <1>3, <1>8 DEF DurationFits
  <2>4. l \notin shared => Open(l) /\ told[l] = {} /\ \A u \in Tasks \ {t} : ~Holds(u, l)
    BY <1>3, <1>8 DEF HeldOpen, AnswersAgree, Open
  <2>5. HeldOpen'
    BY <1>3, <1>4, <1>5, <2>4 DEF HeldOpen, Open
  <2>6. DurationFits'
    BY <1>3, <1>4, <1>5, <1>8, <2>2 DEF DurationFits, At
  <2>7. Clean' /\ NeverTooLong'
    BY <1>3, <1>4, <2>2, <2>3 DEF Clean, NeverTooLong
  <2>8. AnswersAgree'
    BY <1>3, <1>4, <2>1, <2>2, <2>4 DEF AnswersAgree
  <2>9. QED BY <1>6, <2>5, <2>6, <2>7, <2>8 DEF Rest
<1>9. QED BY <1>7, <1>8
\* A sweep holds only rows that have passed the cap.
LEMMA ListStaleOK == ASSUME LogInv, NEW t \in Tasks, ListStale(t) PROVE Rest'
<1> USE DEF LogInv, LogTypeOK
<1> DEFINE stale == {l \in Logs : Open(l) /\ log[l].age > MaxAge}
<1>1. /\ UNCHANGED <<log, told>> /\ \A u \in Tasks \ {t} : task'[u] = task[u]
      /\ task'[t] = [Idle EXCEPT !.pc = "sweep", !.held = stale]
      /\ shared' = shared \cup Contended(t, stale)
  BY DEF ListStale
<1>2. task'[t].pc = "sweep" /\ task'[t].held = stale
  BY <1>1 DEF Idle
<1>3. \A m \in Logs : Holds(t, m)' <=> m \in stale
  BY <1>2 DEF Holds
<1>4. \A u \in Tasks \ {t}, m \in Logs : /\ Holds(u, m)' <=> Holds(u, m)
                                         /\ Holds(u, m) /\ m \in stale => m \in shared'
  BY <1>1 DEF Holds, Contended
<1>5. Found'
  BY <1>1, <1>2 DEF Found, At
<1>6. HeldOpen'
  <2> SUFFICES ASSUME NEW m \in Logs \ shared', log[m].state # "none", NEW u \in Tasks, Holds(u, m)'
               PROVE  Open(m) /\ \A v \in Tasks : Holds(v, m)' => v = u
    BY <1>1 DEF HeldOpen, Open
  <2>1. CASE m \in stale
    BY <1>4, <2>1
  <2>2. CASE m \notin stale
    <3>1. m \notin shared /\ \A v \in Tasks : Holds(v, m)' => Holds(v, m)
      BY <1>1, <1>3, <1>4, <2>2
    <3>2. QED BY <3>1 DEF HeldOpen
  <2>3. QED BY <2>1, <2>2
<1>7. DurationFits'
  <2> SUFFICES ASSUME NEW u \in Tasks, NEW m \in Logs, Holds(u, m)', log[m].state # "none"
               PROVE  /\ At(u, "close")' => task'[u].duration <= log[m].age
                      /\ At(u, "sweep")' => MaxAge <= log[m].age
    BY <1>1 DEF DurationFits
  <2>1. CASE u = t
    <3>1. log[m].age \in Int
      BY DEF Log, Ages
    <3>2. QED BY <1>2, <1>3, <2>1, <3>1 DEF At
  <2>2. CASE u # t
    BY <1>1, <1>4, <2>2 DEF DurationFits, At
  <2>3. QED BY <2>1, <2>2
<1>8. Clean' /\ AnswersAgree' /\ NeverTooLong'
  BY <1>1 DEF Clean, AnswersAgree, NeverTooLong, Contended, Open
<1>9. QED BY <1>5, <1>6, <1>7, <1>8 DEF Rest

LEMMA SweepOneOK == ASSUME LogInv, NEW t \in Tasks, NEW l \in Logs, SweepOne(t, l) PROVE Rest'
<1> USE DEF LogInv, LogTypeOK
<1>1. /\ UNCHANGED <<told, shared>> /\ \A u \in Tasks \ {t} : task'[u] = task[u]
      /\ task'[t] = [task[t] EXCEPT !.held = task[t].held \ {l}]
      /\ At(t, "sweep") /\ Holds(t, l)
  BY DEF SweepOne
<1>2. task'[t].pc = "sweep" /\ task'[t].held = task[t].held \ {l}
  BY <1>1 DEF Task, At
<1>3. \A u \in Tasks, m \in Logs : Holds(u, m)' => Holds(u, m) /\ (u # t \/ m # l)
  BY <1>1, <1>2 DEF Holds
<1>4. \A u \in Tasks : /\ At(u, "close")' => At(u, "close") /\ task'[u].duration = task[u].duration
                       /\ At(u, "sweep")' => At(u, "sweep")
  BY <1>1, <1>2 DEF At
<1>5. \A m \in Logs \ {l} : log'[m] = log[m]
  BY DEF SweepOne
<1>6. Found'
  BY <1>1, <1>2 DEF Found, At
<1>7. CASE log[l].state = "none"
  <2>1. log' = log
    BY <1>7 DEF SweepOne
  <2>2. HeldOpen'
    BY <1>1, <1>3, <2>1 DEF HeldOpen, Open
  <2>3. DurationFits'
    BY <1>3, <1>4, <2>1 DEF DurationFits
  <2>4. QED BY <1>1, <1>6, <2>1, <2>2, <2>3 DEF Rest, Clean, AnswersAgree, NeverTooLong
<1>8. CASE log[l].state # "none"
  <2>1. log'[l] = Closed(l, "timeout", MaxAge)
    BY <1>8 DEF SweepOne
  <2>2. log'[l].state = "closed" /\ log'[l].duration = MaxAge /\ log'[l].age = log[l].age
    BY <2>1 DEF Closed, Log
  <2>3. MaxAge <= log[l].age
    BY <1>1, <1>8 DEF DurationFits
  <2>4. l \notin shared => told[l] = {} /\ \A u \in Tasks \ {t} : ~Holds(u, l)
    BY <1>1, <1>8 DEF HeldOpen, AnswersAgree, Open
  <2>5. HeldOpen'
    BY <1>1, <1>3, <1>5, <2>4 DEF HeldOpen, Open
  <2>6. DurationFits'
    BY <1>3, <1>5, <1>8, <1>4, <2>2 DEF DurationFits
  <2>7. Clean' /\ NeverTooLong'
    BY <1>1, <1>5, <2>2, <2>3 DEF Clean, NeverTooLong
  <2>8. AnswersAgree'
    BY <1>1, <1>5, <2>4 DEF AnswersAgree
  <2>9. QED BY <1>6, <2>5, <2>6, <2>7, <2>8 DEF Rest
<1>9. QED BY <1>7, <1>8

LEMMA PurgeOK == ASSUME LogInv, Purge PROVE Rest'
<1> USE DEF LogInv, LogTypeOK
<1> DEFINE old == {l \in Logs : log[l].state # "none" /\ log[l].age > Retain}
<1>1. /\ task' = task /\ shared' = shared \ old
      /\ \A l \in old : log'[l] = NoLog /\ told'[l] = {}
      /\ \A l \in Logs \ old : log'[l] = log[l] /\ told'[l] = told[l]
  BY DEF Purge
<1>2. \A l \in old : log'[l].state = "none"
  BY <1>1 DEF NoLog
<1>3. \A t \in Tasks, l \in Logs : Holds(t, l)' <=> Holds(t, l)
  BY <1>1 DEF Holds
<1>4. Found' /\ HeldOpen' /\ DurationFits'
  BY <1>1, <1>2, <1>3 DEF Found, HeldOpen, DurationFits, At, Open
<1>5. Clean' /\ AnswersAgree' /\ NeverTooLong'
  BY <1>1, <1>2 DEF Clean, AnswersAgree, NeverTooLong
<1>6. QED BY <1>4, <1>5 DEF Rest

\* Rows only grow older, and what fitted before fits still.
LEMMA LogTickOK == ASSUME LogInv, LogTick PROVE Rest'
<1> USE DEF LogInv, LogTypeOK
<1>1. UNCHANGED <<task, told, shared>>
  BY DEF LogTick
<1>2. ASSUME NEW l \in Logs
      PROVE  /\ log'[l].state = log[l].state /\ log'[l].duration = log[l].duration
             /\ log[l].age \in Int /\ log'[l].age \in Int /\ log[l].age <= log'[l].age
             /\ log[l].duration \in Int
  <2>1. log[l] \in Log
    OBVIOUS
  <2>2. CASE log[l].state = "none"
    BY <2>1, <2>2 DEF LogTick, Log, Ages
  <2>3. CASE log[l].state # "none"
    <3>1. log'[l] = [log[l] EXCEPT !.age = IF log[l].age > Retain THEN log[l].age ELSE log[l].age + 1]
      BY <2>3 DEF LogTick
    <3>2. QED BY <2>1, <3>1 DEF Log, Ages
  <2>4. QED BY <2>2, <2>3
<1>3. \A t \in Tasks : task[t].duration \in Int
  BY DEF Task, Ages
<1>4. DurationFits' /\ NeverTooLong'
  BY <1>1, <1>2, <1>3 DEF DurationFits, NeverTooLong, Holds, At
<1>5. Found' /\ HeldOpen' /\ Clean' /\ AnswersAgree'
  BY <1>1, <1>2 DEF Found, HeldOpen, Clean, AnswersAgree, Holds, At, Open
<1>6. QED BY <1>4, <1>5 DEF Rest

LEMMA LogInvStep ==
    ASSUME LogInv,
           \/ \E t \in Tasks : ListStale(t) \/ LogStep(t) \/ LogQueryFails(t)
           \/ \E t \in Tasks, handler \in {"start", "find"} : BeginRequest(t, handler)
           \/ Purge \/ LogCrash \/ LogTick \/ UNCHANGED logVars
    PROVE  LogInv'
<1>1. LogTypeOK'
  BY LogTypeStep DEF LogInv
<1>2. ASSUME NEW t \in Tasks, NEW handler \in {"start", "find"}, BeginRequest(t, handler) PROVE Rest'
  <2>1. task \in [Tasks -> Task] /\ task[t].held = {}
    BY <1>2 DEF LogInv, LogTypeOK, Found, BeginRequest, At
  <2>2. task'[t].held = {} /\ task'[t].pc # "close" /\ \A u \in Tasks \ {t} : task'[u] = task[u]
    BY <1>2, <2>1 DEF BeginRequest, Task
  <2>3. QED BY <1>2, <2>2, LetsGo DEF BeginRequest
<1>3. ASSUME NEW t \in Tasks, NotFound(t) \/ EndSweep(t) \/ LogQueryFails(t) PROVE Rest'
  <2>1. \A u \in Tasks : task'[u] = task[u] \/ task'[u] = Idle
    BY <1>3 DEF NotFound, EndSweep, LogQueryFails, LogInv, LogTypeOK
  <2>2. UNCHANGED <<log, told, shared>>
    BY <1>3 DEF NotFound, EndSweep, LogQueryFails
  <2>3. QED BY <2>1, <2>2, LetsGo DEF Idle
<1>4. ASSUME LogCrash PROVE Rest'
  <2>1. UNCHANGED <<log, told, shared>>
    BY <1>4 DEF LogCrash
  <2>2. \A u \in Tasks : task'[u].held = {} /\ task'[u].pc # "close"
    BY <1>4 DEF LogCrash, Idle
  <2>3. QED BY <2>1, <2>2, LetsGo
<1>5. ASSUME UNCHANGED logVars PROVE Rest'
  <2>1. UNCHANGED <<log, told, shared>> /\ task' = task
    BY <1>5 DEF logVars
  <2>2. QED BY <2>1, LetsGo
<1>6. ASSUME NEW t \in Tasks, ListStale(t) \/ LogStep(t) PROVE Rest'
  BY <1>3, <1>6, StartLogOK, FindLogOK, CloseLogOK, ListStaleOK, SweepOneOK DEF LogStep
<1>7. Rest'
  BY <1>2, <1>3, <1>4, <1>5, <1>6, PurgeOK, LogTickOK
<1>8. QED BY <1>1, <1>7 DEF LogInv, Rest

-----------------------------------------------------------------------------
\* The inductive invariant of the composition: each part keeps its own.
IInv == LimiterTypeOK /\ Counting /\ LogInv

LEMMA LimiterStep ==
    ASSUME LimiterTypeOK, Counting, [Next]_vars PROVE LimiterTypeOK' /\ Counting'
<1>1. CASE UNCHANGED limiterVars
  BY <1>1 DEF limiterVars, LimiterTypeOK, Counting, Tally, Begun, Spared
<1>2. QED
  BY <1>1, LimiterRestartOK, RequestOK, PruneOK, LimiterTickOK
     DEF Next, vars, Request, OtherRequest, Prune, Crash, Tick

LEMMA LogPartStep == ASSUME LogInv, [Next]_vars PROVE LogInv'
  BY LogInvStep DEF Next, vars, Request, OtherRequest, Prune, Crash, Tick

\* Every reachable state satisfies the inductive invariant.
THEOREM Invariance == Spec => []IInv
<1>1. Init => IInv
  BY LimiterInitOK, LogInitOK DEF Init, IInv
<1>2. IInv /\ [Next]_vars => IInv'
  BY LimiterStep, LogPartStep DEF IInv
<1>3. QED BY <1>1, <1>2, PTL DEF Spec

\* The limiter and the log keep their types in every instance: durations are among
\* the ages that a row can have, and no bucket runs longer than a window.
THEOREM TypeCorrect == Spec => []TypeOK
<1>1. IInv => TypeOK
  BY DEF IInv, LogInv, TypeOK
<1>2. QED BY <1>1, Invariance, PTL

\* For any window and any number of devices, neither a device nor the address gets
\* more than two windows' worth through in the time of one: the fixed window lets a
\* burst at its end meet one at the beginning of the next, and no more than that.
\* Only restarts add to it, at most one window's worth each.
THEOREM AtMostTwoWindowsHolds == Spec => []AtMostTwoWindows
<1>1. IInv => AtMostTwoWindows
  BY TwoWindows DEF IInv
<1>2. QED BY <1>1, Invariance, PTL

\* All stops of a session are answered with the duration on record, unless a stop
\* or sweep met another that held the open row.
THEOREM AnswersAgreeHolds == Spec => []AnswersAgree
<1>1. IInv => AnswersAgree
  BY DEF IInv, LogInv
<1>2. QED BY <1>1, Invariance, PTL

\* No record claims a longer session than there was time for since it began.
THEOREM NeverTooLongHolds == Spec => []NeverTooLong
<1>1. IInv => NeverTooLong
  BY DEF IInv, LogInv
<1>2. QED BY <1>1, Invariance, PTL
=============================================================================
