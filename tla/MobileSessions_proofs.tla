------------------------ MODULE MobileSessions_proofs ------------------------
(***************************************************************************)
(* The invariants of MobileSessions for every number of devices,           *)
(* challenges, concurrent calls and sessions.                              *)
(***************************************************************************)
EXTENDS MobileSessions, TLAPS

USE MobileSessionsAssumption

-----------------------------------------------------------------------------
\* How calls, sessions, challenges and devices hang together: every token and
\* challenge a call or a session refers to exists and is of the same device.
WiredTables ==
    /\ \A c \in Challenges : challenge[c].used => challenge[c].dev # None
    /\ delivered \subseteq 1 .. issued
    /\ \A s \in 1 .. issued :
          /\ session[s].dev \in Devices
          /\ session[s].parent <= issued
          /\ session[s].chal # None => challenge[session[s].chal].dev = session[s].dev
          /\ session[s].parent # 0 => session[session[s].parent].dev = session[s].dev

WiredCalls ==
    \A k \in Calls :
        /\ call[k].par <= issued
        /\ call[k].sid <= issued
        /\ call[k].pc = "idle" => call[k] = Idle
        /\ call[k].pc # "idle" => call[k].dev \in Devices
        /\ call[k].chal # None => challenge[call[k].chal].dev = call[k].dev
        /\ call[k].par # 0 => session[call[k].par].dev = call[k].dev
        /\ call[k].pc \in ExchangeSteps => call[k].chal # None /\ call[k].par = 0
        /\ call[k].pc \in RefreshSteps => call[k].chal = None /\ call[k].par # 0
        /\ call[k].pc \in {"secret", "reply"} =>
              /\ call[k].sid # 0 /\ call[k].chal = None
              /\ session[call[k].sid].dev = call[k].dev
        /\ call[k].pc = "insert" => call[k].chal # None \/ call[k].par # 0
        /\ call[k].pc \in VerifySteps => call[k].par # 0

Wired == WiredTables /\ WiredCalls

-----------------------------------------------------------------------------
\* The records of calls are closed under the updates the actions make.
LEMMA CallUpdates ==
    /\ Idle \in CallRecord
    /\ \A r \in CallRecord, p \in Steps : [r EXCEPT !.pc = p] \in CallRecord
    /\ \A r \in CallRecord, p \in Steps, v \in {"none", "ok", "system"} :
          [r EXCEPT !.pc = p, !.verdict = v] \in CallRecord
    /\ \A r \in CallRecord, p \in Steps, b \in BOOLEAN :
          [r EXCEPT !.pc = p, !.marked = b] \in CallRecord
    /\ \A r \in CallRecord, p \in Steps :
          [r EXCEPT !.pc = p, !.verdict = "none", !.marked = FALSE] \in CallRecord
    /\ \A r \in CallRecord, p \in Steps, s \in SessionOrNone :
          [r EXCEPT !.pc = p, !.sid = s, !.chal = None] \in CallRecord
    /\ \A r \in CallRecord, b \in BOOLEAN : [r EXCEPT !.alone = b] \in CallRecord
<1> USE DEF CallRecord
<1>1. Idle \in CallRecord
  BY DEF Idle, Steps, SessionOrNone
<1>2. ASSUME NEW r \in CallRecord, NEW p \in Steps PROVE [r EXCEPT !.pc = p] \in CallRecord
  OBVIOUS
<1>3. ASSUME NEW r \in CallRecord, NEW p \in Steps, NEW v \in {"none", "ok", "system"}
      PROVE  [r EXCEPT !.pc = p, !.verdict = v] \in CallRecord
  OBVIOUS
<1>4. ASSUME NEW r \in CallRecord, NEW p \in Steps, NEW b \in BOOLEAN
      PROVE  [r EXCEPT !.pc = p, !.marked = b] \in CallRecord
  OBVIOUS
<1>5. ASSUME NEW r \in CallRecord, NEW p \in Steps
      PROVE  [r EXCEPT !.pc = p, !.verdict = "none", !.marked = FALSE] \in CallRecord
  OBVIOUS
<1>6. ASSUME NEW r \in CallRecord, NEW p \in Steps, NEW s \in SessionOrNone
      PROVE  [r EXCEPT !.pc = p, !.sid = s, !.chal = None] \in CallRecord
  OBVIOUS
<1>7. ASSUME NEW r \in CallRecord, NEW b \in BOOLEAN PROVE [r EXCEPT !.alone = b] \in CallRecord
  OBVIOUS
<1>8. QED BY <1>1, <1>2, <1>3, <1>4, <1>5, <1>6, <1>7 DEF Steps

\* So are the rows of the three tables.
LEMMA RowUpdates ==
    /\ \A r \in ChallengeRow : [r EXCEPT !.used = TRUE] \in ChallengeRow
    /\ \A d \in Devices : [dev |-> d, used |-> FALSE] \in ChallengeRow
    /\ \A r \in DeviceRow, a \in {"absent", "never", "recent", "old"} :
          [r EXCEPT !.attested = a] \in DeviceRow
    /\ \A r \in DeviceRow, b \in BOOLEAN : [r EXCEPT !.degraded = b] \in DeviceRow
    /\ \A r \in DeviceRow, b \in BOOLEAN :
          [r EXCEPT !.attested = "recent", !.degraded = b] \in DeviceRow
    /\ \A r \in DeviceRow, s \in SessionOrNone : [r EXCEPT !.secret = s] \in DeviceRow
    /\ \A r \in SessionRow : [r EXCEPT !.revoked = TRUE] \in SessionRow
    /\ \A r \in CallRecord :
          [dev |-> r.dev, chal |-> r.chal, parent |-> r.par, solo |-> r.alone,
           revoked |-> FALSE] \in SessionRow
BY DEF ChallengeRow, DeviceRow, SessionRow, CallRecord, SessionOrNone

\* A call's record after a step that only moves it on, in the form the provers use.
LEMMA CallStep ==
    ASSUME TypeOK, NEW k \in Calls, NEW r \in CallRecord, call' = [call EXCEPT ![k] = r]
    PROVE  call' \in [Calls -> CallRecord]
BY DEF TypeOK

LEMMA GotoStep ==
    ASSUME TypeOK, NEW k \in Calls, NEW p \in Steps, Goto(k, p)
    PROVE  call' \in [Calls -> CallRecord]
<1>1. call[k] \in CallRecord
  BY DEF TypeOK
<1>2. [call[k] EXCEPT !.pc = p] \in CallRecord
  BY <1>1, CallUpdates
<1>3. call' = [call EXCEPT ![k] = [call[k] EXCEPT !.pc = p]]
  BY DEF Goto
<1>4. QED BY <1>2, <1>3, CallStep

\* The beginning of an issuing call.
LEMMA BeginStep ==
    ASSUME TypeOK, NEW k \in Calls, NEW d \in Devices, NEW f \in CallRecord, Begin(k, d, f)
    PROVE  call' \in [Calls -> CallRecord] /\ reliable' \in [Devices -> SessionOrNone]
<1> DEFINE others == IssuingFor(d)
<1>1. call' = [j \in Calls |-> IF j = k THEN [f EXCEPT !.alone = (others = {})]
                               ELSE IF j \in others THEN [call[j] EXCEPT !.alone = FALSE]
                               ELSE call[j]]
  BY DEF Begin
<1>2. [f EXCEPT !.alone = (others = {})] \in CallRecord
  BY CallUpdates, (others = {}) \in BOOLEAN, Zenon
<1>3. \A j \in Calls : call[j] \in CallRecord /\ [call[j] EXCEPT !.alone = FALSE] \in CallRecord
  BY CallUpdates DEF TypeOK
<1>4. reliable' = IF others = {} THEN reliable ELSE [reliable EXCEPT ![d] = 0]
  BY DEF Begin
<1>5. 0 \in SessionOrNone
  BY DEF SessionOrNone
<1> HIDE DEF others
<1>6. call' \in [Calls -> CallRecord]
  BY <1>1, <1>2, <1>3
<1>7. reliable' \in [Devices -> SessionOrNone]
  BY <1>4, <1>5 DEF TypeOK
<1>8. QED BY <1>6, <1>7

\* Every step keeps the types.
LEMMA TypeStep == TypeOK /\ Wired /\ [Next]_vars => TypeOK'
<1> SUFFICES ASSUME TypeOK, Wired, [Next]_vars PROVE TypeOK'
  OBVIOUS
<1> USE DEF TypeOK, At, UseChallenge
<1>0. {"idle", "x_device", "x_seen", "x_attest", "x_use", "x_row", "x_stamp", "r_session",
       "r_revoke", "insert", "secret", "reply", "v_session", "v_sign", "v_serve"} \subseteq Steps
  BY DEF Steps, ExchangeSteps, RefreshSteps, IssueSteps, VerifySteps
<1>a. ASSUME NEW k \in Calls
      PROVE  /\ call[k] \in CallRecord
             /\ call[k].pc # "idle" => call[k].dev \in Devices
             /\ call[k].pc \in ExchangeSteps => call[k].chal \in Challenges
             /\ call[k].sid \in SessionOrNone
             /\ call[k].par \in SessionOrNone
             /\ call[k].pc = "r_revoke" => call[k].par \in Sessions
  BY DEF CallRecord, Wired, WiredCalls, RefreshSteps, SessionOrNone, Sessions
<1>b. ASSUME NEW d \in Devices
      PROVE  /\ device[d] \in DeviceRow
             /\ device[d].degraded \in BOOLEAN
             /\ device[d].secret \in SessionOrNone
  BY DEF DeviceRow
<1>c. 0 \in SessionOrNone /\ \A s \in Sessions : s \in SessionOrNone
  BY DEF SessionOrNone, Sessions
<1>d. ASSUME NEW s \in delivered
      PROVE  s \in Sessions /\ session[s].dev \in Devices /\ session[s].revoked \in BOOLEAN
  BY DEF SessionRow, Wired, WiredTables
<1>e. ASSUME NEW k \in Calls PROVE [call EXCEPT ![k] = Idle] \in [Calls -> CallRecord]
  BY CallUpdates
<1>1. ASSUME NEW c \in Challenges, NEW d \in Devices, CreateChallenge(c, d) PROVE TypeOK'
  BY <1>1, RowUpdates DEF CreateChallenge
<1>2. ASSUME NEW k \in Calls, NEW c \in Challenges, Exchange(k, c) PROVE TypeOK'
  <2>1. challenge[c].dev \in Devices
    BY <1>2 DEF ChallengeRow, Exchange
  <2>2. [Idle EXCEPT !.pc = "x_device", !.dev = challenge[c].dev, !.chal = c] \in CallRecord
    BY <2>1, <1>0, <1>c DEF Idle, CallRecord
  <2>3. QED BY BeginStep, <1>2, <2>1, <2>2 DEF Exchange
<1>3. ASSUME NEW k \in Calls, NEW s \in Sessions, Refresh(k, s) PROVE TypeOK'
  <2>1. session[s].dev \in Devices
    BY <1>3, <1>d DEF Refresh
  <2>2. [Idle EXCEPT !.pc = "r_session", !.dev = session[s].dev, !.par = s] \in CallRecord
    BY <2>1, <1>0, <1>c DEF Idle, CallRecord
  <2>3. QED BY BeginStep, <1>3, <2>1, <2>2 DEF Refresh
<1>4. ASSUME NEW k \in Calls, NEW s \in Sessions, Verify(k, s) PROVE TypeOK'
  <2> DEFINE r == [Idle EXCEPT !.pc = "v_session", !.dev = session[s].dev, !.par = s,
                      !.key = device[session[s].dev].secret, !.stale = session[s].revoked]
  <2>1. session[s].dev \in Devices /\ session[s].revoked \in BOOLEAN
    BY <1>4, <1>d DEF Verify
  <2>2. r \in CallRecord
    BY <2>1, <1>0, <1>b, <1>c DEF Idle, CallRecord
  <2>3. call' \in [Calls -> CallRecord]
    BY <2>2, <1>4, CallStep DEF Verify
  <2>4. QED BY <2>3, <1>4 DEF Verify
<1>5. ASSUME NEW k \in Calls, ExchangeDevice(k) PROVE TypeOK'
  <2>1. call' \in [Calls -> CallRecord]
    BY <1>5, <1>0, GotoStep DEF ExchangeDevice
  <2>2. QED BY <1>5, <2>1 DEF ExchangeDevice
<1>6. ASSUME NEW k \in Calls, ThrottledUse(k) \/ AttestedUse(k) PROVE TypeOK'
  <2>1. call' \in [Calls -> CallRecord]
    BY <1>6, <1>0, GotoStep DEF ThrottledUse, AttestedUse
  <2>2. call[k].chal \in Challenges /\ [challenge[call[k].chal] EXCEPT !.used = TRUE] \in ChallengeRow
    BY <1>6, <1>a, RowUpdates DEF ThrottledUse, AttestedUse, ExchangeSteps
  <2>3. challenge' \in [Challenges -> ChallengeRow]
    BY <1>6, <2>2 DEF ThrottledUse, AttestedUse
  <2>4. QED BY <1>6, <2>1, <2>3 DEF ThrottledUse, AttestedUse
<1>7. ASSUME NEW k \in Calls, Attest(k) PROVE TypeOK'
  <2>1. PICK v \in {"ok", "system"} :
            /\ call' = [call EXCEPT ![k].pc = "x_use", ![k].verdict = v]
            /\ vouched' = IF v = "ok" THEN vouched \cup {call[k].dev} ELSE vouched
    BY <1>7 DEF Attest
  <2>2. call' = [call EXCEPT ![k] = [call[k] EXCEPT !.pc = "x_use", !.verdict = v]]
    BY <2>1
  <2>3. [call[k] EXCEPT !.pc = "x_use", !.verdict = v] \in CallRecord
    BY <1>0, <1>a, CallUpdates
  <2>4. call' \in [Calls -> CallRecord]
    BY <2>2, <2>3, CallStep
  <2>5. call[k].dev \in Devices
    BY <1>7, <1>a DEF Attest
  <2>6. QED BY <1>7, <2>1, <2>4, <2>5 DEF Attest
<1>8. ASSUME NEW k \in Calls, FindOrCreateDevice(k) PROVE TypeOK'
  <2> DEFINE d == call[k].dev
  <2>1. d \in Devices /\ device[d].degraded \in BOOLEAN
    BY <1>8, <1>a, <1>b DEF FindOrCreateDevice
  <2>2. [call[k] EXCEPT !.pc = "x_stamp", !.marked = device[d].degraded] \in CallRecord
    BY <2>1, <1>0, <1>a, CallUpdates
  <2>3. call' = [call EXCEPT ![k] = [call[k] EXCEPT !.pc = "x_stamp", !.marked = device[d].degraded]]
    BY <1>8 DEF FindOrCreateDevice
  <2>4. call' \in [Calls -> CallRecord]
    BY <2>2, <2>3, CallStep
  <2>5. [device[d] EXCEPT !.attested = "never"] \in DeviceRow
    BY <2>1, <1>b, RowUpdates
  <2>6. device' \in [Devices -> DeviceRow]
    BY <1>8, <2>1, <2>5 DEF FindOrCreateDevice
  <2>7. QED BY <1>8, <2>4, <2>6 DEF FindOrCreateDevice
<1>9. ASSUME NEW k \in Calls, StampDevice(k) PROVE TypeOK'
  <2> DEFINE d == call[k].dev
             b == IF call[k].marked THEN FALSE ELSE device[d].degraded
             full == [device[d] EXCEPT !.attested = "recent", !.degraded = b]
             open == [device[d] EXCEPT !.degraded = TRUE]
  <2>1. d \in Devices
    BY <1>9, <1>a DEF StampDevice
  <2>2. full \in DeviceRow /\ open \in DeviceRow
    BY <2>1, <1>b, RowUpdates
  <2>3. device' = [device EXCEPT ![d] = full] \/ device' = [device EXCEPT ![d] = open]
    BY <1>9, <2>1 DEF StampDevice
  <2>4. device' \in [Devices -> DeviceRow]
    BY <2>1, <2>2, <2>3
  <2>5. call' = [call EXCEPT ![k] =
                   [call[k] EXCEPT !.pc = "insert", !.verdict = "none", !.marked = FALSE]]
    BY <1>9 DEF StampDevice
  <2>6. call' \in [Calls -> CallRecord]
    BY <2>5, <1>0, <1>a, CallUpdates, CallStep
  <2>7. QED BY <1>9, <2>4, <2>6 DEF StampDevice
<1>10. ASSUME NEW k \in Calls, RefreshSession(k) PROVE TypeOK'
  BY <1>10, <1>0, GotoStep DEF RefreshSession
<1>11. ASSUME NEW k \in Calls, RevokeOld(k) PROVE TypeOK'
  <2>1. call' \in [Calls -> CallRecord]
    BY <1>11, <1>0, GotoStep DEF RevokeOld
  <2>2. call[k].par \in Sessions /\ [session[call[k].par] EXCEPT !.revoked = TRUE] \in SessionRow
    BY <1>11, <1>a, RowUpdates DEF RevokeOld
  <2>3. session' \in [Sessions -> SessionRow]
    BY <1>11, <2>2 DEF RevokeOld
  <2>4. QED BY <1>11, <2>1, <2>3 DEF RevokeOld
<1>12. ASSUME NEW k \in Calls, InsertSession(k) PROVE TypeOK'
  <2>1. issued + 1 \in SessionOrNone /\ issued + 1 \in Sessions
    BY <1>12 DEF InsertSession, SessionOrNone, Sessions
  <2>2. call' = [call EXCEPT ![k] =
                   [call[k] EXCEPT !.pc = "secret", !.sid = issued + 1, !.chal = None]]
    BY <1>12 DEF InsertSession
  <2>3. call' \in [Calls -> CallRecord]
    BY <2>1, <2>2, <1>0, <1>a, CallUpdates, CallStep
  <2>4. session' \in [Sessions -> SessionRow]
    BY <1>12, <2>1, <1>a, RowUpdates DEF InsertSession
  <2>5. QED BY <1>12, <2>1, <2>3, <2>4 DEF InsertSession
<1>13. ASSUME NEW k \in Calls, StoreSecret(k) PROVE TypeOK'
  <2> DEFINE d == call[k].dev
  <2>1. call' \in [Calls -> CallRecord]
    BY <1>13, <1>0, GotoStep DEF StoreSecret
  <2>2. d \in Devices /\ [device[d] EXCEPT !.secret = call[k].sid] \in DeviceRow
    BY <1>13, <1>a, <1>b, RowUpdates DEF StoreSecret
  <2>3. device' \in [Devices -> DeviceRow]
    BY <1>13, <2>2 DEF StoreSecret
  <2>4. QED BY <1>13, <2>1, <2>3 DEF StoreSecret
<1>14. ASSUME NEW k \in Calls, Reply(k) PROVE TypeOK'
  <2>1. call[k].sid \in Sessions /\ call[k].sid \in SessionOrNone
    BY <1>14, <1>a DEF Reply, Wired, WiredCalls, SessionOrNone, Sessions
  <2>2. reliable' \in [Devices -> SessionOrNone]
    BY <1>14, <2>1, <1>c DEF Reply
  <2>3. QED BY <1>14, <2>1, <2>2, <1>e DEF Reply
<1>15. ASSUME NEW k \in Calls, Fail(k) PROVE TypeOK'
  BY <1>15, <1>c, <1>e DEF Fail
<1>16. ASSUME NEW k \in Calls, VerifySession(k) \/ VerifySignature(k) PROVE TypeOK'
  BY <1>16, <1>0, GotoStep DEF VerifySession, VerifySignature
<1>17. ASSUME NEW k \in Calls, EndVerify(k) PROVE TypeOK'
  BY <1>17, <1>e DEF EndVerify
<1>18. ASSUME NEW d \in Devices, AttestationAges(d) PROVE TypeOK'
  <2>1. [device[d] EXCEPT !.attested = "old"] \in DeviceRow
    BY <1>b, RowUpdates
  <2>2. QED BY <1>18, <2>1 DEF AttestationAges
<1>19. CASE Crash
  BY <1>19, <1>c, CallUpdates DEF Crash
<1>20. CASE UNCHANGED vars
  BY <1>20 DEF vars
<1>21. QED
  BY <1>1, <1>2, <1>3, <1>4, <1>5, <1>6, <1>7, <1>8, <1>9, <1>10, <1>11, <1>12, <1>13,
     <1>14, <1>15, <1>16, <1>17, <1>18, <1>19, <1>20 DEF Next

-----------------------------------------------------------------------------
\* A step that leaves alone who a challenge and a session belong to.
SameShape ==
    /\ issued' = issued /\ delivered' = delivered
    /\ \A c \in Challenges : /\ challenge'[c].dev = challenge[c].dev
                             /\ challenge'[c].used => challenge[c].dev # None
    /\ \A s \in Sessions : /\ session'[s].dev = session[s].dev
                           /\ session'[s].chal = session[s].chal
                           /\ session'[s].parent = session[s].parent

\* A step of k that moves it from one of its stages to another, or ends it.
Moves(k) ==
    /\ \A j \in Calls : j # k => call'[j] = call[j]
    /\ \/ call'[k] = Idle
       \/ /\ call'[k].dev = call[k].dev /\ call'[k].chal = call[k].chal
          /\ call'[k].par = call[k].par /\ call'[k].sid = call[k].sid
          /\ \/ {call[k].pc, call'[k].pc} \subseteq ExchangeSteps
             \/ {call[k].pc, call'[k].pc} \subseteq RefreshSteps
             \/ {call[k].pc, call'[k].pc} \subseteq VerifySteps
             \/ call[k].pc \in ExchangeSteps \cup RefreshSteps /\ call'[k].pc = "insert"
             \/ call[k].pc = "secret" /\ call'[k].pc = "reply"

\* The stages are disjoint.
LEMMA Stages ==
    /\ "idle" \notin ExchangeSteps \cup RefreshSteps \cup IssueSteps \cup VerifySteps
    /\ IssueSteps \cap (ExchangeSteps \cup RefreshSteps \cup VerifySteps) = {}
    /\ ExchangeSteps \cap (RefreshSteps \cup VerifySteps) = {}
    /\ RefreshSteps \cap VerifySteps = {}
BY DEF ExchangeSteps, RefreshSteps, IssueSteps, VerifySteps

\* What a move leaves of the wiring.
LEMMA WiredMoves ==
    ASSUME TypeOK, Wired, SameShape, NEW k \in Calls, Moves(k)
    PROVE  Wired'
<1>1. issued \in 0 .. MaxSession /\ 1 .. issued \subseteq Sessions
  BY DEF TypeOK, Sessions, SessionOrNone
<1>2. \A s \in 1 .. issued : session[s].chal \in Challenges \cup {None}
                             /\ session[s].parent \in SessionOrNone
  BY <1>1 DEF TypeOK, SessionRow
<1>3. \A j \in Calls : call[j].chal \in Challenges \cup {None}
                       /\ call[j].par \in SessionOrNone /\ call[j].sid \in SessionOrNone
  BY DEF TypeOK, CallRecord
<1>4. WiredTables'
  <2>1. \A s \in 1 .. issued : session[s].parent # 0 => session[s].parent \in Sessions
    BY <1>1, <1>2 DEF SessionOrNone, Sessions
  <2>2. QED BY <1>1, <1>2, <2>1 DEF SameShape, Wired, WiredTables
<1>5. ASSUME NEW j \in Calls
      PROVE  /\ call[j].par # 0 => call[j].par \in Sessions
             /\ call[j].sid # 0 => call[j].sid \in Sessions
  BY <1>3 DEF SessionOrNone, Sessions
<1>6. ASSUME NEW j \in Calls, call'[j] = Idle
      PROVE  /\ call'[j].par <= issued' /\ call'[j].sid <= issued'
             /\ call'[j].pc = "idle" /\ call'[j].chal = None /\ call'[j].par = 0
  BY <1>1, <1>6 DEF Idle, SameShape
<1>7. WiredCalls'
  <2> SUFFICES ASSUME NEW j \in Calls
               PROVE  /\ call'[j].par <= issued'
                      /\ call'[j].sid <= issued'
                      /\ call'[j].pc = "idle" => call'[j] = Idle
                      /\ call'[j].pc # "idle" => call'[j].dev \in Devices
                      /\ call'[j].chal # None => challenge'[call'[j].chal].dev = call'[j].dev
                      /\ call'[j].par # 0 => session'[call'[j].par].dev = call'[j].dev
                      /\ call'[j].pc \in ExchangeSteps => call'[j].chal # None /\ call'[j].par = 0
                      /\ call'[j].pc \in RefreshSteps => call'[j].chal = None /\ call'[j].par # 0
                      /\ call'[j].pc \in {"secret", "reply"} =>
                            /\ call'[j].sid # 0 /\ call'[j].chal = None
                            /\ session'[call'[j].sid].dev = call'[j].dev
                      /\ call'[j].pc = "insert" => call'[j].chal # None \/ call'[j].par # 0
                      /\ call'[j].pc \in VerifySteps => call'[j].par # 0
    BY DEF WiredCalls
  <2>1. CASE call'[j] = call[j]
    BY <2>1, <1>3, <1>5 DEF SameShape, Wired, WiredCalls
  <2>2. CASE call'[j] = Idle
    BY <2>2, <1>6, Stages
  <2>3. CASE j = k /\ call'[k] # Idle
    BY <2>3, <1>3, <1>5, Stages DEF SameShape, Moves, Wired, WiredCalls, IssueSteps
  <2>4. QED BY <2>1, <2>2, <2>3 DEF Moves
<1>8. QED BY <1>4, <1>7 DEF Wired

\* Every step keeps the wiring.
LEMMA WiredStep == TypeOK /\ Wired /\ [Next]_vars => Wired'
<1> SUFFICES ASSUME TypeOK, Wired, [Next]_vars PROVE Wired'
  OBVIOUS
<1> USE DEF At
<1>a. /\ challenge \in [Challenges -> ChallengeRow]
      /\ session \in [Sessions -> SessionRow]
      /\ call \in [Calls -> CallRecord]
      /\ issued \in 0 .. MaxSession
      /\ delivered \subseteq Sessions
  BY DEF TypeOK, SessionOrNone
<1>b. ASSUME NEW j \in Calls
      PROVE  /\ call[j].chal \in Challenges \cup {None}
             /\ call[j].par \in SessionOrNone /\ call[j].sid \in SessionOrNone
             /\ call[j].pc \in Steps
  BY <1>a DEF CallRecord
<1>c. ASSUME UNCHANGED <<challenge, session, issued, delivered>> PROVE SameShape
  BY <1>c, Wired DEF SameShape, Wired, WiredTables
<1>d. ASSUME NEW k \in Calls, NEW p \in Steps, Goto(k, p)
      PROVE  /\ \A j \in Calls : j # k => call'[j] = call[j]
             /\ call'[k].pc = p /\ call'[k].dev = call[k].dev /\ call'[k].chal = call[k].chal
             /\ call'[k].par = call[k].par /\ call'[k].sid = call[k].sid
  BY <1>a, <1>d DEF Goto, CallRecord
<1>1. ASSUME NEW c \in Challenges, NEW d \in Devices, CreateChallenge(c, d) PROVE Wired'
  <2>1. \A x \in Challenges : challenge[x].dev # None => challenge'[x] = challenge[x]
    BY <1>1, <1>a DEF CreateChallenge
  <2>2. challenge'[c] = [dev |-> d, used |-> FALSE]
    BY <1>1, <1>a DEF CreateChallenge
  <2>3. \A x \in Challenges : challenge'[x].used => challenge'[x].dev # None
    BY <1>1, <1>a, <2>1, <2>2 DEF CreateChallenge, Wired, WiredTables
  <2>4. UNCHANGED <<session, issued, call, delivered>>
    BY <1>1 DEF CreateChallenge
  <2>5. \A s \in 1 .. issued : session[s].chal # None =>
            challenge'[session[s].chal].dev = session[s].dev
    <3>1. ASSUME NEW s \in 1 .. issued, session[s].chal # None
          PROVE  session[s].chal \in Challenges /\ challenge[session[s].chal].dev # None
      BY <3>1, <1>a DEF Wired, WiredTables, SessionRow, Sessions
    <3>2. QED BY <3>1, <2>1 DEF Wired, WiredTables
  <2>6. \A j \in Calls : call[j].chal # None => challenge'[call[j].chal].dev = call[j].dev
    <3>1. ASSUME NEW j \in Calls, call[j].chal # None
          PROVE  call[j].chal \in Challenges /\ challenge[call[j].chal].dev # None
      BY <3>1, <1>b DEF Wired, WiredCalls, Idle
    <3>2. QED BY <3>1, <2>1 DEF Wired, WiredCalls
  <2>7. QED BY <2>3, <2>4, <2>5, <2>6 DEF Wired, WiredTables, WiredCalls
<1>2. ASSUME NEW k \in Calls, NEW d \in Devices, NEW f \in CallRecord, Begin(k, d, f),
             At(k, "idle"), UNCHANGED <<challenge, session, issued, delivered>>,
             f.dev = d, f.par <= issued, f.sid = 0,
             f.chal # None => challenge[f.chal].dev = d,
             f.par # 0 => session[f.par].dev = d,
             \/ f.pc \in ExchangeSteps /\ f.chal # None /\ f.par = 0
             \/ f.pc \in RefreshSteps /\ f.chal = None /\ f.par # 0
      PROVE  Wired'
  <2>1. /\ call'[k].pc = f.pc /\ call'[k].dev = d /\ call'[k].chal = f.chal
        /\ call'[k].par = f.par /\ call'[k].sid = 0
    BY <1>2 DEF Begin, CallRecord
  <2>2. ASSUME NEW j \in Calls, j # k
        PROVE  \/ call'[j] = call[j]
               \/ Issuing(j) /\ call'[j] = [call[j] EXCEPT !.alone = FALSE]
    BY <1>2, <2>2 DEF Begin, IssuingFor
  <2>3. ASSUME NEW j \in Calls, j # k
        PROVE  /\ call'[j].pc = call[j].pc /\ call'[j].dev = call[j].dev
               /\ call'[j].chal = call[j].chal /\ call'[j].par = call[j].par
               /\ call'[j].sid = call[j].sid
               /\ call'[j].pc = "idle" => call'[j] = call[j]
    <3>1. CASE call'[j] = call[j]
      BY <3>1
    <3>2. CASE Issuing(j) /\ call'[j] = [call[j] EXCEPT !.alone = FALSE]
      <4>1. call[j].pc # "idle"
        BY <3>2, Stages DEF Issuing
      <4>2. QED BY <3>2, <4>1, <1>a DEF CallRecord
    <3>3. QED BY <2>2, <2>3, <3>1, <3>2
  <2>4. WiredCalls'
    BY <2>1, <2>3, <1>2, <1>a, Stages DEF Wired, WiredCalls, IssueSteps
  <2>5. WiredTables'
    BY <1>2 DEF Wired, WiredTables
  <2>6. QED BY <2>4, <2>5 DEF Wired
<1>3. ASSUME NEW k \in Calls, NEW c \in Challenges, Exchange(k, c) PROVE Wired'
  <2> DEFINE d == challenge[c].dev
             f == [Idle EXCEPT !.pc = "x_device", !.dev = d, !.chal = c]
  <2>1. d \in Devices
    BY <1>3, <1>a DEF ChallengeRow, Exchange
  <2>2. f \in CallRecord
    <3>1. "x_device" \in Steps /\ 0 \in SessionOrNone
      BY DEF Steps, ExchangeSteps, SessionOrNone
    <3>2. QED BY <2>1, <3>1 DEF Idle, CallRecord
  <2>3. /\ f.pc = "x_device" /\ f.dev = d /\ f.chal = c /\ f.par = 0 /\ f.sid = 0
    BY DEF Idle
  <2>4. "x_device" \in ExchangeSteps /\ c # None /\ f.par <= issued
    BY <2>3, <1>a DEF ExchangeSteps
  <2>5. QED BY <1>2, <1>3, <2>1, <2>2, <2>3, <2>4 DEF Exchange
<1>4. ASSUME NEW k \in Calls, NEW s \in Sessions, Refresh(k, s) PROVE Wired'
  <2> DEFINE d == session[s].dev
             f == [Idle EXCEPT !.pc = "r_session", !.dev = d, !.par = s]
  <2>1. d \in Devices /\ s \in 1 .. issued
    BY <1>4 DEF Refresh, Wired, WiredTables
  <2>2. f \in CallRecord
    <3>1. "r_session" \in Steps /\ 0 \in SessionOrNone /\ s \in SessionOrNone
      BY DEF Steps, RefreshSteps, SessionOrNone, Sessions
    <3>2. QED BY <2>1, <3>1 DEF Idle, CallRecord
  <2>3. /\ f.pc = "r_session" /\ f.dev = d /\ f.chal = None /\ f.par = s /\ f.sid = 0
    BY DEF Idle
  <2>4. "r_session" \in RefreshSteps /\ s # 0 /\ f.par <= issued
    BY <2>1, <2>3, <1>a DEF RefreshSteps
  <2>5. QED BY <1>2, <1>4, <2>1, <2>2, <2>3, <2>4 DEF Refresh
<1>5. ASSUME NEW k \in Calls, NEW s \in Sessions, Verify(k, s) PROVE Wired'
  <2>1. session[s].dev \in Devices /\ s \in 1 .. issued
    BY <1>5 DEF Verify, Wired, WiredTables
  <2>2. /\ call'[k].pc = "v_session" /\ call'[k].dev = session[s].dev
        /\ call'[k].chal = None /\ call'[k].par = s /\ call'[k].sid = 0
        /\ \A j \in Calls : j # k => call'[j] = call[j]
    BY <1>5, <1>a DEF Verify, Idle
  <2>3. "v_session" \in VerifySteps
    BY DEF VerifySteps
  <2>4. WiredCalls'
    BY <2>1, <2>2, <2>3, <1>5, <1>a, Stages DEF Verify, Wired, WiredCalls, IssueSteps
  <2>5. WiredTables'
    BY <1>5 DEF Verify, Wired, WiredTables
  <2>6. QED BY <2>4, <2>5 DEF Wired
<1>6. ASSUME NEW k \in Calls, ExchangeDevice(k) PROVE Wired'
  <2>1. PICK p \in {"x_seen", "x_attest"} : Goto(k, p)
    BY <1>6 DEF ExchangeDevice
  <2>2. Moves(k)
    BY <1>6, <1>d, <2>1 DEF ExchangeDevice, Moves, ExchangeSteps, Steps
  <2>3. QED BY <1>6, <1>c, <2>2, WiredMoves DEF ExchangeDevice
<1>7. ASSUME NEW k \in Calls, ThrottledUse(k) \/ AttestedUse(k) PROVE Wired'
  <2>1. Moves(k)
    BY <1>7, <1>d DEF ThrottledUse, AttestedUse, Moves, ExchangeSteps, Steps, IssueSteps
  <2>2. call[k].chal \in Challenges /\ challenge[call[k].chal].dev # None
    BY <1>7, <1>b DEF ThrottledUse, AttestedUse, Wired, WiredCalls, ExchangeSteps
  <2>3. SameShape
    BY <1>7, <1>a, <2>2 DEF ThrottledUse, AttestedUse, UseChallenge, SameShape, ChallengeRow,
                            Wired, WiredTables
  <2>4. QED BY <2>1, <2>3, WiredMoves
<1>8. ASSUME NEW k \in Calls, Attest(k) PROVE Wired'
  <2>1. Moves(k)
    BY <1>8, <1>a DEF Attest, Moves, ExchangeSteps, CallRecord
  <2>2. QED BY <1>8, <1>c, <2>1, WiredMoves DEF Attest
<1>9. ASSUME NEW k \in Calls, FindOrCreateDevice(k) PROVE Wired'
  <2>1. Moves(k)
    BY <1>9, <1>a DEF FindOrCreateDevice, Moves, ExchangeSteps, CallRecord
  <2>2. QED BY <1>9, <1>c, <2>1, WiredMoves DEF FindOrCreateDevice
<1>10. ASSUME NEW k \in Calls, StampDevice(k) PROVE Wired'
  <2>1. Moves(k)
    BY <1>10, <1>a DEF StampDevice, Moves, ExchangeSteps, CallRecord
  <2>2. QED BY <1>10, <1>c, <2>1, WiredMoves DEF StampDevice
<1>11. ASSUME NEW k \in Calls, RefreshSession(k) PROVE Wired'
  <2>1. Moves(k)
    BY <1>11, <1>d DEF RefreshSession, Moves, RefreshSteps, Steps
  <2>2. QED BY <1>11, <1>c, <2>1, WiredMoves DEF RefreshSession
<1>12. ASSUME NEW k \in Calls, RevokeOld(k) PROVE Wired'
  <2>1. Moves(k)
    BY <1>12, <1>d DEF RevokeOld, Moves, RefreshSteps, Steps, IssueSteps
  <2>2. SameShape
    BY <1>12, <1>a DEF RevokeOld, SameShape, SessionRow, Wired, WiredTables
  <2>3. QED BY <2>1, <2>2, WiredMoves
<1>13. ASSUME NEW k \in Calls, InsertSession(k) PROVE Wired'
  <2> DEFINE n == issued + 1
  <2>1. /\ n \in Sessions /\ issued' = n /\ issued < n
        /\ \A s \in Sessions : s # n => session'[s] = session[s]
        /\ session'[n].dev = call[k].dev /\ session'[n].chal = call[k].chal
        /\ session'[n].parent = call[k].par
        /\ UNCHANGED <<challenge, delivered>>
    BY <1>13, <1>a DEF InsertSession, Sessions
  <2>2. /\ \A j \in Calls : j # k => call'[j] = call[j]
        /\ call'[k].pc = "secret" /\ call'[k].dev = call[k].dev /\ call'[k].chal = None
        /\ call'[k].par = call[k].par /\ call'[k].sid = n
    BY <1>13, <1>a DEF InsertSession, CallRecord
  <2>3. call[k].pc = "insert" /\ call[k].dev \in Devices /\ call[k].par <= issued
    BY <1>13 DEF InsertSession, Wired, WiredCalls
  <2>4. \A j \in Calls : /\ call[j].par # 0 => call[j].par \in Sessions /\ call[j].par # n
                         /\ call[j].sid # 0 => call[j].sid \in Sessions /\ call[j].sid # n
    BY <1>a, <1>b, <2>1 DEF Wired, WiredCalls, SessionOrNone, Sessions
  <2>5. \A s \in 1 .. issued : session[s].parent # 0 => session[s].parent \in Sessions
                                                        /\ session[s].parent # n
    BY <1>a, <2>1 DEF Wired, WiredTables, SessionRow, SessionOrNone, Sessions
  <2>6. \A s \in 1 .. n : s = n \/ s \in 1 .. issued
    BY <1>a
  <2>7. 1 .. issued \subseteq 1 .. n /\ 1 .. n \subseteq Sessions
    BY <1>a, <2>1 DEF Sessions
  <2>8. WiredTables'
    <3>1. ASSUME NEW s \in 1 .. n
          PROVE  /\ session'[s].dev \in Devices
                 /\ session'[s].parent <= n
                 /\ session'[s].chal # None => challenge[session'[s].chal].dev = session'[s].dev
                 /\ session'[s].parent # 0 =>
                       session'[session'[s].parent].dev = session'[s].dev
      <4>1. CASE s = n
        BY <4>1, <1>a, <1>b, <2>1, <2>3, <2>4 DEF Wired, WiredCalls, SessionOrNone
      <4>2. CASE s \in 1 .. issued
        <5>1. s \in Sessions /\ s # n /\ session'[s] = session[s]
          BY <4>2, <1>a, <2>1, <2>7
        <5>2. session[s].parent <= n
          BY <4>2, <5>1, <1>a DEF Wired, WiredTables, SessionRow, SessionOrNone
        <5>3. session[s].dev \in Devices
              /\ (session[s].chal # None => challenge[session[s].chal].dev = session[s].dev)
              /\ (session[s].parent # 0 => session[session[s].parent].dev = session[s].dev)
          BY <4>2 DEF Wired, WiredTables
        <5>4. session[s].parent # 0 => session'[session[s].parent] = session[session[s].parent]
          BY <4>2, <2>1, <2>5
        <5>5. QED BY <5>1, <5>2, <5>3, <5>4
      <4>3. QED BY <4>1, <4>2, <2>6
    <3>2. QED BY <3>1, <2>1, <2>7 DEF Wired, WiredTables
  <2>9. WiredCalls'
    <3> SUFFICES ASSUME NEW j \in Calls
                 PROVE  /\ call'[j].par <= issued'
                        /\ call'[j].sid <= issued'
                        /\ call'[j].pc = "idle" => call'[j] = Idle
                        /\ call'[j].pc # "idle" => call'[j].dev \in Devices
                        /\ call'[j].chal # None => challenge'[call'[j].chal].dev = call'[j].dev
                        /\ call'[j].par # 0 => session'[call'[j].par].dev = call'[j].dev
                        /\ call'[j].pc \in ExchangeSteps => call'[j].chal # None /\ call'[j].par = 0
                        /\ call'[j].pc \in RefreshSteps => call'[j].chal = None /\ call'[j].par # 0
                        /\ call'[j].pc \in {"secret", "reply"} =>
                              /\ call'[j].sid # 0 /\ call'[j].chal = None
                              /\ session'[call'[j].sid].dev = call'[j].dev
                        /\ call'[j].pc = "insert" => call'[j].chal # None \/ call'[j].par # 0
                        /\ call'[j].pc \in VerifySteps => call'[j].par # 0
      BY DEF WiredCalls
    <3>1. call[j].par <= n /\ call[j].sid <= n
      BY <1>a, <1>b, <2>1 DEF Wired, WiredCalls, SessionOrNone
    <3>2. CASE j # k
      BY <3>1, <3>2, <2>1, <2>2, <2>4 DEF Wired, WiredCalls
    <3>3. CASE j = k
      BY <3>1, <3>3, <2>1, <2>2, <2>3, <2>4, <1>a, Stages DEF Wired, WiredCalls, IssueSteps
    <3>4. QED BY <3>2, <3>3
  <2>10. QED BY <2>8, <2>9 DEF Wired
<1>14. ASSUME NEW k \in Calls, StoreSecret(k) PROVE Wired'
  <2>1. Moves(k)
    BY <1>14, <1>d DEF StoreSecret, Moves, Steps, IssueSteps
  <2>2. QED BY <1>14, <1>c, <2>1, WiredMoves DEF StoreSecret
<1>15. ASSUME NEW k \in Calls, Reply(k) PROVE Wired'
  <2>1. call[k].sid \in 1 .. issued
    BY <1>15, <1>b, <1>a DEF Reply, Wired, WiredCalls, SessionOrNone
  <2>2. WiredTables'
    BY <1>15, <2>1 DEF Reply, Wired, WiredTables
  <2>3. \A j \in Calls : call'[j] = IF j = k THEN Idle ELSE call[j]
    BY <1>15, <1>a DEF Reply
  <2>4. WiredCalls'
    BY <1>15, <2>3, <1>a, Stages DEF Reply, Wired, WiredCalls, Idle
  <2>5. QED BY <2>2, <2>4 DEF Wired
<1>16. ASSUME NEW k \in Calls, Fail(k) \/ EndVerify(k) PROVE Wired'
  <2>1. Moves(k)
    BY <1>16, <1>a DEF Fail, EndVerify, Moves
  <2>2. QED BY <1>16, <1>c, <2>1, WiredMoves DEF Fail, EndVerify
<1>17. ASSUME NEW k \in Calls, VerifySession(k) \/ VerifySignature(k) PROVE Wired'
  <2>1. Moves(k)
    BY <1>17, <1>d DEF VerifySession, VerifySignature, Moves, VerifySteps, Steps
  <2>2. QED BY <1>17, <1>c, <2>1, WiredMoves DEF VerifySession, VerifySignature
<1>18. ASSUME NEW d \in Devices, AttestationAges(d) PROVE Wired'
  BY <1>18 DEF AttestationAges, Wired, WiredTables, WiredCalls
<1>19. CASE Crash
  <2>1. WiredTables'
    BY <1>19 DEF Crash, Wired, WiredTables
  <2>2. \A j \in Calls : call'[j] = Idle
    BY <1>19 DEF Crash
  <2>3. WiredCalls'
    BY <1>19, <2>2, <1>a, Stages DEF Crash, WiredCalls, Idle
  <2>4. QED BY <2>1, <2>3 DEF Wired
<1>20. CASE UNCHANGED vars
  BY <1>20 DEF vars, Wired, WiredTables, WiredCalls
<1>21. QED
  BY <1>1, <1>3, <1>4, <1>5, <1>6, <1>7, <1>8, <1>9, <1>10, <1>11, <1>12, <1>13,
     <1>14, <1>15, <1>16, <1>17, <1>18, <1>19, <1>20 DEF Next

-----------------------------------------------------------------------------
\* What no step takes back: a used challenge stays used, a revoked session
\* revoked, and an issued session keeps its device, its origin and its history.
LEMMA Monotone ==
    ASSUME TypeOK, Wired, [Next]_vars
    PROVE  /\ \A c \in Challenges : challenge[c].used => challenge'[c].used
           /\ \A s \in 1 .. issued :
                 /\ session[s].revoked => session'[s].revoked
                 /\ session'[s].dev = session[s].dev /\ session'[s].chal = session[s].chal
                 /\ session'[s].parent = session[s].parent /\ session'[s].solo = session[s].solo
           /\ vouched \subseteq vouched'
<1>a. /\ challenge \in [Challenges -> ChallengeRow]
      /\ session \in [Sessions -> SessionRow]
      /\ issued \in 0 .. MaxSession
  BY DEF TypeOK, SessionOrNone
<1>1. ASSUME NEW c \in Challenges, NEW d \in Devices, CreateChallenge(c, d)
      PROVE  \A x \in Challenges : challenge[x].used => challenge'[x].used
  BY <1>1, <1>a DEF CreateChallenge, Wired, WiredTables
<1>2. ASSUME NEW k \in Calls, UseChallenge(k)
      PROVE  \A x \in Challenges : challenge[x].used => challenge'[x].used
  BY <1>2, <1>a DEF UseChallenge, ChallengeRow
<1>3. ASSUME NEW k \in Calls, RevokeOld(k)
      PROVE  \A s \in Sessions :
                 /\ session[s].revoked => session'[s].revoked
                 /\ session'[s].dev = session[s].dev /\ session'[s].chal = session[s].chal
                 /\ session'[s].parent = session[s].parent /\ session'[s].solo = session[s].solo
  BY <1>3, <1>a DEF RevokeOld, SessionRow
<1>4. ASSUME NEW k \in Calls, InsertSession(k)
      PROVE  \A s \in 1 .. issued : session'[s] = session[s]
  BY <1>4, <1>a DEF InsertSession, Sessions
<1>5. 1 .. issued \subseteq Sessions
  BY <1>a DEF Sessions
<1>6. CASE \E c \in Challenges, d \in Devices : CreateChallenge(c, d)
  BY <1>1, <1>6 DEF CreateChallenge
<1>7. CASE \E k \in Calls : ThrottledUse(k) \/ AttestedUse(k)
  BY <1>2, <1>7 DEF ThrottledUse, AttestedUse
<1>8. CASE \E k \in Calls : RevokeOld(k)
  BY <1>3, <1>5, <1>8 DEF RevokeOld
<1>9. CASE \E k \in Calls : InsertSession(k)
  BY <1>4, <1>9 DEF InsertSession
<1>10. CASE \E k \in Calls : Attest(k)
  BY <1>10 DEF Attest
<1>11. CASE UNCHANGED <<challenge, session, vouched>>
  BY <1>11
<1>12. QED
  BY <1>6, <1>7, <1>8, <1>9, <1>10, <1>11
  DEF Next, vars, Exchange, Refresh, Verify, ExchangeDevice, FindOrCreateDevice, StampDevice,
      RefreshSession, StoreSecret, Reply, Fail, VerifySession, VerifySignature, EndVerify,
      AttestationAges, Crash

\* The stage of a call after a step: where it stands still, where it came from.
LEMMA Stage ==
    ASSUME TypeOK, Wired, [Next]_vars, NEW k \in Calls, call'[k].pc # "idle",
           call'[k].pc # call[k].pc
    PROVE  \/ \E c \in Challenges : Exchange(k, c)
           \/ \E s \in Sessions : Refresh(k, s) \/ Verify(k, s)
           \/ ExchangeDevice(k) \/ ThrottledUse(k) \/ Attest(k) \/ AttestedUse(k)
           \/ FindOrCreateDevice(k) \/ StampDevice(k) \/ RefreshSession(k) \/ RevokeOld(k)
           \/ InsertSession(k) \/ StoreSecret(k) \/ VerifySession(k) \/ VerifySignature(k)
<1>a. call \in [Calls -> CallRecord]
  BY DEF TypeOK
<1>1. ASSUME NEW j \in Calls, j # k,
             \/ ExchangeDevice(j) \/ ThrottledUse(j) \/ Attest(j) \/ AttestedUse(j)
             \/ FindOrCreateDevice(j) \/ StampDevice(j) \/ RefreshSession(j) \/ RevokeOld(j)
             \/ InsertSession(j) \/ StoreSecret(j) \/ VerifySession(j) \/ VerifySignature(j)
             \/ Reply(j) \/ Fail(j) \/ EndVerify(j)
      PROVE  call'[k] = call[k]
  BY <1>1, <1>a
  DEF ExchangeDevice, ThrottledUse, Attest, AttestedUse, FindOrCreateDevice, StampDevice,
      RefreshSession, RevokeOld, InsertSession, StoreSecret, VerifySession, VerifySignature,
      Reply, Fail, EndVerify, Goto
<1>2. ASSUME Reply(k) \/ Fail(k) \/ EndVerify(k) \/ Crash PROVE call'[k].pc = "idle"
  BY <1>2, <1>a DEF Reply, Fail, EndVerify, Crash, Idle
<1>3. ASSUME NEW j \in Calls, j # k, NEW d, NEW f, Begin(j, d, f)
      PROVE  call'[k].pc = call[k].pc
  BY <1>3, <1>a DEF Begin, CallRecord
<1>4. ASSUME NEW j \in Calls, j # k, NEW s \in Sessions, Verify(j, s)
      PROVE  call'[k] = call[k]
  BY <1>4, <1>a DEF Verify
<1>5. ASSUME NEW c \in Challenges, NEW d \in Devices, CreateChallenge(c, d) \/ AttestationAges(d)
      PROVE  call'[k] = call[k]
  BY <1>5 DEF CreateChallenge, AttestationAges
<1>6. CASE UNCHANGED vars
  BY <1>6 DEF vars
<1>7. ASSUME NEW d \in Devices, AttestationAges(d) PROVE call'[k] = call[k]
  BY <1>7 DEF AttestationAges
<1>8. CASE Next
  BY <1>1, <1>2, <1>3, <1>4, <1>5, <1>7, <1>8 DEF Next, Exchange, Refresh
<1>9. QED BY <1>6, <1>8

\* A call that stands still keeps what it holds; it can only lose its solitude.
LEMMA StandsStill ==
    ASSUME TypeOK, Wired, [Next]_vars, NEW k \in Calls, call'[k].pc # "idle",
           call'[k].pc = call[k].pc
    PROVE  \/ call'[k] = call[k]
           \/ call'[k] = [call[k] EXCEPT !.alone = FALSE]
<1>a. call \in [Calls -> CallRecord]
  BY DEF TypeOK
<1>1. ASSUME NEW j \in Calls, NEW p, Goto(j, p), call[j].pc # p
      PROVE  call'[k] = call[k]
  BY <1>1, <1>a DEF Goto, CallRecord
<1>2. ASSUME NEW j \in Calls,
             \/ ExchangeDevice(j) \/ ThrottledUse(j) \/ AttestedUse(j)
             \/ RefreshSession(j) \/ RevokeOld(j)
             \/ StoreSecret(j) \/ VerifySession(j) \/ VerifySignature(j)
      PROVE  call'[k] = call[k]
  BY <1>1, <1>2
  DEF ExchangeDevice, ThrottledUse, AttestedUse, RefreshSession, RevokeOld, StoreSecret,
      VerifySession, VerifySignature, At
<1>3. ASSUME NEW j \in Calls, Attest(j) \/ FindOrCreateDevice(j) \/ StampDevice(j)
                              \/ InsertSession(j)
      PROVE  call'[k] = call[k]
  BY <1>3, <1>a DEF Attest, FindOrCreateDevice, StampDevice, InsertSession, At, CallRecord
<1>4. ASSUME NEW j \in Calls, Reply(j) \/ Fail(j) \/ EndVerify(j) PROVE call'[k] = call[k]
  BY <1>4, <1>a DEF Reply, Fail, EndVerify, Idle
<1>5. ASSUME NEW j \in Calls, NEW d, NEW f \in CallRecord, Begin(j, d, f), At(j, "idle")
      PROVE  \/ call'[k] = call[k]
             \/ call'[k] = [call[k] EXCEPT !.alone = FALSE]
  BY <1>5, <1>a DEF Begin, At
<1>6. ASSUME NEW j \in Calls, NEW c \in Challenges, Exchange(j, c)
      PROVE  \/ call'[k] = call[k]
             \/ call'[k] = [call[k] EXCEPT !.alone = FALSE]
  <2>1. j # k
    BY <1>6 DEF Exchange, Begin, At
  <2>2. QED BY <1>6, <2>1, <1>a DEF Exchange, Begin
<1>7. ASSUME NEW j \in Calls, NEW s \in Sessions, Refresh(j, s)
      PROVE  \/ call'[k] = call[k]
             \/ call'[k] = [call[k] EXCEPT !.alone = FALSE]
  <2>1. j # k
    BY <1>7 DEF Refresh, Begin, At
  <2>2. QED BY <1>7, <2>1, <1>a DEF Refresh, Begin
<1>8. ASSUME NEW j \in Calls, NEW s \in Sessions, Verify(j, s) PROVE call'[k] = call[k]
  BY <1>8, <1>a DEF Verify, At
<1>9. ASSUME \/ \E c \in Challenges, d \in Devices : CreateChallenge(c, d)
             \/ \E d \in Devices : AttestationAges(d)
             \/ UNCHANGED vars
      PROVE  call'[k] = call[k]
  BY <1>9 DEF CreateChallenge, AttestationAges, vars
<1>10. ~ Crash
  BY DEF Crash, Idle
<1>11. QED
  BY <1>2, <1>3, <1>4, <1>6, <1>7, <1>8, <1>9, <1>10 DEF Next

\* Where a call enters, and what it then holds.
LEMMA Entry ==
    ASSUME TypeOK, Wired, NEW k \in Calls
    PROVE  /\ \A c \in Challenges : Exchange(k, c) =>
                 /\ call'[k].pc = "x_device" /\ call'[k].chal = c /\ call'[k].par = 0
                 /\ call'[k].dev = challenge[c].dev /\ call'[k].verdict = "none"
                 /\ call'[k].sid = 0
           /\ \A s \in Sessions : Refresh(k, s) =>
                 /\ call'[k].pc = "r_session" /\ call'[k].chal = None /\ call'[k].par = s
                 /\ call'[k].dev = session[s].dev /\ call'[k].verdict = "none"
                 /\ call'[k].sid = 0
           /\ \A s \in Sessions : Verify(k, s) =>
                 /\ call'[k].pc = "v_session" /\ call'[k].chal = None /\ call'[k].par = s
                 /\ call'[k].dev = session[s].dev /\ call'[k].verdict = "none"
                 /\ call'[k].stale = session[s].revoked
<1>a. call \in [Calls -> CallRecord]
  BY DEF TypeOK
<1>b. Idle \in CallRecord
  BY CallUpdates
<1>1. ASSUME NEW d, NEW f, Begin(k, d, f), DOMAIN f = DOMAIN Idle
      PROVE  /\ call'[k].pc = f.pc /\ call'[k].chal = f.chal /\ call'[k].par = f.par
             /\ call'[k].dev = f.dev /\ call'[k].verdict = f.verdict /\ call'[k].sid = f.sid
  <2> DEFINE b == (IssuingFor(d) = {})
  <2>1. call'[k] = [f EXCEPT !.alone = b]
    BY <1>1 DEF Begin
  <2> HIDE DEF b
  <2>2. QED BY <2>1, <1>1 DEF Idle
<1>2. ASSUME NEW c \in Challenges, Exchange(k, c)
      PROVE  /\ call'[k].pc = "x_device" /\ call'[k].chal = c /\ call'[k].par = 0
             /\ call'[k].dev = challenge[c].dev /\ call'[k].verdict = "none"
             /\ call'[k].sid = 0
  <2> DEFINE f == [Idle EXCEPT !.pc = "x_device", !.dev = challenge[c].dev, !.chal = c]
  <2>1. Begin(k, challenge[c].dev, f)
    BY <1>2 DEF Exchange
  <2>2. /\ DOMAIN f = DOMAIN Idle /\ f.pc = "x_device" /\ f.chal = c /\ f.par = 0
        /\ f.dev = challenge[c].dev /\ f.verdict = "none" /\ f.sid = 0
    BY DEF Idle
  <2> HIDE DEF f
  <2>3. QED BY <1>1, <2>1, <2>2
<1>3. ASSUME NEW s \in Sessions, Refresh(k, s)
      PROVE  /\ call'[k].pc = "r_session" /\ call'[k].chal = None /\ call'[k].par = s
             /\ call'[k].dev = session[s].dev /\ call'[k].verdict = "none"
             /\ call'[k].sid = 0
  <2> DEFINE f == [Idle EXCEPT !.pc = "r_session", !.dev = session[s].dev, !.par = s]
  <2>1. Begin(k, session[s].dev, f)
    BY <1>3 DEF Refresh
  <2>2. /\ DOMAIN f = DOMAIN Idle /\ f.pc = "r_session" /\ f.chal = None /\ f.par = s
        /\ f.dev = session[s].dev /\ f.verdict = "none" /\ f.sid = 0
    BY DEF Idle
  <2> HIDE DEF f
  <2>3. QED BY <1>1, <2>1, <2>2
<1>4. ASSUME NEW s \in Sessions, Verify(k, s)
      PROVE  /\ call'[k].pc = "v_session" /\ call'[k].chal = None /\ call'[k].par = s
             /\ call'[k].dev = session[s].dev /\ call'[k].verdict = "none"
             /\ call'[k].stale = session[s].revoked
  BY <1>a, <1>4 DEF Verify, Idle
<1>5. QED BY <1>2, <1>3, <1>4

-----------------------------------------------------------------------------
\* Credentials are spent before the insert they pay for.
Spent ==
    /\ SpentBeforeIssue
    /\ \A k \in Calls :
          /\ call[k].pc \in {"x_row", "x_stamp", "insert"} /\ call[k].chal # None
                => challenge[call[k].chal].used
          /\ call[k].pc = "insert" /\ call[k].par # 0 => session[call[k].par].revoked

LEMMA SpentStep == TypeOK /\ Wired /\ Spent /\ [Next]_vars => Spent'
<1> SUFFICES ASSUME TypeOK, Wired, Spent, [Next]_vars PROVE Spent'
  OBVIOUS
<1>a. /\ challenge \in [Challenges -> ChallengeRow]
      /\ session \in [Sessions -> SessionRow]
      /\ call \in [Calls -> CallRecord]
      /\ issued \in 0 .. MaxSession /\ 1 .. issued \subseteq Sessions
  BY DEF TypeOK, SessionOrNone, Sessions
<1>b. ASSUME NEW j \in Calls
      PROVE  /\ call[j].chal \in Challenges \cup {None}
             /\ call[j].par # 0 => call[j].par \in 1 .. issued
  BY <1>a DEF CallRecord, Wired, WiredCalls, SessionOrNone
<1>c. ASSUME NEW s \in 1 .. issued
      PROVE  /\ session[s].chal \in Challenges \cup {None}
             /\ session[s].parent # 0 => session[s].parent \in 1 .. issued
  BY <1>a DEF SessionRow, Wired, WiredTables, SessionOrNone
<1>1. ASSUME NEW k \in Calls, call'[k].pc \in {"x_row", "x_stamp", "insert"},
             call'[k].chal # None
      PROVE  challenge'[call'[k].chal].used
  <2>1. CASE call'[k].pc = call[k].pc
    <3>1. call'[k].chal = call[k].chal
      <4>1. call'[k] = call[k] \/ call'[k] = [call[k] EXCEPT !.alone = FALSE]
        BY <1>1, <2>1, StandsStill
      <4>2. QED BY <1>a, <4>1 DEF CallRecord
    <3>2. QED BY <1>1, <2>1, <3>1, <1>b, Monotone DEF Spent
  <2>2. CASE ThrottledUse(k) \/ AttestedUse(k)
    <3>1. call'[k].chal = call[k].chal /\ call[k].chal \in Challenges
      BY <1>1, <2>2, <1>a, <1>b DEF ThrottledUse, AttestedUse, Goto, CallRecord
    <3>2. QED BY <2>2, <3>1, <1>a DEF ThrottledUse, AttestedUse, UseChallenge, ChallengeRow
  <2>3. CASE FindOrCreateDevice(k) \/ StampDevice(k)
    <3>1. call'[k].chal = call[k].chal /\ call[k].pc \in {"x_row", "x_stamp"}
      BY <2>3, <1>a DEF FindOrCreateDevice, StampDevice, At, CallRecord
    <3>2. QED BY <1>1, <3>1, <1>b, Monotone DEF Spent
  <2>4. CASE RevokeOld(k)
    <3>1. call'[k].chal = call[k].chal /\ call[k].pc = "r_revoke"
      BY <2>4, <1>a DEF RevokeOld, Goto, At, CallRecord
    <3>2. QED BY <1>1, <3>1 DEF Wired, WiredCalls, RefreshSteps
  <2>5. ASSUME \/ \E c \in Challenges : Exchange(k, c)
               \/ \E s \in Sessions : Refresh(k, s) \/ Verify(k, s)
        PROVE  call'[k].pc \in {"x_device", "r_session", "v_session"}
    BY <2>5, Entry
  <2>6. ASSUME \/ ExchangeDevice(k) \/ Attest(k) \/ RefreshSession(k) \/ InsertSession(k)
               \/ StoreSecret(k) \/ VerifySession(k) \/ VerifySignature(k)
        PROVE  call'[k].pc \notin {"x_row", "x_stamp", "insert"}
    BY <2>6, <1>a DEF ExchangeDevice, Attest, RefreshSession, InsertSession, StoreSecret,
                      VerifySession, VerifySignature, Goto, CallRecord
  <2>7. QED BY <1>1, <2>1, <2>2, <2>3, <2>4, <2>5, <2>6, Stage
<1>2. ASSUME NEW k \in Calls, call'[k].pc = "insert", call'[k].par # 0
      PROVE  session'[call'[k].par].revoked
  <2>1. CASE call'[k].pc = call[k].pc
    <3>1. call'[k].par = call[k].par
      <4>1. call'[k] = call[k] \/ call'[k] = [call[k] EXCEPT !.alone = FALSE]
        BY <1>2, <2>1, StandsStill
      <4>2. QED BY <1>a, <4>1 DEF CallRecord
    <3>2. QED BY <1>2, <2>1, <3>1, <1>b, Monotone DEF Spent
  <2>2. CASE ThrottledUse(k) \/ StampDevice(k)
    <3>1. call'[k].par = call[k].par /\ call[k].pc \in ExchangeSteps
      BY <2>2, <1>a DEF ThrottledUse, StampDevice, Goto, At, CallRecord, ExchangeSteps
    <3>2. QED BY <1>2, <3>1 DEF Wired, WiredCalls
  <2>3. CASE RevokeOld(k)
    <3>1. call'[k].par = call[k].par
      BY <2>3, <1>a DEF RevokeOld, Goto, CallRecord
    <3>2. QED BY <1>2, <2>3, <3>1, <1>a, <1>b DEF RevokeOld, SessionRow
  <2>5. ASSUME \/ \E c \in Challenges : Exchange(k, c)
               \/ \E s \in Sessions : Refresh(k, s) \/ Verify(k, s)
        PROVE  call'[k].pc \in {"x_device", "r_session", "v_session"}
    BY <2>5, Entry
  <2>6. ASSUME \/ ExchangeDevice(k) \/ Attest(k) \/ AttestedUse(k) \/ FindOrCreateDevice(k)
               \/ RefreshSession(k) \/ InsertSession(k)
               \/ StoreSecret(k) \/ VerifySession(k) \/ VerifySignature(k)
        PROVE  call'[k].pc # "insert"
    BY <2>6, <1>a DEF ExchangeDevice, Attest, AttestedUse, FindOrCreateDevice, RefreshSession,
                      InsertSession, StoreSecret, VerifySession, VerifySignature, Goto, CallRecord
  <2>7. QED BY <1>2, <2>1, <2>2, <2>3, <2>5, <2>6, Stage
<1>3. SpentBeforeIssue'
  <2>1. ASSUME NEW s \in Sessions, s <= issued
        PROVE  /\ session'[s].chal # None => challenge'[session'[s].chal].used
               /\ session'[s].parent # 0 => session'[session'[s].parent].revoked
    <3>1. s \in 1 .. issued
      BY <2>1, <1>a DEF Sessions
    <3>2. QED BY <2>1, <3>1, <1>c, Monotone DEF Spent, SpentBeforeIssue, Sessions
  <2>2. CASE issued' = issued
    BY <2>1, <2>2 DEF SpentBeforeIssue
  <2>3. ASSUME NEW k \in Calls, InsertSession(k) PROVE SpentBeforeIssue'
    <3>1. /\ issued' = issued + 1 /\ issued + 1 \in Sessions
          /\ session'[issued + 1].chal = call[k].chal
          /\ session'[issued + 1].parent = call[k].par
          /\ \A s \in 1 .. issued : session'[s] = session[s]
          /\ challenge' = challenge
      BY <2>3, <1>a DEF InsertSession, Sessions
    <3>2. /\ call[k].chal # None => challenge[call[k].chal].used
          /\ call[k].par # 0 => session'[call[k].par].revoked
      BY <2>3, <3>1, <1>b DEF InsertSession, At, Spent
    <3>3. \A s \in Sessions : s <= issued + 1 => s <= issued \/ s = issued + 1
      BY <1>a DEF Sessions
    <3>4. QED BY <2>1, <3>1, <3>2, <3>3 DEF SpentBeforeIssue
  <2>4. CASE ~ \E k \in Calls : InsertSession(k)
    <3>1. issued' = issued
      BY <2>4 DEF Next, vars, CreateChallenge, Exchange, Refresh, Verify, ExchangeDevice,
          ThrottledUse, Attest, AttestedUse, FindOrCreateDevice, StampDevice, RefreshSession,
          RevokeOld, StoreSecret, Reply, Fail, VerifySession, VerifySignature, EndVerify,
          AttestationAges, Crash
    <3>2. QED BY <2>2, <3>1
  <2>5. QED BY <2>3, <2>4
<1>4. QED BY <1>1, <1>2, <1>3 DEF Spent

-----------------------------------------------------------------------------
\* A successful verdict in hand means that the device has been vouched for.
Trust ==
    /\ TrustedOnlyIfVouched
    /\ \A k \in Calls : call[k].verdict = "ok" => call[k].dev \in vouched

LEMMA TrustStep == TypeOK /\ Wired /\ Trust /\ [Next]_vars => Trust'
<1> SUFFICES ASSUME TypeOK, Wired, Trust, [Next]_vars PROVE Trust'
  OBVIOUS
<1>a. /\ call \in [Calls -> CallRecord] /\ device \in [Devices -> DeviceRow]
      /\ vouched \subseteq vouched'
  BY Monotone DEF TypeOK
<1>1. ASSUME NEW k \in Calls, call'[k].verdict = "ok" PROVE call'[k].dev \in vouched'
  <2>1. CASE call'[k].pc = "idle"
    <3>1. call'[k] = Idle
      BY <2>1, WiredStep DEF Wired, WiredCalls
    <3>2. QED BY <1>1, <3>1 DEF Idle
  <2>2. CASE call'[k].pc = call[k].pc /\ call'[k].pc # "idle"
    <3>1. call'[k].verdict = call[k].verdict /\ call'[k].dev = call[k].dev
      <4>1. call'[k] = call[k] \/ call'[k] = [call[k] EXCEPT !.alone = FALSE]
        BY <2>2, StandsStill
      <4>2. QED BY <1>a, <4>1 DEF CallRecord
    <3>2. QED BY <1>1, <1>a, <3>1 DEF Trust
  <2>3. CASE Attest(k)
    BY <1>1, <2>3, <1>a DEF Attest, CallRecord
  <2>4. ASSUME \/ \E c \in Challenges : Exchange(k, c)
               \/ \E s \in Sessions : Refresh(k, s) \/ Verify(k, s)
        PROVE  call'[k].verdict = "none"
    BY <2>4, Entry
  <2>5. ASSUME \/ ExchangeDevice(k) \/ ThrottledUse(k) \/ AttestedUse(k)
               \/ RefreshSession(k) \/ RevokeOld(k)
               \/ StoreSecret(k) \/ VerifySession(k) \/ VerifySignature(k)
        PROVE  call'[k].verdict = call[k].verdict /\ call'[k].dev = call[k].dev
    BY <2>5, <1>a DEF ExchangeDevice, ThrottledUse, AttestedUse, RefreshSession, RevokeOld,
                      StoreSecret, VerifySession, VerifySignature, Goto, CallRecord
  <2>6. ASSUME FindOrCreateDevice(k) \/ StampDevice(k) \/ InsertSession(k)
        PROVE  /\ call'[k].verdict \in {call[k].verdict, "none"}
               /\ call'[k].dev = call[k].dev
    BY <2>6, <1>a DEF FindOrCreateDevice, StampDevice, InsertSession, CallRecord
  <2>7. QED BY <1>1, <1>a, <2>1, <2>2, <2>3, <2>4, <2>5, <2>6, Stage DEF Trust
<1>2. TrustedOnlyIfVouched'
  <2>1. ASSUME NEW k \in Calls, StampDevice(k) PROVE TrustedOnlyIfVouched'
    <3>1. \A d \in Devices : device'[d].attested # device[d].attested =>
              d = call[k].dev /\ call[k].verdict = "ok"
      BY <2>1, <1>a DEF StampDevice, DeviceRow
    <3>2. QED BY <3>1, <1>a DEF Trust, TrustedOnlyIfVouched
  <2>2. ASSUME NEW k \in Calls, FindOrCreateDevice(k) \/ StoreSecret(k)
        PROVE  \A d \in Devices : device'[d].attested \in {device[d].attested, "never"}
    BY <2>2, <1>a DEF FindOrCreateDevice, StoreSecret, DeviceRow
  <2>3. ASSUME NEW d \in Devices, AttestationAges(d) PROVE TrustedOnlyIfVouched'
    BY <2>3, <1>a DEF AttestationAges, Trust, TrustedOnlyIfVouched
  <2>4. CASE UNCHANGED device
    BY <2>4, <1>a DEF Trust, TrustedOnlyIfVouched
  <2>5. ASSUME \E k \in Calls : FindOrCreateDevice(k) \/ StoreSecret(k)
        PROVE  TrustedOnlyIfVouched'
    BY <2>2, <2>5, <1>a DEF Trust, TrustedOnlyIfVouched
  <2>6. QED
    BY <2>1, <2>3, <2>4, <2>5
    DEF Next, vars, CreateChallenge, Exchange, Refresh, Verify, ExchangeDevice,
        ThrottledUse, Attest, AttestedUse, RefreshSession, RevokeOld, InsertSession,
        Reply, Fail, VerifySession, VerifySignature, EndVerify, Crash
<1>3. QED BY <1>1, <1>2 DEF Trust

\* A verification whose session was revoked before it began does not get past
\* the session lookup.
Retired ==
    \A k \in Calls : call[k].stale /\ call[k].pc \in VerifySteps =>
        session[call[k].par].revoked /\ call[k].pc = "v_session"

LEMMA RetiredStep == TypeOK /\ Wired /\ Retired /\ [Next]_vars => Retired'
<1> SUFFICES ASSUME TypeOK, Wired, Retired, [Next]_vars, NEW k \in Calls,
                    call'[k].stale, call'[k].pc \in VerifySteps
             PROVE  session'[call'[k].par].revoked /\ call'[k].pc = "v_session"
  BY DEF Retired
<1>a. /\ call \in [Calls -> CallRecord]
      /\ call[k].pc # "idle" => (call[k].par # 0 => call[k].par \in 1 .. issued)
      /\ call'[k].pc # "idle"
  BY Stages DEF TypeOK, CallRecord, SessionOrNone, Wired, WiredCalls
<1>1. CASE call'[k].pc = call[k].pc
  <2>1. call'[k].par = call[k].par /\ call[k].stale
    <3>1. CASE call'[k] = call[k]
      BY <3>1
    <3>2. CASE call'[k] = [call[k] EXCEPT !.alone = FALSE]
      BY <3>2, <1>a DEF CallRecord
    <3>3. QED BY <1>1, <1>a, <3>1, <3>2, StandsStill
  <2>2. QED BY <1>1, <2>1, <1>a, Monotone, Stages DEF Retired, Wired, WiredCalls
<1>2. ASSUME NEW s \in Sessions, Verify(k, s)
      PROVE  session'[call'[k].par].revoked /\ call'[k].pc = "v_session"
  BY <1>2, Entry DEF Verify
<1>3. ASSUME VerifySession(k) \/ VerifySignature(k) PROVE FALSE
  <2>1. call'[k].stale = call[k].stale /\ call[k].pc \in {"v_session", "v_sign"}
    BY <1>3, <1>a DEF VerifySession, VerifySignature, Goto, At, CallRecord
  <2>2. call[k].pc \in VerifySteps
    BY <2>1 DEF VerifySteps
  <2>3. session[call[k].par].revoked /\ call[k].pc = "v_session"
    BY <2>1, <2>2 DEF Retired
  <2>4. QED BY <1>3, <2>3 DEF VerifySession, VerifySignature, At
<1>4. ASSUME \/ \E c \in Challenges : Exchange(k, c)
             \/ \E s \in Sessions : Refresh(k, s)
      PROVE  call'[k].pc \notin VerifySteps
  BY <1>4, Entry DEF VerifySteps
<1>5. ASSUME \/ ExchangeDevice(k) \/ ThrottledUse(k) \/ Attest(k) \/ AttestedUse(k)
             \/ FindOrCreateDevice(k) \/ StampDevice(k) \/ RefreshSession(k) \/ RevokeOld(k)
             \/ InsertSession(k) \/ StoreSecret(k)
      PROVE  call'[k].pc \notin VerifySteps
  BY <1>5, <1>a DEF ExchangeDevice, ThrottledUse, Attest, AttestedUse, FindOrCreateDevice,
     StampDevice, RefreshSession, RevokeOld, InsertSession, StoreSecret, Goto, CallRecord,
     VerifySteps
<1>6. QED BY <1>1, <1>2, <1>3, <1>4, <1>5, <1>a, Stage

-----------------------------------------------------------------------------
\* A call marked alone is the only issuing call of its device.
Exclusive ==
    \A k, j \in Calls :
        Issuing(k) /\ Issuing(j) /\ call[j].dev = call[k].dev /\ call[k].alone => j = k

\* An issuing call for d begins.
Enters(k, d) ==
    \/ \E c \in Challenges : Exchange(k, c) /\ d = challenge[c].dev
    \/ \E s \in Sessions : Refresh(k, s) /\ d = session[s].dev

\* Who is alone after that.
LEMMA EntryAlone ==
    ASSUME TypeOK, Wired, NEW k \in Calls, NEW d, Enters(k, d)
    PROVE  /\ d \in Devices /\ call'[k].dev = d /\ ~ Issuing(k)
           /\ call'[k].alone <=> IssuingFor(d) = {}
           /\ \A j \in Calls : j # k =>
                 /\ call'[j].pc = call[j].pc /\ call'[j].dev = call[j].dev
                 /\ call'[j].chal = call[j].chal /\ call'[j].par = call[j].par
                 /\ call'[j].sid = call[j].sid
                 /\ call'[j].alone => call[j].alone /\ j \notin IssuingFor(d)
                 /\ j \notin IssuingFor(d) => call'[j] = call[j]
           /\ reliable' = IF IssuingFor(d) = {} THEN reliable ELSE [reliable EXCEPT ![d] = 0]
           /\ UNCHANGED <<challenge, device, session, issued, delivered, vouched>>
<1>1. PICK f : Begin(k, d, f) /\ DOMAIN f = DOMAIN Idle
  <2>1. ASSUME NEW c \in Challenges, Exchange(k, c), d = challenge[c].dev
        PROVE  \E f : Begin(k, d, f) /\ DOMAIN f = DOMAIN Idle
    <3> DEFINE g == [Idle EXCEPT !.pc = "x_device", !.dev = d, !.chal = c]
    <3>1. Begin(k, d, g)
      BY <2>1 DEF Exchange
    <3>2. DOMAIN g = DOMAIN Idle
      BY DEF Idle
    <3> HIDE DEF g
    <3>3. QED BY <3>1, <3>2
  <2>2. ASSUME NEW s \in Sessions, Refresh(k, s), d = session[s].dev
        PROVE  \E f : Begin(k, d, f) /\ DOMAIN f = DOMAIN Idle
    <3> DEFINE g == [Idle EXCEPT !.pc = "r_session", !.dev = d, !.par = s]
    <3>1. Begin(k, d, g)
      BY <2>2 DEF Refresh
    <3>2. DOMAIN g = DOMAIN Idle
      BY DEF Idle
    <3> HIDE DEF g
    <3>3. QED BY <3>1, <3>2
  <2>3. QED BY <2>1, <2>2 DEF Enters
<1>2. At(k, "idle") /\ UNCHANGED <<challenge, device, session, issued, delivered, vouched>>
  BY DEF Enters, Exchange, Refresh
<1>3. d \in Devices /\ call'[k].dev = d
  <2>1. CASE \E c \in Challenges : Exchange(k, c) /\ d = challenge[c].dev
    <3>1. PICK c \in Challenges : Exchange(k, c) /\ d = challenge[c].dev
      BY <2>1
    <3>2. challenge[c] \in ChallengeRow /\ challenge[c].dev # None
      BY <3>1 DEF Exchange, TypeOK
    <3>3. QED BY <3>1, <3>2, Entry DEF ChallengeRow
  <2>2. CASE \E s \in Sessions : Refresh(k, s) /\ d = session[s].dev
    <3>1. PICK s \in Sessions : Refresh(k, s) /\ d = session[s].dev
      BY <2>2
    <3>2. session[s].dev \in Devices
      BY <3>1 DEF Refresh, Wired, WiredTables
    <3>3. QED BY <3>1, <3>2, Entry
  <2>3. QED BY <2>1, <2>2 DEF Enters
<1>4. call \in [Calls -> CallRecord]
  BY DEF TypeOK
<1>5. call'[k].alone <=> IssuingFor(d) = {}
  <2> DEFINE b == (IssuingFor(d) = {})
  <2>1. call'[k] = [f EXCEPT !.alone = b]
    BY <1>1 DEF Begin
  <2>2. "alone" \in DOMAIN f
    BY <1>1 DEF Idle
  <2>3. call'[k].alone = b
    <3> HIDE DEF b
    <3>1. QED BY <2>1, <2>2
  <2>4. QED BY <2>3, Zenon
<1>6. ASSUME NEW j \in Calls, j # k
      PROVE  /\ call'[j].pc = call[j].pc /\ call'[j].dev = call[j].dev
             /\ call'[j].chal = call[j].chal /\ call'[j].par = call[j].par
             /\ call'[j].sid = call[j].sid
             /\ call'[j].alone => call[j].alone /\ j \notin IssuingFor(d)
             /\ j \notin IssuingFor(d) => call'[j] = call[j]
  <2>1. call[j] \in CallRecord
    BY <1>4
  <2>2. CASE j \in IssuingFor(d)
    <3>1. call'[j] = [call[j] EXCEPT !.alone = FALSE]
      BY <1>1, <1>6, <2>2 DEF Begin
    <3>2. QED BY <2>1, <2>2, <3>1 DEF CallRecord
  <2>3. CASE j \notin IssuingFor(d)
    <3>1. call'[j] = call[j]
      BY <1>1, <1>6, <2>3 DEF Begin
    <3>2. QED BY <2>3, <3>1
  <2>4. QED BY <2>2, <2>3
<1>7. reliable' = IF IssuingFor(d) = {} THEN reliable ELSE [reliable EXCEPT ![d] = 0]
  BY <1>1 DEF Begin
<1>8. ~ Issuing(k)
  BY <1>2, Stages DEF At, Issuing
<1>9. QED BY <1>2, <1>3, <1>5, <1>6, <1>7, <1>8

\* An issuing call has just begun, or it was one before with the same device and
\* credential, and alone then if it is alone now.
LEMMA Onward ==
    ASSUME TypeOK, Wired, [Next]_vars, NEW k \in Calls, Issuing(k)'
    PROVE  \/ \E d \in Devices : Enters(k, d)
           \/ /\ Issuing(k)
              /\ call'[k].dev = call[k].dev /\ call'[k].par = call[k].par
              /\ call'[k].chal \in {call[k].chal, None}
              /\ call'[k].alone => call[k].alone
<1> DEFINE same == /\ call'[k].dev = call[k].dev /\ call'[k].par = call[k].par
                   /\ call'[k].chal \in {call[k].chal, None}
                   /\ call'[k].alone => call[k].alone
<1>a. call \in [Calls -> CallRecord] /\ call[k] \in CallRecord
  BY DEF TypeOK
<1>b. call'[k].pc \in ExchangeSteps \cup RefreshSteps \cup IssueSteps
  BY DEF Issuing
<1>c. ASSUME NEW p, Goto(k, p) PROVE same
  BY <1>a, <1>c DEF Goto, CallRecord
<1>1. CASE call'[k].pc = call[k].pc
  <2>1. call'[k] = call[k] \/ call'[k] = [call[k] EXCEPT !.alone = FALSE]
    BY <1>1, <1>b, StandsStill, Stages
  <2>2. same
    BY <1>a, <2>1 DEF CallRecord
  <2>3. Issuing(k)
    BY <1>1, <1>b DEF Issuing
  <2>4. QED BY <2>2, <2>3
<1>2. CASE call'[k].pc # call[k].pc
  <2>1. CASE \E c \in Challenges : Exchange(k, c)
    <3>1. PICK c \in Challenges : Exchange(k, c)
      BY <2>1
    <3>2. Enters(k, challenge[c].dev)
      BY <3>1 DEF Enters
    <3>3. QED BY <3>2, EntryAlone
  <2>2. CASE \E s \in Sessions : Refresh(k, s)
    <3>1. PICK s \in Sessions : Refresh(k, s)
      BY <2>2
    <3>2. Enters(k, session[s].dev)
      BY <3>1 DEF Enters
    <3>3. QED BY <3>2, EntryAlone
  <2>3. ~ (\E s \in Sessions : Verify(k, s)) /\ ~ VerifySession(k) /\ ~ VerifySignature(k)
    <3>1. ASSUME NEW s \in Sessions, Verify(k, s) PROVE FALSE
      BY <1>b, <3>1, Entry, Stages DEF VerifySteps
    <3>2. ASSUME VerifySession(k) \/ VerifySignature(k) PROVE FALSE
      <4>1. call'[k].pc \in VerifySteps
        BY <1>a, <3>2 DEF VerifySession, VerifySignature, Goto, CallRecord, VerifySteps
      <4>2. QED BY <1>b, <4>1, Stages
    <3>3. QED BY <3>1, <3>2
  <2>4. ASSUME \/ ExchangeDevice(k) \/ ThrottledUse(k) \/ AttestedUse(k)
               \/ RefreshSession(k) \/ RevokeOld(k) \/ StoreSecret(k)
        PROVE  Issuing(k) /\ same
    <3>1. same
      <4> HIDE DEF same
      <4>1. QED BY <1>c, <2>4 DEF ExchangeDevice, ThrottledUse, AttestedUse, RefreshSession,
                                  RevokeOld, StoreSecret
    <3>2. Issuing(k)
      BY <2>4 DEF ExchangeDevice, ThrottledUse, AttestedUse, RefreshSession, RevokeOld, StoreSecret,
                  At, Issuing, ExchangeSteps, RefreshSteps, IssueSteps
    <3>3. QED BY <3>1, <3>2
  <2>5. ASSUME Attest(k) \/ FindOrCreateDevice(k) \/ StampDevice(k) \/ InsertSession(k)
        PROVE  Issuing(k) /\ same
    <3>1. CASE Attest(k)
      BY <1>a, <3>1 DEF Attest, CallRecord, At, Issuing, ExchangeSteps
    <3>2. CASE FindOrCreateDevice(k)
      BY <1>a, <3>2 DEF FindOrCreateDevice, CallRecord, At, Issuing, ExchangeSteps
    <3>3. CASE StampDevice(k)
      BY <1>a, <3>3 DEF StampDevice, CallRecord, At, Issuing, ExchangeSteps
    <3>4. CASE InsertSession(k)
      BY <1>a, <3>4 DEF InsertSession, CallRecord, At, Issuing, IssueSteps
    <3>5. QED BY <2>5, <3>1, <3>2, <3>3, <3>4
  <2>6. call'[k].pc # "idle"
    BY <1>b, Stages
  <2>7. QED BY <1>2, <2>1, <2>2, <2>3, <2>4, <2>5, <2>6, Stage
<1>3. QED BY <1>1, <1>2

LEMMA ExclusiveStep == TypeOK /\ Wired /\ Exclusive /\ [Next]_vars => Exclusive'
<1> SUFFICES ASSUME TypeOK, Wired, Exclusive, [Next]_vars, NEW k \in Calls, NEW j \in Calls,
                    Issuing(k)', Issuing(j)', call'[j].dev = call'[k].dev, call'[k].alone, j # k
             PROVE  FALSE
  BY DEF Exclusive
<1>1. CASE \E d \in Devices : Enters(k, d)
  <2>1. PICK d \in Devices : Enters(k, d)
    BY <1>1
  <2>2. IssuingFor(d) = {} /\ call'[k].dev = d
    BY <2>1, EntryAlone
  <2>3. Issuing(j) /\ call[j].dev = d
    BY <2>1, <2>2, EntryAlone DEF Issuing
  <2>4. QED BY <2>2, <2>3 DEF IssuingFor
<1>2. CASE \E d \in Devices : Enters(j, d)
  <2>1. PICK d \in Devices : Enters(j, d)
    BY <1>2
  <2>2. Issuing(k) /\ call[k].dev = d /\ k \notin IssuingFor(d)
    BY <2>1, EntryAlone DEF Issuing
  <2>3. QED BY <2>2 DEF IssuingFor
<1>3. CASE ~ (\E d \in Devices : Enters(k, d)) /\ ~ (\E d \in Devices : Enters(j, d))
  BY <1>3, Onward DEF Exclusive
<1>4. QED BY <1>1, <1>2, <1>3

-----------------------------------------------------------------------------
\* The one step that adds a session.
LEMMA Insertion ==
    ASSUME TypeOK, Wired, NEW k \in Calls, InsertSession(k)
    PROVE  /\ issued' = issued + 1 /\ issued + 1 \in Sessions
           /\ session'[issued + 1].chal = call[k].chal
           /\ session'[issued + 1].parent = call[k].par
           /\ session'[issued + 1].solo = call[k].alone
           /\ ~ session'[issued + 1].revoked
           /\ \A s \in 1 .. issued : session'[s] = session[s]
           /\ UNCHANGED <<challenge, device, delivered, reliable>>
           /\ call[k].pc = "insert" /\ call'[k].pc = "secret"
           /\ call'[k].sid = issued + 1 /\ call'[k].dev = call[k].dev
           /\ call'[k].par = call[k].par /\ call'[k].alone = call[k].alone
           /\ \A j \in Calls : j # k => call'[j] = call[j]
<1>1. /\ session \in [Sessions -> SessionRow] /\ call \in [Calls -> CallRecord]
      /\ issued \in 0 .. MaxSession
  BY DEF TypeOK, SessionOrNone
<1>2. issued + 1 \in Sessions /\ \A s \in 1 .. issued : s \in Sessions /\ s # issued + 1
  BY <1>1 DEF InsertSession, Sessions
<1>3. /\ session'[issued + 1].chal = call[k].chal
      /\ session'[issued + 1].parent = call[k].par
      /\ session'[issued + 1].solo = call[k].alone
      /\ ~ session'[issued + 1].revoked
      /\ \A s \in 1 .. issued : session'[s] = session[s]
  BY <1>1, <1>2 DEF InsertSession
<1>4. /\ call'[k].pc = "secret" /\ call'[k].sid = issued + 1 /\ call'[k].dev = call[k].dev
      /\ call'[k].par = call[k].par /\ call'[k].alone = call[k].alone
      /\ \A j \in Calls : j # k => call'[j] = call[j]
  BY <1>1 DEF InsertSession, CallRecord
<1>5. QED BY <1>2, <1>3, <1>4 DEF InsertSession, At

LEMMA OnlyInsertion ==
    ASSUME [Next]_vars, issued' # issued PROVE \E k \in Calls : InsertSession(k)
BY DEF Next, vars, CreateChallenge, Exchange, Refresh, Verify, ExchangeDevice,
       ThrottledUse, Attest, AttestedUse, FindOrCreateDevice, StampDevice, RefreshSession,
       RevokeOld, StoreSecret, Reply, Fail, VerifySession, VerifySignature, EndVerify,
       AttestationAges, Crash

\* The credential of a call bought session s.
Bought(k, s) ==
    \/ call[k].chal # None /\ session[s].chal = call[k].chal
    \/ call[k].par # 0 /\ session[s].parent = call[k].par

\* If such a credential has bought a session, that was in a call that overlapped.
Fresh ==
    \A k \in Calls, s \in 1 .. issued :
        Unpaid(k) /\ Bought(k, s) => ~ call[k].alone /\ ~ session[s].solo

\* An unpaid call was so before, or its credential is found unspent in this step.
LEMMA UnpaidFrom ==
    ASSUME TypeOK, Wired, [Next]_vars, NEW k \in Calls, Unpaid(k)'
    PROVE  \/ \E c \in Challenges : Exchange(k, c)
           \/ RefreshSession(k)
           \/ Unpaid(k) /\ call'[k].chal = call[k].chal
<1>a. call[k] \in CallRecord /\ call \in [Calls -> CallRecord]
  BY DEF TypeOK
<1>b. call'[k].pc \in {"x_device", "x_seen", "x_attest", "x_use", "x_row", "x_stamp",
                       "r_revoke", "insert"}
  BY DEF Unpaid, ExchangeSteps
<1>c. ASSUME NEW p, Goto(k, p) PROVE call'[k].chal = call[k].chal
  BY <1>a, <1>c DEF Goto, CallRecord
<1>1. CASE call'[k].pc = call[k].pc
  <2>1. call'[k] = call[k] \/ call'[k] = [call[k] EXCEPT !.alone = FALSE]
    BY <1>1, <1>b, StandsStill
  <2>2. call'[k].chal = call[k].chal
    BY <1>a, <2>1 DEF CallRecord
  <2>3. QED BY <1>1, <2>2 DEF Unpaid
<1>2. CASE call'[k].pc # call[k].pc
  <2>1. ASSUME ExchangeDevice(k) \/ ThrottledUse(k) \/ AttestedUse(k) \/ RevokeOld(k)
        PROVE  Unpaid(k) /\ call'[k].chal = call[k].chal
    <3>1. call'[k].chal = call[k].chal
      BY <1>c, <2>1 DEF ExchangeDevice, ThrottledUse, AttestedUse, RevokeOld
    <3>2. QED BY <2>1, <3>1 DEF ExchangeDevice, ThrottledUse, AttestedUse, RevokeOld, At, Unpaid,
                                ExchangeSteps
  <2>2. ASSUME Attest(k) \/ FindOrCreateDevice(k) \/ StampDevice(k)
        PROVE  Unpaid(k) /\ call'[k].chal = call[k].chal
    <3>1. CASE Attest(k)
      BY <1>a, <3>1 DEF Attest, CallRecord, At, Unpaid, ExchangeSteps
    <3>2. CASE FindOrCreateDevice(k)
      BY <1>a, <3>2 DEF FindOrCreateDevice, CallRecord, At, Unpaid, ExchangeSteps
    <3>3. CASE StampDevice(k)
      BY <1>a, <3>3 DEF StampDevice, CallRecord, At, Unpaid, ExchangeSteps
    <3>4. QED BY <2>2, <3>1, <3>2, <3>3
  <2>3. ASSUME InsertSession(k) \/ StoreSecret(k) \/ VerifySession(k) \/ VerifySignature(k)
        PROVE  FALSE
    <3>1. call'[k].pc \in {"secret", "reply", "v_sign", "v_serve"}
      BY <1>a, <2>3 DEF InsertSession, StoreSecret, VerifySession, VerifySignature, Goto, CallRecord
    <3>2. QED BY <1>b, <3>1
  <2>4. ASSUME NEW s \in Sessions, Refresh(k, s) \/ Verify(k, s) PROVE FALSE
    BY <1>b, <2>4, Entry
  <2>5. QED BY <1>2, <1>b, <2>1, <2>2, <2>3, <2>4, Stage
<1>3. QED BY <1>1, <1>2

\* Two unpaid calls with one credential are of one device.
LEMMA OneDevice ==
    ASSUME Wired, NEW k \in Calls, NEW j \in Calls,
           \/ call[k].chal # None /\ call[j].chal = call[k].chal
           \/ call[k].par # 0 /\ call[j].par = call[k].par
    PROVE  call[j].dev = call[k].dev
BY DEF Wired, WiredCalls

LEMMA FreshStep == TypeOK /\ Wired /\ Spent /\ Exclusive /\ Fresh /\ [Next]_vars => Fresh'
<1> SUFFICES ASSUME TypeOK, Wired, Spent, Exclusive, Fresh, [Next]_vars,
                    NEW k \in Calls, NEW s \in 1 .. issued', Unpaid(k)', Bought(k, s)'
             PROVE  ~ call'[k].alone /\ ~ session'[s].solo
  BY DEF Fresh
<1>a. /\ issued \in 0 .. MaxSession /\ 1 .. issued \subseteq Sessions
      /\ call \in [Calls -> CallRecord] /\ session \in [Sessions -> SessionRow]
  BY DEF TypeOK, SessionOrNone, Sessions
<1>b. ASSUME NEW t \in 1 .. issued
      PROVE  /\ t \in Sessions /\ t <= issued
             /\ session'[t].chal = session[t].chal /\ session'[t].parent = session[t].parent
             /\ session'[t].solo = session[t].solo
  BY <1>a, Monotone
<1>c. \/ call'[k].chal # None /\ session'[s].chal = call'[k].chal
      \/ call'[k].par # 0 /\ session'[s].parent = call'[k].par
  BY DEF Bought
<1>1. ASSUME NEW c \in Challenges, Exchange(k, c) PROVE FALSE
  <2>1. issued' = issued /\ ~ challenge[c].used
    BY <1>1 DEF Exchange
  <2>2. call'[k].chal = c /\ call'[k].par = 0
    BY <1>1, Entry
  <2>3. s \in 1 .. issued /\ session[s].chal = c /\ c # None
    BY <1>b, <1>c, <2>1, <2>2
  <2>4. QED BY <1>b, <2>1, <2>3 DEF Spent, SpentBeforeIssue
<1>2. ASSUME RefreshSession(k) PROVE FALSE
  <2>1. issued' = issued /\ ~ session[call[k].par].revoked /\ call[k].pc = "r_session"
    BY <1>2 DEF RefreshSession, At
  <2>2. call'[k].chal = call[k].chal /\ call'[k].par = call[k].par
    BY <1>2, <1>a DEF RefreshSession, Goto, CallRecord
  <2>3. call[k].chal = None
    BY <2>1 DEF Wired, WiredCalls, RefreshSteps
  <2>4. s \in 1 .. issued /\ session[s].parent = call[k].par /\ call[k].par # 0
    BY <1>b, <1>c, <2>1, <2>2, <2>3
  <2>5. QED BY <1>b, <2>1, <2>4 DEF Spent, SpentBeforeIssue
<1>3. CASE Unpaid(k) /\ call'[k].chal = call[k].chal
           /\ ~ (\E c \in Challenges : Exchange(k, c)) /\ ~ RefreshSession(k)
  <2>1. Issuing(k) /\ Issuing(k)'
    BY <1>3 DEF Unpaid, Issuing, RefreshSteps, IssueSteps
  <2>2. call'[k].par = call[k].par /\ (call'[k].alone => call[k].alone)
    BY <2>1, Onward, EntryAlone
  <2>3. CASE s \in 1 .. issued
    <3>1. Bought(k, s)
      BY <1>3, <1>b, <1>c, <2>2, <2>3 DEF Bought
    <3>2. ~ call[k].alone /\ ~ session[s].solo
      BY <1>3, <2>3, <3>1 DEF Fresh
    <3>3. QED BY <1>b, <2>2, <2>3, <3>2
  <2>4. CASE s \notin 1 .. issued
    <3>1. issued' # issued
      BY <2>4
    <3>2. PICK j \in Calls : InsertSession(j)
      BY <3>1, OnlyInsertion
    <3>3. s = issued + 1
      BY <1>a, <2>4, <3>2, Insertion
    <3>4. /\ session'[s].chal = call[j].chal /\ session'[s].parent = call[j].par
          /\ session'[s].solo = call[j].alone /\ call[j].pc = "insert" /\ call'[j].pc = "secret"
      BY <3>2, <3>3, Insertion
    <3>5. j # k
      BY <3>4 DEF Unpaid, ExchangeSteps
    <3>6. call[j].dev = call[k].dev
      <4>1. \/ call[k].chal # None /\ call[j].chal = call[k].chal
            \/ call[k].par # 0 /\ call[j].par = call[k].par
        BY <1>3, <1>c, <2>2, <3>4
      <4>2. QED BY <4>1, OneDevice
    <3>7. Issuing(j)
      BY <3>4 DEF Issuing, IssueSteps
    <3>8. ~ call[j].alone /\ ~ call[k].alone
      BY <2>1, <3>5, <3>6, <3>7 DEF Exclusive
    <3>9. QED BY <2>2, <3>4, <3>8
  <2>5. QED BY <2>3, <2>4
<1>4. QED BY <1>1, <1>2, <1>3, UnpaidFrom

LEMMA SingleUseStep ==
    TypeOK /\ Wired /\ Spent /\ Fresh /\ SingleUseUnlessOverlapped /\ [Next]_vars
        => SingleUseUnlessOverlapped'
<1> SUFFICES ASSUME TypeOK, Wired, Spent, Fresh, SingleUseUnlessOverlapped, [Next]_vars
             PROVE  SingleUseUnlessOverlapped'
  OBVIOUS
<1>a. issued \in Nat
  BY DEF TypeOK, SessionOrNone
<1>b. ASSUME NEW t \in 1 .. issued
      PROVE  /\ session'[t].chal = session[t].chal /\ session'[t].parent = session[t].parent
             /\ session'[t].solo = session[t].solo
  BY Monotone
<1>1. ASSUME NEW s \in 1 .. issued, NEW t \in 1 .. issued, s # t, SameCredential(s, t)'
      PROVE  ~ session'[s].solo /\ ~ session'[t].solo
  <2>1. SameCredential(s, t)
    BY <1>1, <1>b DEF SameCredential
  <2>2. QED BY <1>1, <1>b, <2>1 DEF SingleUseUnlessOverlapped
<1>2. ASSUME NEW k \in Calls, InsertSession(k), NEW n, n = issued + 1, NEW t \in 1 .. issued,
             SameCredential(n, t)' \/ SameCredential(t, n)'
      PROVE  ~ session'[n].solo /\ ~ session'[t].solo
  <2>1. /\ session'[n].chal = call[k].chal /\ session'[n].parent = call[k].par
        /\ session'[n].solo = call[k].alone /\ call[k].pc = "insert"
    BY <1>2, Insertion
  <2>2. \/ session'[n].chal # None /\ session'[t].chal = session'[n].chal
        \/ session'[n].parent # 0 /\ session'[t].parent = session'[n].parent
    BY <1>2 DEF SameCredential
  <2>3. Unpaid(k) /\ Bought(k, t)
    BY <1>b, <2>1, <2>2 DEF Unpaid, Bought
  <2>4. ~ call[k].alone /\ ~ session[t].solo
    BY <2>3 DEF Fresh
  <2>5. QED BY <1>b, <2>1, <2>4
<1>3. CASE issued' = issued
  BY <1>1, <1>3 DEF SingleUseUnlessOverlapped
<1>4. CASE issued' # issued
  <2>1. PICK k \in Calls : InsertSession(k)
    BY <1>4, OnlyInsertion
  <2>2. issued' = issued + 1
    BY <2>1, Insertion
  <2>3. ASSUME NEW s \in 1 .. issued', NEW t \in 1 .. issued', s # t, SameCredential(s, t)'
        PROVE  ~ session'[s].solo /\ ~ session'[t].solo
    <3>1. CASE s \in 1 .. issued /\ t \in 1 .. issued
      BY <1>1, <2>3, <3>1
    <3>2. CASE s = issued + 1 /\ t \in 1 .. issued
      BY <1>2, <2>1, <2>3, <3>2
    <3>3. CASE t = issued + 1 /\ s \in 1 .. issued
      BY <1>2, <2>1, <2>3, <3>3
    <3>4. QED BY <1>a, <2>2, <2>3, <3>1, <3>2, <3>3
  <2>4. QED BY <2>3 DEF SingleUseUnlessOverlapped
<1>5. QED BY <1>3, <1>4

-----------------------------------------------------------------------------
\* A call that ends has replied, failed, finished its verification or died.
LEMMA Ends ==
    ASSUME TypeOK, Wired, [Next]_vars, NEW k \in Calls, call[k].pc # "idle", call'[k].pc = "idle"
    PROVE  Reply(k) \/ Fail(k) \/ EndVerify(k) \/ Crash
<1>a. call \in [Calls -> CallRecord]
  BY DEF TypeOK
<1>b. ASSUME NEW j \in Calls, NEW p, Goto(j, p) PROVE call'[k].pc \in {call[k].pc, p}
  BY <1>a, <1>b DEF Goto, CallRecord
<1>1. ASSUME NEW j \in Calls, Reply(j) \/ Fail(j) \/ EndVerify(j) PROVE j = k
  BY <1>1, <1>a DEF Reply, Fail, EndVerify
<1>2. ASSUME NEW j \in Calls, NEW d \in Devices, Enters(j, d) PROVE FALSE
  <2>1. CASE j = k
    BY <1>2, <2>1, EntryAlone, Entry DEF Enters
  <2>2. CASE j # k
    BY <1>2, <2>2, EntryAlone
  <2>3. QED BY <2>1, <2>2
<1>3. ASSUME NEW j \in Calls, \E c \in Challenges : Exchange(j, c) PROVE FALSE
  <2>1. PICK c \in Challenges : Exchange(j, c)
    BY <1>3
  <2>2. Enters(j, challenge[c].dev)
    BY <2>1 DEF Enters
  <2>3. QED BY <1>2, <2>2, EntryAlone
<1>4. ASSUME NEW j \in Calls, \E s \in Sessions : Refresh(j, s) PROVE FALSE
  <2>1. PICK s \in Sessions : Refresh(j, s)
    BY <1>4
  <2>2. Enters(j, session[s].dev)
    BY <2>1 DEF Enters
  <2>3. QED BY <1>2, <2>2, EntryAlone
<1>5. ASSUME NEW j \in Calls, NEW s \in Sessions, Verify(j, s) PROVE FALSE
  <2>1. CASE j = k
    BY <1>5, <2>1, Entry
  <2>2. CASE j # k
    BY <1>5, <2>2, <1>a DEF Verify
  <2>3. QED BY <2>1, <2>2
<1>6. ASSUME NEW j \in Calls,
             \/ ExchangeDevice(j) \/ ThrottledUse(j) \/ AttestedUse(j)
             \/ RefreshSession(j) \/ RevokeOld(j)
             \/ StoreSecret(j) \/ VerifySession(j) \/ VerifySignature(j)
      PROVE  FALSE
  <2>1. PICK p \in {"x_seen", "x_attest", "insert", "x_row", "r_revoke", "reply", "v_sign",
                    "v_serve"} : Goto(j, p)
    BY <1>6 DEF ExchangeDevice, ThrottledUse, AttestedUse, RefreshSession, RevokeOld, StoreSecret,
                VerifySession, VerifySignature
  <2>2. QED BY <1>b, <2>1
<1>7. ASSUME NEW j \in Calls, Attest(j) \/ FindOrCreateDevice(j) \/ StampDevice(j)
                              \/ InsertSession(j)
      PROVE  FALSE
  BY <1>7, <1>a DEF Attest, FindOrCreateDevice, StampDevice, InsertSession, CallRecord
<1>8. ASSUME \/ \E c \in Challenges, d \in Devices : CreateChallenge(c, d)
             \/ \E d \in Devices : AttestationAges(d)
             \/ UNCHANGED vars
      PROVE  FALSE
  BY <1>8 DEF CreateChallenge, AttestationAges, vars
<1>9. QED
  BY <1>1, <1>3, <1>4, <1>5, <1>6, <1>7, <1>8 DEF Next

\* A call stays alone until another issuing call of its device begins.
LEMMA AloneKept ==
    ASSUME TypeOK, Wired, [Next]_vars, NEW k \in Calls, Issuing(k), Issuing(k)', call[k].alone,
           ~ call'[k].alone
    PROVE  \E j \in Calls \ {k} : Enters(j, call[k].dev)
<1>a. call \in [Calls -> CallRecord]
  BY DEF TypeOK
<1>b. ASSUME NEW j \in Calls, NEW p, Goto(j, p) PROVE FALSE
  BY <1>a, <1>b DEF Goto, CallRecord
<1>c. call'[k].pc # "idle"
  BY Stages DEF Issuing
<1>1. ASSUME NEW j \in Calls, NEW d, Enters(j, d) PROVE j # k /\ Enters(j, call[k].dev)
  <2>1. j # k
    BY <1>1, EntryAlone
  <2>2. k \in IssuingFor(d)
    BY <1>1, <2>1, EntryAlone
  <2>3. QED BY <1>1, <2>1, <2>2 DEF IssuingFor
<1>2. ASSUME NEW j \in Calls, NEW s \in Sessions, Verify(j, s) PROVE FALSE
  <2>1. j # k
    BY <1>2, Stages DEF Verify, At, Issuing
  <2>2. QED BY <1>2, <2>1, <1>a DEF Verify
<1>3. ASSUME NEW j \in Calls,
             \/ ExchangeDevice(j) \/ ThrottledUse(j) \/ AttestedUse(j)
             \/ RefreshSession(j) \/ RevokeOld(j)
             \/ StoreSecret(j) \/ VerifySession(j) \/ VerifySignature(j)
      PROVE  FALSE
  BY <1>b, <1>3 DEF ExchangeDevice, ThrottledUse, AttestedUse, RefreshSession, RevokeOld,
                    StoreSecret, VerifySession, VerifySignature
<1>4. ASSUME NEW j \in Calls, Attest(j) \/ FindOrCreateDevice(j) \/ StampDevice(j)
                              \/ InsertSession(j)
      PROVE  FALSE
  BY <1>4, <1>a DEF Attest, FindOrCreateDevice, StampDevice, InsertSession, CallRecord
<1>5. ASSUME NEW j \in Calls, Reply(j) \/ Fail(j) \/ EndVerify(j) PROVE FALSE
  BY <1>5, <1>a, <1>c DEF Reply, Fail, EndVerify, Idle
<1>6. ASSUME \/ \E c \in Challenges, d \in Devices : CreateChallenge(c, d)
             \/ \E d \in Devices : AttestationAges(d)
             \/ Crash
             \/ UNCHANGED vars
      PROVE  FALSE
  BY <1>6, <1>c DEF CreateChallenge, AttestationAges, vars, Crash, Idle
<1>7. ASSUME NEW j \in Calls, \E c \in Challenges : Exchange(j, c) PROVE \E d : Enters(j, d)
  <2>1. PICK c \in Challenges : Exchange(j, c)
    BY <1>7
  <2>2. Enters(j, challenge[c].dev)
    BY <2>1 DEF Enters
  <2>3. QED BY <2>2
<1>8. ASSUME NEW j \in Calls, \E s \in Sessions : Refresh(j, s) PROVE \E d : Enters(j, d)
  <2>1. PICK s \in Sessions : Refresh(j, s)
    BY <1>8
  <2>2. Enters(j, session[s].dev)
    BY <2>1 DEF Enters
  <2>3. QED BY <2>2
<1>9. QED
  BY <1>1, <1>2, <1>3, <1>4, <1>5, <1>6, <1>7, <1>8 DEF Next

\* What a client can come to rely on, where the secret of a device and the end of a
\* session come from.
LEMMA RelianceMoves ==
    ASSUME TypeOK, Wired, [Next]_vars, NEW d \in Devices, reliable'[d] # 0
    PROVE  \/ \E k \in Calls : /\ Reply(k) /\ call[k].dev = d /\ call[k].alone
                               /\ reliable'[d] = call[k].sid
           \/ /\ reliable'[d] = reliable[d]
              /\ \A k \in Calls : Reply(k) => call[k].dev # d
              /\ \A k \in IssuingFor(d) : Fail(k) \/ Crash => ~ Disturbs(k)
<1>a. reliable \in [Devices -> SessionOrNone]
  BY DEF TypeOK
<1>1. ASSUME NEW k \in Calls, Reply(k), call[k].dev = d
      PROVE  call[k].alone /\ reliable'[d] = call[k].sid
  <2>1. reliable'[d] = IF call[k].alone THEN call[k].sid ELSE 0
    BY <1>1, <1>a DEF Reply
  <2>2. QED BY <2>1
<1>2. ASSUME NEW k \in IssuingFor(d), Fail(k), Disturbs(k) PROVE FALSE
  BY <1>2, <1>a DEF Fail, IssuingFor
<1>3. ASSUME NEW k \in IssuingFor(d), Crash, Disturbs(k) PROVE FALSE
  BY <1>3, <1>a DEF Crash
<1>4. CASE \A k \in Calls : Reply(k) => call[k].dev # d
  <2>1. ASSUME NEW k \in Calls, Reply(k) PROVE reliable'[d] = reliable[d]
    BY <1>4, <2>1, <1>a DEF Reply
  <2>2. ASSUME NEW k \in Calls, Fail(k) PROVE reliable'[d] = reliable[d]
    <3>1. reliable' = reliable \/ reliable' = [reliable EXCEPT ![call[k].dev] = 0]
      BY <2>2 DEF Fail
    <3>2. QED BY <3>1, <1>a
  <2>3. ASSUME Crash PROVE reliable'[d] = reliable[d]
    <3>1. reliable'[d] = 0 \/ reliable'[d] = reliable[d]
      BY <2>3 DEF Crash
    <3>2. QED BY <3>1
  <2>4. ASSUME NEW k \in Calls, NEW e, Enters(k, e) PROVE reliable'[d] = reliable[d]
    BY <2>4, <1>a, EntryAlone
  <2>5. ASSUME NEW k \in Calls, NEW c \in Challenges, Exchange(k, c)
        PROVE  reliable'[d] = reliable[d]
    <3>1. Enters(k, challenge[c].dev)
      BY <2>5 DEF Enters
    <3>2. QED BY <2>4, <3>1
  <2>6. ASSUME NEW k \in Calls, NEW s \in Sessions, Refresh(k, s)
        PROVE  reliable'[d] = reliable[d]
    <3>1. Enters(k, session[s].dev)
      BY <2>6 DEF Enters
    <3>2. QED BY <2>4, <3>1
  <2>8. reliable'[d] = reliable[d]
    BY <2>1, <2>2, <2>3, <2>5, <2>6, ZenonT(30)
    DEF Next, vars, CreateChallenge, Verify, ExchangeDevice, ThrottledUse, Attest, AttestedUse,
        FindOrCreateDevice, StampDevice, RefreshSession, RevokeOld, InsertSession, StoreSecret,
        VerifySession, VerifySignature, EndVerify, AttestationAges
  <2>9. QED BY <1>2, <1>3, <1>4, <2>8
<1>5. QED BY <1>1, <1>4

LEMMA SecretMoves ==
    ASSUME TypeOK, Wired, [Next]_vars, NEW d \in Devices
    PROVE  \/ device'[d].secret = device[d].secret
           \/ \E k \in Calls : /\ StoreSecret(k) /\ call[k].dev = d
                               /\ device'[d].secret = call[k].sid
<1>a. device \in [Devices -> DeviceRow] /\ device[d] \in DeviceRow
  BY DEF TypeOK
<1>1. CASE \E k \in Calls : StoreSecret(k)
  BY <1>1, <1>a DEF StoreSecret, DeviceRow
<1>2. CASE \E k \in Calls : FindOrCreateDevice(k)
  BY <1>2, <1>a DEF FindOrCreateDevice, DeviceRow
<1>3. CASE \E k \in Calls : StampDevice(k)
  BY <1>3, <1>a DEF StampDevice, DeviceRow
<1>4. CASE \E e \in Devices : AttestationAges(e)
  BY <1>4, <1>a DEF AttestationAges, DeviceRow
<1>5. CASE UNCHANGED device
  BY <1>5
<1>6. QED
  BY <1>1, <1>2, <1>3, <1>4, <1>5
  DEF Next, vars, CreateChallenge, Exchange, Refresh, Verify, ExchangeDevice, ThrottledUse, Attest,
      AttestedUse, RefreshSession, RevokeOld, InsertSession, Reply, Fail, VerifySession,
      VerifySignature, EndVerify, Crash

LEMMA RevokedMoves ==
    ASSUME TypeOK, Wired, [Next]_vars, NEW s \in 1 .. issued
    PROVE  \/ session'[s].revoked = session[s].revoked
           \/ \E k \in Calls : RevokeOld(k) /\ call[k].par = s
<1>a. session \in [Sessions -> SessionRow] /\ s \in Sessions /\ session[s] \in SessionRow
  BY DEF TypeOK, SessionOrNone, Sessions
<1>1. CASE \E k \in Calls : RevokeOld(k)
  BY <1>1, <1>a DEF RevokeOld, SessionRow
<1>2. CASE \E k \in Calls : InsertSession(k)
  BY <1>2, Insertion
<1>3. CASE UNCHANGED session
  BY <1>3
<1>4. QED
  BY <1>1, <1>2, <1>3
  DEF Next, vars, CreateChallenge, Exchange, Refresh, Verify, ExchangeDevice, ThrottledUse, Attest,
      AttestedUse, FindOrCreateDevice, StampDevice, RefreshSession, StoreSecret, Reply, Fail,
      VerifySession, VerifySignature, EndVerify, AttestationAges, Crash

\* A call that has spent its credential.
Paid(k) == call[k].pc \in {"insert", "secret", "reply"}

LEMMA PaidOn ==
    ASSUME TypeOK, Wired, [Next]_vars, NEW k \in Calls, Paid(k)
    PROVE  \/ Reply(k) \/ Fail(k) \/ Crash
           \/ /\ Paid(k)' /\ call'[k].dev = call[k].dev /\ call'[k].par = call[k].par
              /\ call[k].pc = "reply" => call'[k].pc = "reply"
<1>a. call \in [Calls -> CallRecord] /\ call[k] \in CallRecord
  BY DEF TypeOK
<1>1. CASE call'[k].pc = "idle"
  <2>1. ~ EndVerify(k)
    BY DEF EndVerify, Paid, VerifySteps
  <2>2. call[k].pc # "idle"
    BY DEF Paid
  <2>3. QED BY <1>1, <2>1, <2>2, Ends
<1>2. CASE call'[k].pc # "idle" /\ call'[k].pc = call[k].pc
  <2>1. call'[k] = call[k] \/ call'[k] = [call[k] EXCEPT !.alone = FALSE]
    BY <1>2, StandsStill
  <2>2. QED BY <1>2, <1>a, <2>1 DEF Paid, CallRecord
<1>3. CASE call'[k].pc # "idle" /\ call'[k].pc # call[k].pc
  <2>1. CASE InsertSession(k)
    BY <2>1, Insertion DEF Paid
  <2>2. CASE StoreSecret(k)
    BY <2>2, <1>a DEF StoreSecret, Goto, At, CallRecord, Paid
  <2>3. ~ (\E c \in Challenges : Exchange(k, c))
        /\ ~ (\E s \in Sessions : Refresh(k, s) \/ Verify(k, s))
    BY DEF Paid, Exchange, Refresh, Verify, At
  <2>4. ~ (\/ ExchangeDevice(k) \/ ThrottledUse(k) \/ Attest(k) \/ AttestedUse(k)
           \/ FindOrCreateDevice(k) \/ StampDevice(k) \/ RefreshSession(k) \/ RevokeOld(k)
           \/ VerifySession(k) \/ VerifySignature(k))
    BY DEF Paid, ExchangeDevice, ThrottledUse, Attest, AttestedUse, FindOrCreateDevice, StampDevice,
           RefreshSession, RevokeOld, VerifySession, VerifySignature, At
  <2>5. QED BY <1>3, <2>1, <2>2, <2>3, <2>4, Stage
<1>4. QED BY <1>1, <1>2, <1>3

-----------------------------------------------------------------------------
\* What a client relies on is a session of its device; an issuing call of the
\* device is alone then.
Relied ==
    /\ \A d \in Devices : reliable[d] # 0 =>
          reliable[d] \in 1 .. issued /\ session[reliable[d]].dev = d
    /\ \A k \in Calls : Issuing(k) /\ reliable[call[k].dev] # 0 => call[k].alone

\* A call that is alone has what it issued: its session unrevoked, its secret kept.
Own ==
    \A k \in Calls : call[k].alone =>
        /\ call[k].pc \in {"secret", "reply"} => ~ session[call[k].sid].revoked
        /\ call[k].pc = "reply" => device[call[k].dev].secret = call[k].sid

\* What a client relies on is good until a call of its device has written over it;
\* that call then stands before its reply, or failed and took the reliance with it.
Kept ==
    \A d \in Devices : reliable[d] # 0 =>
        /\ (\A k \in IssuingFor(d) : ~ At(k, "reply")) => device[d].secret = reliable[d]
        /\ (\A k \in IssuingFor(d) : Paid(k) => call[k].par # reliable[d])
              => ~ session[reliable[d]].revoked

LEMMA IssuedGrows == ASSUME TypeOK, Wired, [Next]_vars PROVE 1 .. issued \subseteq 1 .. issued'
<1>1. issued \in Nat
  BY DEF TypeOK, SessionOrNone
<1>2. issued' = issued \/ issued' = issued + 1
  BY OnlyInsertion, Insertion
<1>3. QED BY <1>1, <1>2

LEMMA ReliedStep ==
    TypeOK /\ Wired /\ Exclusive /\ Relied /\ [Next]_vars => Relied'
<1> SUFFICES ASSUME TypeOK, Wired, Exclusive, Relied, [Next]_vars PROVE Relied'
  OBVIOUS
<1>1. ASSUME NEW d \in Devices, reliable'[d] # 0
      PROVE  reliable'[d] \in 1 .. issued' /\ session'[reliable'[d]].dev = d
  <2>1. reliable'[d] \in 1 .. issued /\ session[reliable'[d]].dev = d
    <3>1. CASE reliable'[d] = reliable[d]
      BY <1>1, <3>1 DEF Relied
    <3>2. ASSUME NEW k \in Calls, Reply(k), call[k].dev = d, reliable'[d] = call[k].sid
          PROVE  reliable'[d] \in 1 .. issued /\ session[reliable'[d]].dev = d
      <4>1. call[k].sid \in SessionOrNone /\ issued \in Nat
        BY DEF TypeOK, CallRecord, SessionOrNone
      <4>2. call[k].sid # 0 /\ call[k].sid <= issued /\ session[call[k].sid].dev = d
        BY <3>2 DEF Reply, At, Wired, WiredCalls
      <4>3. QED BY <3>2, <4>1, <4>2 DEF SessionOrNone
    <3>3. QED BY <1>1, <3>1, <3>2, RelianceMoves
  <2>2. QED BY <2>1, Monotone, IssuedGrows
<1>2. ASSUME NEW k \in Calls, Issuing(k)', reliable'[call'[k].dev] # 0 PROVE call'[k].alone
  <2> DEFINE d == call'[k].dev
  <2>1. CASE \E e \in Devices : Enters(k, e)
    <3>1. PICK e \in Devices : Enters(k, e)
      BY <2>1
    <3>2. d = e /\ reliable \in [Devices -> SessionOrNone]
      BY <3>1, EntryAlone DEF TypeOK
    <3>3. QED BY <1>2, <3>1, <3>2, EntryAlone
  <2>2. CASE ~ (\E e \in Devices : Enters(k, e))
    <3>1. Issuing(k) /\ d = call[k].dev
      BY <1>2, <2>2, Onward
    <3>2. d \in Devices
      BY <3>1, Stages DEF Wired, WiredCalls, Issuing
    <3>3. call[k].alone
      <4>1. CASE reliable'[d] = reliable[d]
        BY <1>2, <3>1, <4>1 DEF Relied
      <4>2. ASSUME NEW j \in Calls, Reply(j), call[j].dev = d, call[j].alone PROVE FALSE
        <5>1. Issuing(j) /\ call'[j].pc = "idle"
          BY <4>2 DEF Reply, At, Issuing, IssueSteps, TypeOK, Idle
        <5>2. j # k
          BY <1>2, <5>1, Stages DEF Issuing
        <5>3. QED BY <3>1, <4>2, <5>1, <5>2 DEF Exclusive
      <4>3. QED BY <1>2, <3>2, <4>1, <4>2, RelianceMoves
    <3>4. ASSUME NEW j \in Calls, Enters(j, call[k].dev) PROVE FALSE
      <4>1. k \in IssuingFor(call[k].dev)
        BY <3>1 DEF IssuingFor
      <4>2. reliable \in [Devices -> SessionOrNone]
        BY DEF TypeOK
      <4>3. reliable' = [reliable EXCEPT ![d] = 0]
        BY <3>1, <3>4, <4>1, EntryAlone
      <4>4. QED BY <1>2, <3>2, <4>2, <4>3
    <3>5. QED BY <1>2, <3>1, <3>3, <3>4, AloneKept
  <2>3. QED BY <2>1, <2>2
<1>3. QED BY <1>1, <1>2 DEF Relied

LEMMA OwnStep ==
    TypeOK /\ Wired /\ Exclusive /\ Own /\ [Next]_vars => Own'
<1> SUFFICES ASSUME TypeOK, Wired, Exclusive, Own, [Next]_vars, NEW k \in Calls,
                    call'[k].alone, call'[k].pc \in {"secret", "reply"}
             PROVE  /\ ~ session'[call'[k].sid].revoked
                    /\ call'[k].pc = "reply" => device'[call'[k].dev].secret = call'[k].sid
  BY DEF Own
<1>a. call \in [Calls -> CallRecord] /\ call[k] \in CallRecord /\ issued \in Nat
      /\ device \in [Devices -> DeviceRow]
  BY DEF TypeOK, SessionOrNone
<1>1. CASE call'[k].pc = call[k].pc
  <2>1. call'[k] = call[k] \/ call'[k] = [call[k] EXCEPT !.alone = FALSE]
    BY <1>1, StandsStill
  <2>2. call'[k] = call[k]
    BY <1>a, <2>1 DEF CallRecord
  <2>3. Issuing(k) /\ call[k].dev \in Devices
    BY <1>1 DEF Issuing, IssueSteps, Wired, WiredCalls
  <2>4. call[k].sid \in 1 .. issued /\ session[call[k].sid].dev = call[k].dev
    <3>1. call[k].sid # 0 /\ call[k].sid <= issued /\ session[call[k].sid].dev = call[k].dev
      BY <1>1 DEF Wired, WiredCalls
    <3>2. QED BY <1>a, <3>1 DEF CallRecord, SessionOrNone
  <2>5. ASSUME NEW j \in Calls, RevokeOld(j), call[j].par = call[k].sid PROVE FALSE
    <3>1. Issuing(j) /\ call[j].pc = "r_revoke"
      BY <2>5 DEF RevokeOld, At, Issuing, RefreshSteps
    <3>2. call[j].dev = call[k].dev
      BY <2>4, <2>5, <3>1, <1>a DEF Wired, WiredCalls
    <3>3. j = k
      BY <2>2, <2>3, <3>1, <3>2 DEF Exclusive
    <3>4. QED BY <1>1, <3>1, <3>3
  <2>6. ASSUME NEW j \in Calls, StoreSecret(j), call[j].dev = call[k].dev PROVE call[k].pc = "secret"
    <3>1. Issuing(j) /\ call[j].pc = "secret"
      BY <2>6 DEF StoreSecret, At, Issuing, IssueSteps
    <3>2. QED BY <2>2, <2>3, <2>6, <3>1 DEF Exclusive
  <2>7. ~ session'[call[k].sid].revoked
    BY <1>1, <2>2, <2>4, <2>5, RevokedMoves DEF Own
  <2>8. call[k].pc = "reply" => device'[call[k].dev].secret = call[k].sid
    BY <2>2, <2>3, <2>6, SecretMoves DEF Own
  <2>9. QED BY <2>2, <2>7, <2>8
<1>2. CASE InsertSession(k)
  BY <1>2, Insertion
<1>3. CASE StoreSecret(k)
  <2>1. /\ call[k].pc = "secret" /\ call'[k].pc = "reply" /\ session' = session
        /\ call'[k].sid = call[k].sid /\ call'[k].dev = call[k].dev /\ call[k].alone
    BY <1>3, <1>a DEF StoreSecret, At, Goto, CallRecord
  <2>2. call[k].dev \in Devices /\ device[call[k].dev] \in DeviceRow
    BY <2>1, <1>a DEF Wired, WiredCalls
  <2>3. device'[call[k].dev].secret = call[k].sid
    BY <1>3, <1>a, <2>2 DEF StoreSecret, DeviceRow
  <2>4. QED BY <2>1, <2>3 DEF Own
<1>4. ASSUME \/ \E c \in Challenges : Exchange(k, c)
             \/ \E s \in Sessions : Refresh(k, s) \/ Verify(k, s)
      PROVE  FALSE
  BY <1>4, Entry
<1>5. ASSUME \/ ExchangeDevice(k) \/ ThrottledUse(k) \/ Attest(k) \/ AttestedUse(k)
             \/ FindOrCreateDevice(k) \/ StampDevice(k) \/ RefreshSession(k) \/ RevokeOld(k)
             \/ VerifySession(k) \/ VerifySignature(k)
      PROVE  FALSE
  <2>1. ASSUME NEW p, Goto(k, p) PROVE call'[k].pc = p
    BY <1>a, <2>1 DEF Goto, CallRecord
  <2>2. ASSUME \/ ExchangeDevice(k) \/ ThrottledUse(k) \/ AttestedUse(k)
               \/ RefreshSession(k) \/ RevokeOld(k) \/ VerifySession(k) \/ VerifySignature(k)
        PROVE  FALSE
    <3>1. PICK p \in {"x_seen", "x_attest", "insert", "x_row", "r_revoke", "v_sign", "v_serve"} :
              Goto(k, p)
      BY <2>2 DEF ExchangeDevice, ThrottledUse, AttestedUse, RefreshSession, RevokeOld,
                  VerifySession, VerifySignature
    <3>2. QED BY <2>1, <3>1
  <2>3. ASSUME Attest(k) \/ FindOrCreateDevice(k) \/ StampDevice(k) PROVE FALSE
    <3>1. CASE Attest(k)
      BY <3>1, <1>a DEF Attest, CallRecord
    <3>2. CASE FindOrCreateDevice(k)
      BY <3>2, <1>a DEF FindOrCreateDevice, CallRecord
    <3>3. CASE StampDevice(k)
      BY <3>3, <1>a DEF StampDevice, CallRecord
    <3>4. QED BY <2>3, <3>1, <3>2, <3>3
  <2>4. QED BY <1>5, <2>2, <2>3
<1>6. QED BY <1>1, <1>2, <1>3, <1>4, <1>5, Stage

LEMMA KeptStep ==
    TypeOK /\ Wired /\ Exclusive /\ Relied /\ Own /\ Kept /\ [Next]_vars => Kept'
<1> SUFFICES ASSUME TypeOK, Wired, Exclusive, Relied, Own, Kept, [Next]_vars,
                    NEW d \in Devices, reliable'[d] # 0
             PROVE  /\ (\A k \in Calls : Issuing(k)' /\ call'[k].dev = d => call'[k].pc # "reply")
                          => device'[d].secret = reliable'[d]
                    /\ (\A k \in Calls : Issuing(k)' /\ call'[k].dev = d
                                         => (Paid(k)' => call'[k].par # reliable'[d]))
                          => ~ session'[reliable'[d]].revoked
  BY DEF Kept, IssuingFor, At
<1>1. ASSUME NEW k \in Calls, Reply(k), call[k].dev = d, call[k].alone, reliable'[d] = call[k].sid
      PROVE  device'[d].secret = reliable'[d] /\ ~ session'[reliable'[d]].revoked
  BY <1>1 DEF Own, Reply, At
<1>2. ASSUME reliable'[d] = reliable[d],
             \A k \in Calls : Reply(k) => call[k].dev # d,
             \A k \in IssuingFor(d) : Fail(k) \/ Crash => ~ Disturbs(k)
      PROVE  /\ (\A k \in Calls : Issuing(k)' /\ call'[k].dev = d => call'[k].pc # "reply")
                   => device'[d].secret = reliable'[d]
             /\ (\A k \in Calls : Issuing(k)' /\ call'[k].dev = d
                                  => (Paid(k)' => call'[k].par # reliable'[d]))
                   => ~ session'[reliable'[d]].revoked
  <2>a. reliable[d] \in 1 .. issued /\ session[reliable[d]].dev = d
    BY <1>2 DEF Relied
  <2>b. ASSUME NEW k \in Calls, Paid(k)' PROVE Issuing(k)'
    BY <2>b DEF Paid, Issuing, IssueSteps
  <2>c. ASSUME NEW k \in IssuingFor(d), Paid(k),
               \/ call[k].pc = "reply"
               \/ call[k].par = reliable[d]
        PROVE  /\ Paid(k)' /\ call'[k].dev = d /\ call'[k].par = call[k].par
               /\ call[k].pc = "reply" => call'[k].pc = "reply"
    <3>1. k \in Calls /\ call[k].dev = d
      BY DEF IssuingFor
    <3>2. Disturbs(k)
      BY <2>c, <3>1 DEF Disturbs, At, Paid
    <3>3. ~ Reply(k) /\ ~ Fail(k) /\ ~ Crash
      BY <1>2, <3>1, <3>2
    <3>4. QED BY <2>c, <3>1, <3>3, PaidOn
  <2>1. ASSUME \A k \in Calls : Issuing(k)' /\ call'[k].dev = d => call'[k].pc # "reply"
        PROVE  device'[d].secret = reliable'[d]
    <3>1. ASSUME NEW k \in Calls, StoreSecret(k), call[k].dev = d PROVE FALSE
      <4>1. call'[k].pc = "reply" /\ call'[k].dev = d
        BY <3>1 DEF StoreSecret, Goto, TypeOK, CallRecord
      <4>2. Issuing(k)'
        BY <4>1 DEF Issuing, IssueSteps
      <4>3. QED BY <2>1, <4>1, <4>2
    <3>2. device'[d].secret = device[d].secret
      BY <3>1, SecretMoves
    <3>3. ASSUME NEW k \in IssuingFor(d) PROVE ~ At(k, "reply")
      <4>1. SUFFICES ASSUME call[k].pc = "reply" PROVE FALSE
        BY DEF At
      <4>2. k \in Calls /\ Paid(k)
        BY <4>1 DEF IssuingFor, Paid
      <4>3. Paid(k)' /\ call'[k].dev = d /\ call'[k].pc = "reply"
        BY <2>c, <4>1, <4>2
      <4>4. QED BY <2>1, <2>b, <4>2, <4>3
    <3>4. device[d].secret = reliable[d]
      BY <1>2, <3>3 DEF Kept
    <3>5. QED BY <1>2, <3>2, <3>4
  <2>2. ASSUME \A k \in Calls : Issuing(k)' /\ call'[k].dev = d
                                => (Paid(k)' => call'[k].par # reliable'[d])
        PROVE  ~ session'[reliable'[d]].revoked
    <3>1. ASSUME NEW k \in Calls, RevokeOld(k), call[k].par = reliable[d] PROVE FALSE
      <4>1. call[k].pc = "r_revoke" /\ call'[k].pc = "insert" /\ call'[k].dev = call[k].dev
            /\ call'[k].par = call[k].par
        BY <3>1 DEF RevokeOld, Goto, At, TypeOK, CallRecord
      <4>2. call[k].dev = d
        BY <2>a, <3>1, <4>1 DEF Wired, WiredCalls
      <4>3. Paid(k)' /\ Issuing(k)'
        BY <2>b, <4>1 DEF Paid
      <4>4. QED BY <1>2, <2>2, <3>1, <4>1, <4>2, <4>3
    <3>2. session'[reliable[d]].revoked = session[reliable[d]].revoked
      BY <2>a, <3>1, RevokedMoves
    <3>3. ASSUME NEW k \in IssuingFor(d), Paid(k) PROVE call[k].par # reliable[d]
      <4>1. SUFFICES ASSUME call[k].par = reliable[d] PROVE FALSE
        OBVIOUS
      <4>2. k \in Calls
        BY DEF IssuingFor
      <4>3. Paid(k)' /\ call'[k].dev = d /\ call'[k].par = reliable[d]
        BY <2>c, <3>3, <4>1
      <4>4. QED BY <1>2, <2>2, <2>b, <4>2, <4>3
    <3>4. ~ session[reliable[d]].revoked
      BY <1>2, <3>3 DEF Kept
    <3>5. QED BY <1>2, <3>2, <3>4
  <2>3. QED BY <2>1, <2>2
<1>3. QED BY <1>1, <1>2, RelianceMoves

-----------------------------------------------------------------------------
IInv ==
    /\ TypeOK /\ Wired /\ Spent /\ Trust /\ Retired
    /\ Exclusive /\ Fresh /\ SingleUseUnlessOverlapped
    /\ Relied /\ Own /\ Kept

\* IInv is an inductive invariant of the session protocol.
LEMMA IInvHolds == Spec => []IInv
<1>1. Init => IInv
  <2> SUFFICES ASSUME Init PROVE IInv
    OBVIOUS
  <2> USE DEF Init
  <2>1. \A k \in Calls : call[k] = Idle
    OBVIOUS
  <2>2. TypeOK
    <3> USE DEF Sessions, SessionOrNone
    <3>1. challenge \in [Challenges -> ChallengeRow]
      BY DEF ChallengeRow
    <3>2. device \in [Devices -> DeviceRow]
      BY DEF DeviceRow
    <3>3. session \in [Sessions -> SessionRow]
      BY DEF SessionRow, NoRow
    <3>4. call \in [Calls -> CallRecord]
      BY CallUpdates
    <3>5. issued \in SessionOrNone /\ delivered \in SUBSET Sessions
          /\ reliable \in [Devices -> SessionOrNone] /\ vouched \in SUBSET Devices
      OBVIOUS
    <3>6. QED BY <3>1, <3>2, <3>3, <3>4, <3>5 DEF TypeOK
  <2>3. Wired
    BY <2>1, Stages DEF Wired, WiredTables, WiredCalls, Idle
  <2>4. Spent /\ Trust /\ Retired
    BY <2>1, Stages DEF Spent, SpentBeforeIssue, Trust, TrustedOnlyIfVouched, Retired, Idle, Sessions
  <2>5. Exclusive /\ Own
    BY <2>1, Stages DEF Exclusive, Issuing, Own, Idle
  <2>6. Fresh /\ SingleUseUnlessOverlapped
    BY DEF Fresh, SingleUseUnlessOverlapped
  <2>7. Relied /\ Kept
    <3>1. \A k \in Calls : ~ Issuing(k)
      BY <2>1, Stages DEF Issuing, Idle
    <3>2. QED BY <3>1 DEF Relied, Kept
  <2>8. QED BY <2>2, <2>3, <2>4, <2>5, <2>6, <2>7 DEF IInv
<1>2. IInv /\ [Next]_vars => IInv'
  BY TypeStep, WiredStep, SpentStep, TrustStep, RetiredStep, ExclusiveStep, FreshStep,
     SingleUseStep, ReliedStep, OwnStep, KeptStep DEF IInv
<1>3. QED BY <1>1, <1>2, PTL DEF Spec

\* The tables and the calls in flight keep their types in every behaviour.
THEOREM TypeCorrect == Spec => []TypeOK
<1>1. IInv => TypeOK
  BY DEF IInv
<1>2. QED BY <1>1, IInvHolds, PTL

\* A crash or failure can lose a session, never give two for one credential: the
\* challenge or refresh token is spent before the session it buys exists.
THEOREM SpentBeforeIssueHolds == Spec => []SpentBeforeIssue
<1>1. IInv => SpentBeforeIssue
  BY DEF IInv, Spent
<1>2. QED BY <1>1, IInvHolds, PTL

\* Only a device that a provider once vouched for skips the provider.
THEOREM TrustedOnlyIfVouchedHolds == Spec => []TrustedOnlyIfVouched
<1>1. IInv => TrustedOnlyIfVouched
  BY DEF IInv, Trust
<1>2. QED BY <1>1, IInvHolds, PTL

\* A request begun after its session was revoked never reaches its route.
THEOREM RetiredNeverServedHolds == Spec => []RetiredNeverServed
<1>1. IInv => RetiredNeverServed
  BY DEF IInv, Retired, RetiredNeverServed, At, VerifySteps
<1>2. QED BY <1>1, IInvHolds, PTL

\* One challenge or refresh token buys two sessions only in calls that overlapped.
THEOREM SingleUseUnlessOverlappedHolds == Spec => []SingleUseUnlessOverlapped
<1>1. IInv => SingleUseUnlessOverlapped
  BY DEF IInv
<1>2. QED BY <1>1, IInvHolds, PTL

\* A client can sign with the payload of its last issuing call that ran alone, until
\* a later call that fails or dies has revoked its session or replaced its secret,
\* or has overlapped another.
THEOREM ReliablePayloadHolds == Spec => []ReliablePayload
<1>1. IInv => ReliablePayload
  BY DEF IInv, Kept, ReliablePayload
<1>2. QED BY <1>1, IInvHolds, PTL

-----------------------------------------------------------------------------
\* The sessions implement CheckThenSpend.
LEMMA SpentSame ==
    ASSUME NEW n, 1 .. issued \subseteq 1 .. n, issued' = n,
           \A c \in Challenges : challenge'[c].used <=> challenge[c].used,
           \A s \in 1 .. issued : session'[s].revoked <=> session[s].revoked,
           \A s \in (1 .. n) \ (1 .. issued) : ~ session'[s].revoked
    PROVE  SpentCredentials' = SpentCredentials
<1>1. {c \in Challenges : challenge'[c].used} = {c \in Challenges : challenge[c].used}
  OBVIOUS
<1>2. {s \in 1 .. n : session'[s].revoked} = {s \in 1 .. issued : session[s].revoked}
  OBVIOUS
<1>3. QED BY <1>1, <1>2 DEF SpentCredentials

\* What a call has found is kept or dropped, but where it is found.
LEMMA FoundMoves ==
    ASSUME TypeOK, Wired, [Next]_vars, NEW k \in Calls,
           ~ \E c \in Challenges : Exchange(k, c), ~ RefreshSession(k)
    PROVE  FoundBy(k)' \in {FoundBy(k), {}}
<1>1. CASE ~ Unpaid(k)'
  BY <1>1 DEF FoundBy
<1>2. CASE Unpaid(k)'
  <2>1. Unpaid(k) /\ call'[k].chal = call[k].chal
    BY <1>2, UnpaidFrom
  <2>2. Issuing(k) /\ Issuing(k)'
    BY <1>2, <2>1 DEF Unpaid, Issuing, RefreshSteps, IssueSteps
  <2>3. call'[k].par = call[k].par
    BY <2>2, Onward, EntryAlone
  <2>4. QED BY <1>2, <2>1, <2>3 DEF FoundBy
<1>3. QED BY <1>1, <1>2

LEMMA FoundSame ==
    ASSUME NEW k \in Calls, call'[k].pc = call[k].pc, call'[k].chal = call[k].chal,
           call'[k].par = call[k].par
    PROVE  FoundBy(k)' = FoundBy(k)
BY DEF FoundBy, Unpaid

LEMMA GaveUp ==
    ASSUME SpentCredentials' = SpentCredentials,
           \A s \in Sessions : BoughtWith(s)' = BoughtWith(s),
           \A k \in Calls : FoundBy(k)' \in {FoundBy(k), {}}
    PROVE  Purchase!Next
<1> DEFINE hs == {k \in Calls : FoundBy(k)' = {}}
<1>1. [k \in Calls |-> FoundBy(k)'] = [k \in Calls |-> IF k \in hs THEN {} ELSE [j \in Calls |-> FoundBy(j)][k]]
  OBVIOUS
<1>2. [s \in Sessions |-> BoughtWith(s)'] = [s \in Sessions |-> BoughtWith(s)]
  OBVIOUS
<1>3. hs \in SUBSET Calls
  OBVIOUS
<1> HIDE DEF hs
<1>4. Purchase!GiveUp(hs)
  BY <1>1, <1>2 DEF Purchase!GiveUp
<1>5. QED BY <1>3, <1>4 DEF Purchase!Next

LEMMA Found ==
    ASSUME NEW k \in Calls, NEW x \in ({"challenge"} \X Challenges) \cup ({"token"} \X Sessions),
           x \notin SpentCredentials, FoundBy(k) = {}, FoundBy(k)' = {x},
           \A j \in Calls : j # k => FoundBy(j)' = FoundBy(j),
           SpentCredentials' = SpentCredentials,
           \A s \in Sessions : BoughtWith(s)' = BoughtWith(s)
    PROVE  Purchase!Next
<1>1. [j \in Calls |-> FoundBy(j)'] = [[j \in Calls |-> FoundBy(j)] EXCEPT ![k] = {x}]
  OBVIOUS
<1>2. [s \in Sessions |-> BoughtWith(s)'] = [s \in Sessions |-> BoughtWith(s)]
  OBVIOUS
<1>3. [j \in Calls |-> FoundBy(j)][k] = {}
  OBVIOUS
<1>4. Purchase!Find(k)
  BY <1>1, <1>2, <1>3 DEF Purchase!Find
<1>5. QED BY <1>4 DEF Purchase!Next

LEMMA SpentMore ==
    ASSUME NEW k \in Calls, SpentCredentials' = SpentCredentials \cup FoundBy(k),
           \A j \in Calls : FoundBy(j)' = FoundBy(j),
           \A s \in Sessions : BoughtWith(s)' = BoughtWith(s)
    PROVE  Purchase!Next
<1>1. [j \in Calls |-> FoundBy(j)'] = [j \in Calls |-> FoundBy(j)]
  OBVIOUS
<1>2. [s \in Sessions |-> BoughtWith(s)'] = [s \in Sessions |-> BoughtWith(s)]
  OBVIOUS
<1>3. [j \in Calls |-> FoundBy(j)][k] = FoundBy(k)
  OBVIOUS
<1>4. Purchase!Spend(k)
  BY <1>1, <1>2, <1>3 DEF Purchase!Spend
<1>5. QED BY <1>4 DEF Purchase!Next

LEMMA BoughtOne ==
    ASSUME NEW k \in Calls, NEW n \in Sessions, FoundBy(k) # {}, FoundBy(k) \subseteq SpentCredentials,
           BoughtWith(n) = {}, BoughtWith(n)' = FoundBy(k), FoundBy(k)' = {},
           \A j \in Calls : j # k => FoundBy(j)' = FoundBy(j),
           \A s \in Sessions : s # n => BoughtWith(s)' = BoughtWith(s),
           SpentCredentials' = SpentCredentials
    PROVE  Purchase!Next
<1>1. [j \in Calls |-> FoundBy(j)'] = [[j \in Calls |-> FoundBy(j)] EXCEPT ![k] = {}]
  OBVIOUS
<1>2. [s \in Sessions |-> BoughtWith(s)'] = [[s \in Sessions |-> BoughtWith(s)] EXCEPT ![n] = FoundBy(k)]
  OBVIOUS
<1>3. [j \in Calls |-> FoundBy(j)][k] = FoundBy(k) /\ [s \in Sessions |-> BoughtWith(s)][n] = {}
  OBVIOUS
<1>4. Purchase!Buy(k)
  BY <1>1, <1>2, <1>3 DEF Purchase!Buy
<1>5. QED BY <1>4 DEF Purchase!Next

LEMMA PurchaseStep == TypeOK /\ Wired /\ Spent /\ [Next]_vars => [Purchase!Next]_(Purchase!vars)
<1> SUFFICES ASSUME TypeOK, Wired, Spent, [Next]_vars PROVE Purchase!Next
  OBVIOUS
<1>a. /\ call \in [Calls -> CallRecord] /\ issued \in 0 .. MaxSession
      /\ challenge \in [Challenges -> ChallengeRow] /\ session \in [Sessions -> SessionRow]
  BY DEF TypeOK, SessionOrNone
<1>b. ASSUME UNCHANGED <<challenge, session, issued>>
      PROVE  SpentCredentials' = SpentCredentials /\ \A s \in Sessions : BoughtWith(s)' = BoughtWith(s)
  BY <1>b DEF SpentCredentials, BoughtWith
<1>c. ASSUME issued' = issued
      PROVE  \A s \in Sessions : BoughtWith(s)' = BoughtWith(s)
  <2> SUFFICES ASSUME NEW s \in Sessions, s <= issued
               PROVE  session'[s].chal = session[s].chal /\ session'[s].parent = session[s].parent
    BY <1>c DEF BoughtWith
  <2>1. s \in 1 .. issued
    BY <1>a DEF Sessions
  <2>2. QED BY <2>1, Monotone
<1>d. ASSUME NEW k \in Calls, NEW p, Goto(k, p)
      PROVE  /\ \A j \in Calls : j # k => FoundBy(j)' = FoundBy(j)
             /\ call'[k].pc = p /\ call'[k].chal = call[k].chal /\ call'[k].par = call[k].par
  <2>1. call'[k].pc = p /\ call'[k].chal = call[k].chal /\ call'[k].par = call[k].par
    BY <1>a, <1>d DEF Goto, CallRecord
  <2>2. \A j \in Calls : j # k => call'[j] = call[j]
    BY <1>a, <1>d DEF Goto
  <2>3. QED BY <2>1, <2>2, FoundSame
<1>1. ASSUME NEW k \in Calls, NEW c \in Challenges, Exchange(k, c) PROVE Purchase!Next
  <2> DEFINE x == <<"challenge", c>>
  <2>1. Enters(k, challenge[c].dev)
    BY <1>1 DEF Enters
  <2>2. \A j \in Calls : j # k => FoundBy(j)' = FoundBy(j)
    BY <2>1, EntryAlone, FoundSame
  <2>3. call'[k].pc = "x_device" /\ call'[k].chal = c /\ c # None
    BY <1>1, Entry
  <2>4. FoundBy(k)' = {x}
    BY <2>3 DEF FoundBy, Unpaid, ExchangeSteps, Credential
  <2>5. FoundBy(k) = {}
    BY <1>1, Stages DEF FoundBy, Unpaid, Exchange, At
  <2>6. ~ challenge[c].used
    BY <1>1 DEF Exchange
  <2>7. x \notin SpentCredentials
    BY <2>6 DEF SpentCredentials
  <2>8. SpentCredentials' = SpentCredentials /\ \A s \in Sessions : BoughtWith(s)' = BoughtWith(s)
    BY <1>b, <2>1, EntryAlone
  <2>9. x \in ({"challenge"} \X Challenges) \cup ({"token"} \X Sessions)
    OBVIOUS
  <2> HIDE DEF x
  <2>10. QED BY <2>2, <2>4, <2>5, <2>7, <2>8, <2>9, Found
<1>2. ASSUME NEW k \in Calls, RefreshSession(k) PROVE Purchase!Next
  <2> DEFINE s == call[k].par
             x == <<"token", s>>
  <2>1. /\ call[k].pc = "r_session" /\ Goto(k, "r_revoke") /\ ~ session[s].revoked
        /\ UNCHANGED <<challenge, session, issued>>
    BY <1>2 DEF RefreshSession, At
  <2>2. s # 0 /\ call[k].chal = None /\ s \in Sessions
    <3>1. s # 0 /\ call[k].chal = None
      BY <2>1 DEF Wired, WiredCalls, RefreshSteps
    <3>2. QED BY <3>1, <1>a DEF CallRecord, SessionOrNone, Sessions
  <2>3. FoundBy(k)' = {x}
    BY <1>d, <2>1, <2>2 DEF FoundBy, Unpaid, Credential
  <2>4. FoundBy(k) = {}
    BY <2>1 DEF FoundBy, Unpaid, ExchangeSteps
  <2>5. x \notin SpentCredentials
    BY <2>1 DEF SpentCredentials
  <2>6. x \in ({"challenge"} \X Challenges) \cup ({"token"} \X Sessions)
    BY <2>2
  <2>7. \A j \in Calls : j # k => FoundBy(j)' = FoundBy(j)
    BY <1>d, <2>1
  <2> HIDE DEF s, x
  <2>8. QED BY <1>b, <2>1, <2>3, <2>4, <2>5, <2>6, <2>7, Found
<1>3. ASSUME NEW k \in Calls, ThrottledUse(k) \/ AttestedUse(k) PROVE Purchase!Next
  <2> DEFINE c == call[k].chal
  <2>1. PICK p \in {"insert", "x_row"} : Goto(k, p)
    BY <1>3 DEF ThrottledUse, AttestedUse
  <2>2. call[k].pc \in ExchangeSteps /\ UNCHANGED <<session, issued>>
        /\ challenge' = [challenge EXCEPT ![c].used = TRUE]
    BY <1>3 DEF ThrottledUse, AttestedUse, At, ExchangeSteps, UseChallenge
  <2>3. c # None /\ c \in Challenges
    BY <2>2, <1>a DEF Wired, WiredCalls, CallRecord
  <2>4. FoundBy(k) = {<<"challenge", c>>}
    BY <2>2, <2>3 DEF FoundBy, Unpaid, Credential
  <2>5. FoundBy(k)' = FoundBy(k)
    BY <1>d, <2>1, <2>2 DEF FoundBy, Unpaid, ExchangeSteps
  <2>6. {d \in Challenges : challenge'[d].used} = {d \in Challenges : challenge[d].used} \cup {c}
    BY <1>a, <2>2, <2>3 DEF ChallengeRow
  <2>7. SpentCredentials' = SpentCredentials \cup {<<"challenge", c>>}
    BY <2>2, <2>6 DEF SpentCredentials
  <2>8. \A j \in Calls : FoundBy(j)' = FoundBy(j)
    BY <1>d, <2>1, <2>5
  <2>9. QED BY <1>c, <2>2, <2>4, <2>7, <2>8, SpentMore
<1>4. ASSUME NEW k \in Calls, RevokeOld(k) PROVE Purchase!Next
  <2> DEFINE s == call[k].par
  <2>1. /\ call[k].pc = "r_revoke" /\ Goto(k, "insert") /\ UNCHANGED <<challenge, issued>>
        /\ session' = [session EXCEPT ![s].revoked = TRUE]
    BY <1>4 DEF RevokeOld, At
  <2>2. s # 0 /\ call[k].chal = None /\ s \in 1 .. issued /\ s \in Sessions
    <3>1. s # 0 /\ call[k].chal = None /\ s <= issued
      BY <2>1 DEF Wired, WiredCalls, RefreshSteps
    <3>2. QED BY <3>1, <1>a DEF CallRecord, SessionOrNone, Sessions
  <2>3. FoundBy(k) = {<<"token", s>>}
    BY <2>1, <2>2 DEF FoundBy, Unpaid, Credential
  <2>4. FoundBy(k)' = FoundBy(k)
    BY <1>d, <2>1 DEF FoundBy, Unpaid
  <2>5. {t \in 1 .. issued : session'[t].revoked} = {t \in 1 .. issued : session[t].revoked} \cup {s}
    BY <1>a, <2>1, <2>2 DEF SessionRow, Sessions
  <2>6. SpentCredentials' = SpentCredentials \cup {<<"token", s>>}
    BY <2>1, <2>5 DEF SpentCredentials
  <2>7. \A j \in Calls : FoundBy(j)' = FoundBy(j)
    BY <1>d, <2>1, <2>4
  <2>8. QED BY <1>c, <2>1, <2>3, <2>6, <2>7, SpentMore
<1>5. ASSUME NEW k \in Calls, InsertSession(k) PROVE Purchase!Next
  <2>0. PICK n \in Sessions : n = issued + 1
    BY <1>5, Insertion
  <2>1. /\ issued' = n /\ session'[n].chal = call[k].chal /\ session'[n].parent = call[k].par
        /\ ~ session'[n].revoked /\ challenge' = challenge
        /\ call[k].pc = "insert" /\ call'[k].pc = "secret"
        /\ \A s \in 1 .. issued : session'[s] = session[s]
        /\ \A j \in Calls : j # k => call'[j] = call[j]
    BY <1>5, <2>0, Insertion
  <2>2. \A s \in Sessions : s # n => BoughtWith(s)' = BoughtWith(s)
    <3> SUFFICES ASSUME NEW s \in Sessions, s # n PROVE BoughtWith(s)' = BoughtWith(s)
      OBVIOUS
    <3>1. (s <= n <=> s <= issued) /\ (s <= issued => s \in 1 .. issued)
      BY <1>a, <2>0 DEF Sessions
    <3>2. QED BY <2>1, <3>1 DEF BoughtWith
  <2>3. FoundBy(k) = Credential(call[k].chal, call[k].par) /\ FoundBy(k)' = {}
    BY <2>1 DEF FoundBy, Unpaid, ExchangeSteps
  <2>4. BoughtWith(n)' = FoundBy(k) /\ BoughtWith(n) = {}
    <3>1. n <= n /\ ~ (n <= issued)
      BY <1>a, <2>0 DEF Sessions
    <3>2. QED BY <2>1, <2>3, <3>1 DEF BoughtWith
  <2>5. SpentCredentials' = SpentCredentials
    <3>1. 1 .. issued \subseteq 1 .. n /\ \A s \in (1 .. n) \ (1 .. issued) : s = n
      BY <1>a, <2>0
    <3>2. QED BY <2>1, <3>1, SpentSame
  <2>6. FoundBy(k) # {} /\ FoundBy(k) \subseteq SpentCredentials
    <3>1. CASE call[k].chal # None
      <4>1. call[k].chal \in Challenges /\ challenge[call[k].chal].used
        BY <2>1, <3>1, <1>a DEF Spent, CallRecord
      <4>2. FoundBy(k) = {<<"challenge", call[k].chal>>}
        BY <2>3, <3>1 DEF Credential
      <4>3. QED BY <4>1, <4>2 DEF SpentCredentials
    <3>2. CASE call[k].chal = None
      <4>1. call[k].par # 0
        BY <2>1, <3>2 DEF Wired, WiredCalls
      <4>2. call[k].par \in 1 .. issued /\ session[call[k].par].revoked
        BY <2>1, <4>1, <1>a DEF Spent, Wired, WiredCalls, CallRecord, SessionOrNone
      <4>3. FoundBy(k) = {<<"token", call[k].par>>}
        BY <2>3, <3>2, <4>1 DEF Credential
      <4>4. QED BY <4>2, <4>3 DEF SpentCredentials
    <3>3. QED BY <3>1, <3>2
  <2>7. \A j \in Calls : j # k => FoundBy(j)' = FoundBy(j)
    BY <2>1, FoundSame
  <2>8. QED BY <2>0, <2>2, <2>3, <2>4, <2>5, <2>6, <2>7, BoughtOne
<1>6. ASSUME NEW c \in Challenges, NEW d \in Devices, CreateChallenge(c, d) PROVE Purchase!Next
  <2>1. UNCHANGED <<session, issued, call>>
    BY <1>6 DEF CreateChallenge
  <2>2. \A x \in Challenges : challenge'[x].used <=> challenge[x].used
    BY <1>6, <1>a DEF CreateChallenge, Wired, WiredTables
  <2>3. 1 .. issued \subseteq 1 .. issued /\ (1 .. issued) \ (1 .. issued) = {}
    OBVIOUS
  <2>4. SpentCredentials' = SpentCredentials
    BY <2>1, <2>2, <2>3, SpentSame
  <2>5. \A k \in Calls : FoundBy(k)' = FoundBy(k)
    BY <2>1, FoundSame
  <2>6. QED BY <1>c, <2>1, <2>4, <2>5, GaveUp
<1>7. CASE /\ ~ \E k \in Calls : \/ \E c \in Challenges : Exchange(k, c)
                                 \/ RefreshSession(k) \/ ThrottledUse(k) \/ AttestedUse(k)
                                 \/ RevokeOld(k) \/ InsertSession(k)
           /\ ~ \E c \in Challenges, d \in Devices : CreateChallenge(c, d)
  <2>1. UNCHANGED <<challenge, session, issued>>
    BY <1>7
    DEF Next, vars, Refresh, Verify, ExchangeDevice, Attest, FindOrCreateDevice, StampDevice,
        StoreSecret, Reply, Fail, VerifySession, VerifySignature, EndVerify, AttestationAges, Crash
  <2>2. \A k \in Calls : FoundBy(k)' \in {FoundBy(k), {}}
    BY <1>7, FoundMoves
  <2>3. QED BY <1>b, <2>1, <2>2, GaveUp
<1>8. QED BY <1>1, <1>2, <1>3, <1>4, <1>5, <1>6, <1>7

LEMMA PurchaseInit == Init => Purchase!Init
<1> SUFFICES ASSUME Init PROVE Purchase!Init
  OBVIOUS
<1>1. \A k \in Calls : FoundBy(k) = {}
  BY Stages DEF Init, FoundBy, Unpaid, Idle
<1>2. SpentCredentials = {}
  BY DEF Init, SpentCredentials
<1>3. \A s \in Sessions : BoughtWith(s) = {}
  BY DEF Init, BoughtWith, NoRow, Credential
<1>4. QED BY <1>1, <1>2, <1>3 DEF Purchase!Init

\* The session endpoints implement CheckThenSpend: whatever overlaps, fails or dies, a
\* session is bought with a credential that its call found unspent and that is spent
\* for good.
THEOREM ImplementsCheckThenSpend == Spec => SoldAsFound
<1>1. IInv /\ [Next]_vars => [Purchase!Next]_(Purchase!vars)
  BY PurchaseStep DEF IInv
<1>2. QED BY <1>1, IInvHolds, PurchaseInit, PTL DEF Spec, SoldAsFound, Purchase!Spec
=============================================================================
