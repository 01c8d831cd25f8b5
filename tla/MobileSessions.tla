---------------------------- MODULE MobileSessions ----------------------------
(***************************************************************************)
(* How a mobile device gets and keeps a session: createChallenge,          *)
(* exchangeToken, refreshToken, createSession and the credential checks of *)
(* verifySignedRequest in mobileSecurityService.js, over the tables        *)
(* ApiNonce (challenges), ApiDevice and ApiSession.                        *)
(*                                                                         *)
(* One call is one HTTP request in the Node process.  Each await of the    *)
(* code is a step of its own: between two of them any other call may run,  *)
(* and what a call read earlier is kept in its record.  A session stands   *)
(* for the three secrets issued with it, so the session_secret_hash of a   *)
(* device is the number of the session whose secret it is.                 *)
(*                                                                         *)
(* Expiry of a challenge or token is not kept: the code refuses an expired *)
(* one where it refuses an unknown one, and Fail and EndVerify let a call  *)
(* be refused at any of its awaits.  Every behaviour of the code with its  *)
(* clock is therefore one of this module.                                  *)
(***************************************************************************)
EXTENDS Integers, FiniteSets

CONSTANTS
    Devices,      \* device ids of one tenant
    Challenges,   \* attestation nonces, each issued at most once
    Calls,        \* HTTP requests that may be in flight together
    None,         \* no device, no challenge
    FailOpen,     \* strict mode without ATTESTATION_FAIL_OPEN=false
    MaxSession    \* bound on the sessions ever issued

ASSUME MobileSessionsAssumption ==
    /\ None \notin Devices \cup Challenges
    /\ FailOpen \in BOOLEAN
    /\ MaxSession \in Nat

Sessions == 1 .. MaxSession
SessionOrNone == 0 .. MaxSession

VARIABLES
    challenge,  \* ApiNonce rows of purpose 'attestation'
    device,     \* ApiDevice rows: attestation, degraded marker, current secret
    session,    \* ApiSession rows, by number of issue
    issued,     \* how many sessions exist
    call,       \* the calls in flight and what they hold
    delivered,  \* sessions whose payload reached the client
    reliable,   \* per device: the session of the last payload that arrived
                \* from a call no other issuing call of the device overlapped
    vouched     \* devices some provider has ever really vouched for

vars == <<challenge, device, session, issued, call, delivered, reliable, vouched>>

ChallengeRow == [dev : Devices \cup {None}, used : BOOLEAN]

\* attested: no row, attested_at null, within the reverify window, before it.
DeviceRow == [attested : {"absent", "never", "recent", "old"},
              degraded : BOOLEAN, secret : SessionOrNone]

SessionRow == [dev : Devices \cup {None}, chal : Challenges \cup {None},
               parent : SessionOrNone,
               solo : BOOLEAN,  \* issued by a call no other had overlapped
               revoked : BOOLEAN]

ExchangeSteps == {"x_device", "x_seen", "x_attest", "x_use", "x_row", "x_stamp"}
RefreshSteps == {"r_session", "r_revoke"}
IssueSteps == {"insert", "secret", "reply"}
VerifySteps == {"v_session", "v_sign", "v_serve"}

Steps == {"idle"} \cup ExchangeSteps \cup RefreshSteps \cup IssueSteps \cup VerifySteps

CallRecord ==
    [pc : Steps,
     dev : Devices \cup {None},
     chal : Challenges \cup {None},        \* challenge presented
     par : SessionOrNone,                  \* session whose token is presented
     sid : SessionOrNone,                  \* session this call issued
     verdict : {"none", "ok", "system"},   \* attestationResult
     marked : BOOLEAN,                     \* attest_degraded_at as this call read it
     key : SessionOrNone,                  \* session_secret_hash as this call read it
     alone : BOOLEAN,                      \* no issuing call of dev overlapped
     stale : BOOLEAN]                      \* par was revoked before the call began

Idle == [pc |-> "idle", dev |-> None, chal |-> None, par |-> 0, sid |-> 0,
         verdict |-> "none", marked |-> FALSE, key |-> 0, alone |-> FALSE,
         stale |-> FALSE]

NoRow == [dev |-> None, chal |-> None, parent |-> 0, solo |-> FALSE,
          revoked |-> FALSE]

TypeOK ==
    /\ challenge \in [Challenges -> ChallengeRow]
    /\ device \in [Devices -> DeviceRow]
    /\ session \in [Sessions -> SessionRow]
    /\ issued \in SessionOrNone
    /\ call \in [Calls -> CallRecord]
    /\ delivered \in SUBSET Sessions
    /\ reliable \in [Devices -> SessionOrNone]
    /\ vouched \in SUBSET Devices

Init ==
    /\ challenge = [c \in Challenges |-> [dev |-> None, used |-> FALSE]]
    /\ device = [d \in Devices |-> [attested |-> "absent", degraded |-> FALSE, secret |-> 0]]
    /\ session = [s \in Sessions |-> NoRow]
    /\ issued = 0
    /\ call = [k \in Calls |-> Idle]
    /\ delivered = {}
    /\ reliable = [d \in Devices |-> 0]
    /\ vouched = {}

-----------------------------------------------------------------------------
At(k, step) == call[k].pc = step

Issuing(k) == call[k].pc \in ExchangeSteps \cup RefreshSteps \cup IssueSteps

IssuingFor(d) == {k \in Calls : Issuing(k) /\ call[k].dev = d}

Goto(k, step) == call' = [call EXCEPT ![k].pc = step]

\* An issuing call for d begins: it and the ones under way now overlap, and no
\* payload can be relied on until a later call has run alone.
Begin(k, d, fields) ==
    LET others == IssuingFor(d)
    IN  /\ call' = [j \in Calls |->
              IF j = k THEN [fields EXCEPT !.alone = (others = {})]
              ELSE IF j \in others THEN [call[j] EXCEPT !.alone = FALSE]
              ELSE call[j]]
        /\ reliable' = IF others = {} THEN reliable ELSE [reliable EXCEPT ![d] = 0]

\* createChallenge: one insert.
CreateChallenge(c, d) ==
    /\ challenge[c].dev = None
    /\ challenge' = [challenge EXCEPT ![c] = [dev |-> d, used |-> FALSE]]
    /\ UNCHANGED <<device, session, issued, call, delivered, reliable, vouched>>

-----------------------------------------------------------------------------
(* exchangeToken *)

\* The challenge is read and looks good; a used, expired or foreign one is a
\* 401 that changes nothing.
Exchange(k, c) ==
    /\ At(k, "idle")
    /\ challenge[c].dev # None /\ ~ challenge[c].used
    /\ Begin(k, challenge[c].dev,
             [Idle EXCEPT !.pc = "x_device", !.dev = challenge[c].dev, !.chal = c])
    /\ UNCHANGED <<challenge, device, session, issued, delivered, vouched>>

\* The device is read: attested within the window it skips the provider.
ExchangeDevice(k) ==
    /\ At(k, "x_device")
    /\ IF device[call[k].dev].attested = "recent"
       THEN Goto(k, "x_seen")
       ELSE Goto(k, "x_attest")
    /\ UNCHANGED <<challenge, device, session, issued, delivered, reliable, vouched>>

UseChallenge(k) == challenge' = [challenge EXCEPT ![call[k].chal].used = TRUE]

\* Mutant of ThrottledUse: the throttled path forgets to mark the challenge.
ThrottledUse_Unmarked(k) ==
    /\ At(k, "x_seen")
    /\ Goto(k, "insert")
    /\ UNCHANGED <<challenge, device, session, issued, delivered, reliable, vouched>>

\* Throttled path: the challenge is marked used and the device touched
\* (platform, firebase_uid, last_seen_at: nothing this module keeps).
ThrottledUse(k) ==
    /\ At(k, "x_seen")
    /\ UseChallenge(k)
    /\ Goto(k, "insert")
    /\ UNCHANGED <<device, session, issued, delivered, reliable, vouched>>

\* verifyAttestation answers: ok, or a failure of our own or of the provider
\* that fail-open forgives.  Every other failure is Fail below.
Attest(k) ==
    /\ At(k, "x_attest")
    /\ \E v \in {"ok"} \cup (IF FailOpen THEN {"system"} ELSE {}) :
          /\ call' = [call EXCEPT ![k].pc = "x_use", ![k].verdict = v]
          /\ vouched' = IF v = "ok" THEN vouched \cup {call[k].dev} ELSE vouched
    /\ UNCHANGED <<challenge, device, session, issued, delivered, reliable>>

AttestedUse(k) ==
    /\ At(k, "x_use")
    /\ UseChallenge(k)
    /\ Goto(k, "x_row")
    /\ UNCHANGED <<device, session, issued, delivered, reliable, vouched>>

\* ApiDevice.findOrCreate; the instance remembers the marker it read.
FindOrCreateDevice(k) ==
    LET d == call[k].dev
    IN  /\ At(k, "x_row")
        /\ device' = IF device[d].attested = "absent"
                     THEN [device EXCEPT ![d].attested = "never"] ELSE device
        /\ call' = [call EXCEPT ![k].pc = "x_stamp", ![k].marked = device[d].degraded]
        /\ UNCHANGED <<challenge, session, issued, delivered, reliable, vouched>>

\* Mutant of StampDevice: attested_at is stamped on fail-open too.
StampDevice_Always(k) ==
    /\ At(k, "x_stamp")
    /\ device' = [device EXCEPT ![call[k].dev].attested = "recent",
                                ![call[k].dev].degraded = call[k].verdict # "ok"]
    /\ call' = [call EXCEPT ![k].pc = "insert", ![k].verdict = "none", ![k].marked = FALSE]
    /\ UNCHANGED <<challenge, session, issued, delivered, reliable, vouched>>

\* device.update: Sequelize writes the fields whose value differs from the one
\* the instance read, so the marker is cleared only if this call saw it set.
StampDevice(k) ==
    LET d == call[k].dev
    IN  /\ At(k, "x_stamp")
        /\ device' = IF call[k].verdict = "ok"
                     THEN [device EXCEPT ![d].attested = "recent",
                              ![d].degraded = IF call[k].marked THEN FALSE ELSE @]
                     ELSE [device EXCEPT ![d].degraded = TRUE]
        /\ call' = [call EXCEPT ![k].pc = "insert", ![k].verdict = "none", ![k].marked = FALSE]
        /\ UNCHANGED <<challenge, session, issued, delivered, reliable, vouched>>

-----------------------------------------------------------------------------
(* refreshToken *)

\* The device is known; the client presents the token of a session it holds
\* (any session whose payload was sent to it, the older ones included).
Refresh(k, s) ==
    /\ At(k, "idle")
    /\ s \in delivered
    /\ Begin(k, session[s].dev,
             [Idle EXCEPT !.pc = "r_session", !.dev = session[s].dev, !.par = s])
    /\ UNCHANGED <<challenge, device, session, issued, delivered, vouched>>

\* Mutant of RefreshSession: the lookup forgets revoked_at: null.
RefreshSession_AnyRow(k) ==
    /\ At(k, "r_session")
    /\ Goto(k, "r_revoke")
    /\ UNCHANGED <<challenge, device, session, issued, delivered, reliable, vouched>>

RefreshSession(k) ==
    LET s == call[k].par
    IN  /\ At(k, "r_session")
        /\ ~ session[s].revoked
        /\ Goto(k, "r_revoke")
        /\ UNCHANGED <<challenge, device, session, issued, delivered, reliable, vouched>>

RevokeOld(k) ==
    /\ At(k, "r_revoke")
    /\ session' = [session EXCEPT ![call[k].par].revoked = TRUE]
    /\ Goto(k, "insert")
    /\ UNCHANGED <<challenge, device, issued, delivered, reliable, vouched>>

-----------------------------------------------------------------------------
(* createSession *)

InsertSession(k) ==
    /\ At(k, "insert")
    /\ issued < MaxSession
    /\ issued' = issued + 1
    /\ session' = [session EXCEPT ![issued + 1] =
          [dev |-> call[k].dev, chal |-> call[k].chal, parent |-> call[k].par,
           solo |-> call[k].alone, revoked |-> FALSE]]
    /\ call' = [call EXCEPT ![k].pc = "secret", ![k].sid = issued + 1,
                              ![k].chal = None]
    /\ UNCHANGED <<challenge, device, delivered, reliable, vouched>>

\* Mutants of StoreSecret: only a device without a secret gets one; the secret
\* of another session is stored.
StoreSecret_FirstOnly(k) ==
    /\ At(k, "secret")
    /\ device' = [device EXCEPT ![call[k].dev].secret = IF @ = 0 THEN call[k].sid ELSE @]
    /\ Goto(k, "reply")
    /\ UNCHANGED <<challenge, session, issued, delivered, reliable, vouched>>

StoreSecret_Next(k) ==
    /\ At(k, "secret")
    /\ device' = [device EXCEPT ![call[k].dev].secret = call[k].sid + 1]
    /\ Goto(k, "reply")
    /\ UNCHANGED <<challenge, session, issued, delivered, reliable, vouched>>

\* There is one session_secret_hash per device, whatever sessions it has.
StoreSecret(k) ==
    /\ At(k, "secret")
    /\ device' = [device EXCEPT ![call[k].dev].secret = call[k].sid]
    /\ Goto(k, "reply")
    /\ UNCHANGED <<challenge, session, issued, delivered, reliable, vouched>>

\* The payload reaches the client.
Reply(k) ==
    /\ At(k, "reply")
    /\ reliable' = [reliable EXCEPT ![call[k].dev] = IF call[k].alone THEN call[k].sid ELSE 0]
    /\ delivered' = delivered \cup {call[k].sid}
    /\ call' = [call EXCEPT ![k] = Idle]
    /\ UNCHANGED <<challenge, device, session, issued, vouched>>

\* What a call has written so far, if it ends now, takes from the client the
\* session it relies on: its secret is replaced or its token revoked.
Disturbs(k) ==
    \/ At(k, "reply")
    \/ call[k].pc \in {"insert", "secret"} /\ call[k].par = reliable[call[k].dev]

\* Mutant of Fail: a failed exchange gives its challenge back.
Fail_Refund(k) ==
    /\ Issuing(k)
    /\ reliable' = IF Disturbs(k) THEN [reliable EXCEPT ![call[k].dev] = 0] ELSE reliable
    /\ challenge' = IF call[k].chal = None THEN challenge
                    ELSE [challenge EXCEPT ![call[k].chal].used = FALSE]
    /\ call' = [call EXCEPT ![k] = Idle]
    /\ UNCHANGED <<device, session, issued, delivered, vouched>>

\* An issuing call ends without a payload: a 401, a failing query, a lost
\* connection.  What it wrote stays.
Fail(k) ==
    /\ Issuing(k)
    /\ reliable' = IF Disturbs(k) THEN [reliable EXCEPT ![call[k].dev] = 0] ELSE reliable
    /\ call' = [call EXCEPT ![k] = Idle]
    /\ UNCHANGED <<challenge, device, session, issued, delivered, vouched>>

-----------------------------------------------------------------------------
(* The credential checks of verifySignedRequest *)

\* The device is read, and with it the secret the signature is checked against.
Verify(k, s) ==
    /\ At(k, "idle")
    /\ s \in delivered
    /\ call' = [call EXCEPT ![k] =
          [Idle EXCEPT !.pc = "v_session", !.dev = session[s].dev, !.par = s,
                       !.key = device[session[s].dev].secret, !.stale = session[s].revoked]]
    /\ UNCHANGED <<challenge, device, session, issued, delivered, reliable, vouched>>

\* Mutant of VerifySession: the lookup forgets revoked_at: null.
VerifySession_AnyRow(k) ==
    /\ At(k, "v_session")
    /\ Goto(k, "v_sign")
    /\ UNCHANGED <<challenge, device, session, issued, delivered, reliable, vouched>>

VerifySession(k) ==
    LET s == call[k].par
    IN  /\ At(k, "v_session")
        /\ ~ session[s].revoked
        /\ Goto(k, "v_sign")
        /\ UNCHANGED <<challenge, device, session, issued, delivered, reliable, vouched>>

\* The client signs with the secret of the payload it presents.
VerifySignature(k) ==
    /\ At(k, "v_sign")
    /\ call[k].key = call[k].par
    /\ Goto(k, "v_serve")
    /\ UNCHANGED <<challenge, device, session, issued, delivered, reliable, vouched>>

\* The request is refused at some check, or its route is done.
EndVerify(k) ==
    /\ call[k].pc \in VerifySteps
    /\ call' = [call EXCEPT ![k] = Idle]
    /\ UNCHANGED <<challenge, device, session, issued, delivered, reliable, vouched>>

-----------------------------------------------------------------------------
(* Time and crashes *)

AttestationAges(d) ==
    /\ device[d].attested = "recent"
    /\ device' = [device EXCEPT ![d].attested = "old"]
    /\ UNCHANGED <<challenge, session, issued, call, delivered, reliable, vouched>>

\* The process dies with every call in it; the database stays.
Crash ==
    /\ call' = [k \in Calls |-> Idle]
    /\ reliable' = [d \in Devices |->
          IF \E k \in IssuingFor(d) : Disturbs(k) THEN 0 ELSE reliable[d]]
    /\ UNCHANGED <<challenge, device, session, issued, delivered, vouched>>

Next ==
    \/ \E c \in Challenges, d \in Devices : CreateChallenge(c, d)
    \/ \E k \in Calls, c \in Challenges : Exchange(k, c)
    \/ \E k \in Calls, s \in Sessions : Refresh(k, s) \/ Verify(k, s)
    \/ \E k \in Calls :
          \/ ExchangeDevice(k) \/ ThrottledUse(k)
          \/ Attest(k) \/ AttestedUse(k) \/ FindOrCreateDevice(k) \/ StampDevice(k)
          \/ RefreshSession(k) \/ RevokeOld(k)
          \/ InsertSession(k) \/ StoreSecret(k) \/ Reply(k) \/ Fail(k)
          \/ VerifySession(k) \/ VerifySignature(k) \/ EndVerify(k)
    \/ \E d \in Devices : AttestationAges(d)
    \/ Crash

Spec == Init /\ [][Next]_vars

-----------------------------------------------------------------------------
\* A challenge or refresh token is spent in the database before the session it
\* buys exists (exchangeToken, refreshToken), so that a crash or a failure
\* between the two writes can cost the client a session, never give it two.
SpentBeforeIssue ==
    \A s \in Sessions : s <= issued =>
        /\ session[s].chal # None => challenge[session[s].chal].used
        /\ session[s].parent # 0 => session[session[s].parent].revoked

SameCredential(s, t) ==
    \/ session[s].chal # None /\ session[s].chal = session[t].chal
    \/ session[s].parent # 0 /\ session[s].parent = session[t].parent

\* Single use as far as the code gives it: one challenge or refresh token buys
\* two sessions only if the calls that bought them overlapped.
SingleUseUnlessOverlapped ==
    \A s, t \in 1 .. issued :
        s # t /\ SameCredential(s, t) => ~ session[s].solo /\ ~ session[t].solo

\* A client whose issuing call ran alone can sign with the payload it got: the
\* device's only secret is that session's and the session is not revoked.  This
\* stays so over later calls that fail or die before they have revoked the session
\* or replaced the secret.  One that fails or dies after that, its reply lost
\* included, leaves the client without a usable payload (Disturbs), until the next
\* call that runs alone brings one.
ReliablePayload ==
    \A d \in Devices : reliable[d] # 0 /\ IssuingFor(d) = {} =>
        /\ device[d].secret = reliable[d]
        /\ ~ session[reliable[d]].revoked

\* A device skips its provider only if a provider really vouched for it once: a
\* session issued by fail-open never counts as an attestation.
TrustedOnlyIfVouched ==
    \A d \in Devices : device[d].attested \in {"recent", "old"} => d \in vouched

\* A request that began after its session was revoked never reaches a route,
\* however the rotation and the request interleave.
RetiredNeverServed == \A k \in Calls : At(k, "v_serve") => ~ call[k].stale

\* A call has found its credential unspent and has not bought a session with it yet.
Unpaid(k) == call[k].pc \in ExchangeSteps \cup {"r_revoke", "insert"}

Credential(chal, par) ==
    IF chal # None THEN {<<"challenge", chal>>}
    ELSE IF par # 0 THEN {<<"token", par>>} ELSE {}

FoundBy(k) == IF Unpaid(k) THEN Credential(call[k].chal, call[k].par) ELSE {}

SpentCredentials ==
    {<<"challenge", c>> : c \in {c \in Challenges : challenge[c].used}}
    \cup {<<"token", s>> : s \in {s \in 1 .. issued : session[s].revoked}}

BoughtWith(s) == IF s <= issued THEN Credential(session[s].chal, session[s].parent) ELSE {}

Purchase ==
    INSTANCE CheckThenSpend
    WITH Credentials <- ({"challenge"} \X Challenges) \cup ({"token"} \X Sessions),
         Holders <- Calls, Goods <- Sessions,
         found <- [k \in Calls |-> FoundBy(k)],
         spent <- SpentCredentials,
         price <- [s \in Sessions |-> BoughtWith(s)]

\* Whatever overlaps, fails or dies: a session is bought with a challenge or token
\* that its call found unspent and that is spent for good, and the find is used up
\* with it.  The session endpoints implement CheckThenSpend.
SoldAsFound == Purchase!Spec

\* What the documentation says: a challenge ("still single-use", the comment of
\* exchangeToken) and a refresh token ("old refresh single-use",
\* docs/mobile-api.md) buy at most one session each.
SingleUse == \A s, t \in 1 .. issued : SameCredential(s, t) => s = t
=============================================================================
