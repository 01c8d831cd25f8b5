--------------------------- MODULE ServerTruth_proofs ---------------------------
(***************************************************************************)
(* What the panel says of a server between tasks, for any number of tasks, *)
(* rows, installation steps and faults: the incidents agree with the rows, *)
(* and an error has an incident to explain it.  Overlaps and faults spoil  *)
(* both until an undisturbed task has settled the matter, so the invariant *)
(* is about the one task that runs alone: what it still has to do agrees   *)
(* with what it has found.                                                 *)
(***************************************************************************)
EXTENDS ServerMonitor_proofs

USE ServerMonitorAssumption

-----------------------------------------------------------------------------
(* What a task that runs alone leaves behind *)

Alone(t) == Active(t) /\ task[t].alone

Clear == \A t \in Tasks : (Active(t) /\ ~task[t].alone) => blurred = Blurred

\* What the incidents are about; a task at "patch" goes by what it has found.
Facts(health) == [health |-> health, renewal |-> renewal, tested |-> tested]
Now == Facts(server.health)
Seen(t) == Facts(IF At(t, "patch") THEN task[t].found.health ELSE server.health)

\* What the facts allow: an incident of kind k may be open, or none may be.
MayOpen(k, f) ==
    CASE k = "trojan" -> f.health = "offline"
      [] k = "ssh" -> f.health # "online"
      [] k = "cert" -> f.renewal = "bad"
      [] k = "config" -> f.tested = "bad"

MayClose(k, f) ==
    CASE k = "trojan" -> f.health # "offline"
      [] k = "ssh" -> f.health # "degraded"
      [] k = "cert" -> f.renewal # "bad"
      [] k = "config" -> f.tested # "bad"

OpAgrees(op, f) ==
    /\ op.do = "open" => MayOpen(op.kind, f)
    /\ op.do = "resolve" => MayClose(op.kind, f)

Truth(k) == IF Open(k) = {} THEN MayClose(k, Now) ELSE MayOpen(k, Now)

Opens(t) == task[t].pc \in {"find", "create", "mail", "send", "notify"}
Resolves(t) == task[t].pc \in {"seek", "close", "recover"}

Later(t, k) == \E i \in DOMAIN task[t].rest : task[t].rest[i].kind = k

Pending(t, k) ==
    \/ task[t].pc \in IncidentSteps /\ task[t].kind = k
    \/ Later(t, k)
    \/ k = "cert" /\ task[t].pc \in {"renewed", "failed"}

\* The work of a task alone agrees with the rows.
Work(t) ==
    /\ \A i \in DOMAIN task[t].rest : OpAgrees(task[t].rest[i], Seen(t))
    /\ \A i, j \in DOMAIN task[t].rest : task[t].rest[i].kind = "server" => j <= i
    /\ ~Later(t, "cert") /\ ~Later(t, "config")
    /\ Opens(t) => MayOpen(task[t].kind, Now)
    /\ Resolves(t) => MayClose(task[t].kind, Now)
    /\ Announces(t) => Open(task[t].kind) # {}
    /\ At(t, "close") => Open(task[t].kind) \subseteq task[t].held
    /\ At(t, "recover") => Open(task[t].kind) = {}
    /\ task[t].pc \in {"check", "record"} \cup RenewSteps => task[t].rest = <<>>
    /\ (Later(t, "server") \/ task[t].pc \in {"check", "patch"} \cup RenewSteps)
          => task[t].inst = server
    /\ At(t, "patch") => ~Later(t, "server") /\ \A k \in Kinds \cap {"trojan", "ssh"} : Later(t, k)
    /\ At(t, "record") => task[t].seen = tested
    /\ "cert" \in Kinds => /\ At(t, "renewed") => renewal = "ok"
                           /\ At(t, "failed") => renewal = "bad"
    /\ Installs(t) => server.health = "unknown" /\ task[t].rest = <<>>

WorksWell == \A t \in Tasks : Alone(t) => Work(t)

Judged(k) == k \notin blurred \cup (IF "status" \in blurred THEN {"trojan", "ssh"} ELSE {})

Truthful ==
    \A k \in Kinds : Judged(k) => Truth(k) \/ \E t \in Tasks : Alone(t) /\ Pending(t, k)

TruthInv ==
    /\ Clear /\ WorksWell /\ Truthful
    /\ server.status = "absent" => \A k \in Kinds : Open(k) = {}

-----------------------------------------------------------------------------
(* What is common to the steps *)

LEMMA Only ==
    ASSUME IncidentInv, NEW t \in Tasks, Alone(t), NEW o \in Tasks, Active(o)
    PROVE  o = t
BY DEF IncidentInv, AloneOnly, Alone

LEMMA Judgement ==
    ASSUME IncidentInv, TruthInv, NEW t \in Tasks, Alone(t), NEW k \in Kinds, Judged(k)
    PROVE  Truth(k) \/ Pending(t, k)
<1>1. Truth(k) \/ \E o \in Tasks : Alone(o) /\ Pending(o, k)
  BY DEF TruthInv, Truthful
<1>2. \A o \in Tasks : Alone(o) => o = t
  BY Only DEF Alone
<1>3. QED BY <1>1, <1>2

\* Only what a kind goes by can change what is true of it.
LEMMA TruthSame ==
    ASSUME NEW k \in Kinds, Open(k)' = Open(k) \/ (Open(k) = {} <=> Open(k)' = {}),
           k \in {"trojan", "ssh"} => server'.health = server.health,
           k = "cert" => renewal' = renewal, k = "config" => tested' = tested
    PROVE  Truth(k)' <=> Truth(k)
<1>1. k \in {"trojan", "ssh", "cert", "config"}
  OBVIOUS
<1>2. MayOpen(k, Now') <=> MayOpen(k, Now)
  BY <1>1 DEF MayOpen, Now, Facts
<1>3. MayClose(k, Now') <=> MayClose(k, Now)
  BY <1>1 DEF MayClose, Now, Facts
<1>4. QED BY <1>2, <1>3 DEF Truth

\* A step of t, alone, leaves its work in order and no untruth but its own.
Kept(t) ==
    /\ task'[t].pc # "idle" => Work(t)'
    /\ \A k \in Kinds : Judged(k)' => Truth(k)' \/ (task'[t].pc # "idle" /\ Pending(t, k)')

\* What a step of t must see to, the rest follows.
LEMMA TruthFrame ==
    ASSUME TypeOK, Shape, IncidentInv, TruthInv, NEW t \in Tasks, Active(t), Stays(t), Others(t),
           server'.status # "absent",
           ~task[t].alone => blurred' = blurred,
           task[t].alone => Kept(t)
    PROVE  TruthInv'
<1>0. Idle.pc = "idle" /\ task[t].pc # "idle"
  BY DEF Idle, Active, At
<1>1. ~task[t].alone => blurred' = Blurred
  BY DEF TruthInv, Clear
<1>2. ASSUME NEW o \in Tasks, o # t, task'[o].pc # "idle" PROVE ~task[t].alone /\ ~task'[o].alone
  <2>1. task'[o] = task[o] /\ task[o].pc # "idle"
    BY <1>2 DEF Others
  <2>2. QED BY <1>2, <2>1 DEF IncidentInv, AloneOnly, Active, At
<1>3. Clear'
  <2> SUFFICES ASSUME NEW o \in Tasks, task'[o].pc # "idle", ~task'[o].alone PROVE blurred' = Blurred
    BY DEF Clear, Active, At, Blurred
  <2>1. ~task[t].alone
    BY <1>0, <1>2 DEF Stays
  <2>2. QED BY <1>1, <2>1
<1>4. WorksWell'
  <2> SUFFICES ASSUME NEW o \in Tasks, task'[o].pc # "idle", task'[o].alone PROVE Work(o)'
    BY DEF WorksWell, Alone, Active, At
  <2>1. o = t
    BY <1>2
  <2>2. task[t].alone
    BY <1>0, <2>1 DEF Stays
  <2>3. QED BY <2>1, <2>2 DEF Kept
<1>5. Truthful'
  <2> SUFFICES ASSUME NEW k \in Kinds, Judged(k)'
               PROVE  Truth(k)' \/ \E o \in Tasks : Alone(o)' /\ Pending(o, k)'
    BY DEF Truthful
  <2>1. task[t].alone
    BY <1>1 DEF Judged, Blurred
  <2>2. Truth(k)' \/ (task'[t].pc # "idle" /\ Pending(t, k)')
    BY <2>1 DEF Kept
  <2>3. task'[t].pc # "idle" => Alone(t)'
    BY <1>0, <2>1 DEF Stays, Alone, Active, At
  <2>4. QED BY <2>2, <2>3
<1>6. QED BY <1>3, <1>4, <1>5 DEF TruthInv

\* The next thing a task does agrees with the rows if all it has to do does.
LEMMA WorkAdvance ==
    ASSUME NEW t \in Tasks, NEW q \in Task, task'[t] = Advance(q), q.rest # <<>>,
           \A i \in DOMAIN q.rest : OpAgrees(q.rest[i], Now'),
           \A i, j \in DOMAIN q.rest : q.rest[i].kind = "server" => j <= i /\ q.inst = server',
           \A i \in DOMAIN q.rest : i # 1 => q.rest[i].kind \notin {"cert", "config"}
    PROVE  /\ Work(t)' /\ task'[t].pc \in {"find", "seek", "check"}
           /\ \A k \in Kinds : (\E i \in DOMAIN q.rest : q.rest[i].kind = k) => Pending(t, k)'
           /\ (\E i \in DOMAIN q.rest : q.rest[i].kind = "server") =>
                 task'[t].pc = "check" \/ Later(t, "server")'
           /\ task'[t].kind = q.rest[1].kind
           /\ task'[t].pc = "seek" <=> q.rest[1].do = "resolve"
           /\ task'[t].pc = "find" <=> q.rest[1].do = "open"
<1> DEFINE op == q.rest[1]
           r == task'[t]
           L == Len(q.rest)
<1>0. q.rest \in Rests /\ L \in 1 .. 2 /\ DOMAIN q.rest = 1 .. L
  <2>1. q.rest \in Rests
    BY DEF Task, Rests
  <2>2. QED BY <2>1, RestOK
<1>1. /\ op \in Op /\ r.kind = op.kind /\ r.held = {} /\ r.inst = q.inst
      /\ r.pc \in {"find", "seek", "check"}
      /\ r.pc = "find" <=> op.do = "open"
      /\ r.pc = "seek" <=> op.do = "resolve"
  BY AdvanceOK
<1>2. /\ r.pc = "check" => op = Checking
      /\ r.pc # "check" => op.kind \in Kinds
      /\ r.rest = Tail(q.rest)
      /\ DOMAIN r.rest = 1 .. (L - 1)
      /\ \A i \in 1 .. (L - 1) : r.rest[i] = q.rest[i + 1]
  BY AdvanceOK
<1>3. \A i \in 1 .. (L - 1) : i + 1 \in 1 .. L /\ i + 1 # 1 /\ i \in Nat
  BY <1>0
<1>4. Checking.kind = "server" /\ "server" \notin Kinds
  BY DEF Checking
<1>5. 1 \in DOMAIN q.rest
  BY <1>0
<1>6. r.pc = "check" => r.rest = <<>>
  <2> SUFFICES ASSUME r.pc = "check" PROVE r.rest = <<>>
    OBVIOUS
  <2>1. op.kind = "server"
    BY <1>2, <1>4
  <2>2. \A j \in 1 .. L : j <= 1
    BY <1>0, <1>5, <2>1
  <2>3. L = 1
    BY <1>0, <2>2
  <2>4. r.rest \in Rests
    BY <1>0, <1>2, RestOK
  <2>5. r.rest # <<>> => 1 \in DOMAIN r.rest
    BY <2>4, RestOK
  <2>6. QED BY <1>2, <2>3, <2>5
<1>a. \A i \in DOMAIN r.rest : i + 1 \in DOMAIN q.rest /\ i + 1 # 1 /\ r.rest[i] = q.rest[i + 1]
  BY <1>0, <1>2, <1>3
<1>7. \A i \in DOMAIN r.rest : OpAgrees(r.rest[i], Now')
  BY <1>0, <1>2, <1>3
<1>8. Seen(t)' = Now' /\ (Opens(t)' => r.pc = "find") /\ (Resolves(t)' => r.pc = "seek")
  BY <1>1 DEF Seen, Now, At, Opens, Resolves
<1>9. OpAgrees(op, Now')
  BY <1>5
<1>10. /\ r.pc = "find" => MayOpen(r.kind, Now')
       /\ r.pc = "seek" => MayClose(r.kind, Now')
  BY <1>1, <1>9 DEF OpAgrees
<1>11. \A i, j \in DOMAIN r.rest : r.rest[i].kind = "server" => j <= i
  <2> SUFFICES ASSUME NEW i \in DOMAIN r.rest, NEW j \in DOMAIN r.rest, r.rest[i].kind = "server"
               PROVE  j <= i
    OBVIOUS
  <2>1. /\ i + 1 \in DOMAIN q.rest /\ j + 1 \in DOMAIN q.rest /\ q.rest[i + 1].kind = "server"
        /\ i \in Nat /\ j \in Nat
    BY <1>0, <1>2, <1>3, <1>a
  <2>2. j + 1 <= i + 1
    BY <2>1
  <2>3. QED BY <2>1, <2>2
<1>12. \A i \in DOMAIN r.rest : r.rest[i].kind \notin {"cert", "config"}
  <2> SUFFICES ASSUME NEW i \in DOMAIN r.rest PROVE r.rest[i].kind \notin {"cert", "config"}
    OBVIOUS
  <2>1. i + 1 \in DOMAIN q.rest /\ i + 1 # 1 /\ r.rest[i] = q.rest[i + 1]
    BY <1>a
  <2>2. QED BY <2>1
<1>13. ((\E i \in DOMAIN r.rest : r.rest[i].kind = "server") \/ r.pc = "check") => r.inst = server'
  <2>1. CASE r.pc = "check"
    BY <1>1, <1>2, <1>4, <1>5, <2>1
  <2>2. ASSUME NEW i \in DOMAIN r.rest, r.rest[i].kind = "server" PROVE r.inst = server'
    <3>1. i + 1 \in DOMAIN q.rest /\ q.rest[i + 1].kind = "server"
      BY <1>a, <2>2
    <3>2. q.inst = server'
      BY <3>1
    <3>3. QED BY <1>1, <3>2
  <2>3. QED BY <2>1, <2>2
<1>14. ASSUME NEW i \in DOMAIN q.rest
       PROVE  \/ q.rest[i] = op
              \/ \E j \in DOMAIN r.rest : r.rest[j] = q.rest[i]
  <2>1. CASE i = 1
    BY <2>1
  <2>2. CASE i # 1
    <3>1. i - 1 \in 1 .. (L - 1) /\ (i - 1) + 1 = i
      BY <1>0, <2>2
    <3>2. QED BY <1>2, <3>1
  <2>3. QED BY <2>1, <2>2
<1>15. \A k \in Kinds : (\E i \in DOMAIN q.rest : q.rest[i].kind = k) =>
          \/ r.pc \in {"find", "seek"} /\ r.kind = k
          \/ \E j \in DOMAIN r.rest : r.rest[j].kind = k
  BY <1>1, <1>2, <1>4, <1>14
<1>16. (\E i \in DOMAIN q.rest : q.rest[i].kind = "server") =>
          \/ r.pc = "check"
          \/ \E j \in DOMAIN r.rest : r.rest[j].kind = "server"
  BY <1>1, <1>2, <1>4, <1>14
<1>17. Work(t)'
  <2>1. /\ \A i \in DOMAIN r.rest : OpAgrees(r.rest[i], Seen(t)')
        /\ \A i, j \in DOMAIN r.rest : r.rest[i].kind = "server" => j <= i
        /\ ~Later(t, "cert")' /\ ~Later(t, "config")'
    BY <1>7, <1>8, <1>11, <1>12 DEF Later
  <2>2. /\ Opens(t)' => MayOpen(r.kind, Now')
        /\ Resolves(t)' => MayClose(r.kind, Now')
    BY <1>8, <1>10
  <2>3. ~Announces(t)' /\ ~Installs(t)' /\ r.pc \notin RenewSteps
    BY <1>1 DEF Announces, Installs, InstallSteps, RenewSteps
  <2>4. (Later(t, "server")' \/ r.pc \in {"check", "patch"} \cup RenewSteps) => r.inst = server'
    BY <1>1, <1>13, <2>3 DEF Later
  <2> HIDE DEF r
  <2>5. r = task'[t]
    BY DEF r
  <2>6. QED BY <1>1, <1>6, <2>1, <2>2, <2>3, <2>4, <2>5 DEF Work, At
<1>18. QED BY <1>1, <1>15, <1>16, <1>17 DEF Pending, Later, IncidentSteps

LEMMA KindNames == \A k \in Kinds : k \in {"trojan", "ssh", "cert", "config"} /\ k # "status" /\ k # "server"
OBVIOUS

\* t, at work on an incident, is through with its kind: one is open now, or it
\* was resolving and none is.
SettledOn(t, kind) ==
    /\ Settle(t) /\ task[t].pc \in IncidentSteps /\ task[t].kind = kind
    /\ UNCHANGED <<server, renewal, tested, job>>
    /\ \A k \in Kinds : k # kind => Open(k)' = Open(k)
    /\ IF Open(kind)' = {} THEN Resolves(t) /\ MayClose(kind, Now) ELSE MayOpen(kind, Now)

\* t goes on with its kind.
GoesOn(t, kind) ==
    /\ task[t].pc \in IncidentSteps /\ task'[t].pc \in IncidentSteps
    /\ task'[t].rest = task[t].rest /\ task'[t].inst = task[t].inst
    /\ task[t].kind = kind /\ task'[t].kind = kind
    /\ UNCHANGED <<server, renewal, tested, job, blurred>>
    /\ \A k \in Kinds : k # kind => Open(k)' = Open(k)
    /\ Opens(t)' => Opens(t)
    /\ Resolves(t)' => Resolves(t)
    /\ Announces(t)' => Open(kind)' # {}
    /\ task'[t].pc = "close" => Open(kind)' \subseteq task'[t].held
    /\ task'[t].pc = "recover" => Open(kind)' = {}

\* An undisturbed task is through with its kind.
LEMMA TruthSettle ==
    ASSUME TypeOK, Shape, IncidentInv, TruthInv, NEW t \in Tasks, Alone(t),
           NEW kind \in Kinds, SettledOn(t, kind)
    PROVE  Kept(t)
<1> USE DEF SettledOn
<1> DEFINE q == task[t]
<1>0. /\ q \in Task /\ task'[t] = Advance(q) /\ blurred' = blurred \ {kind} /\ Work(t)
      /\ Idle.pc = "idle"
  BY DEF TypeOK, Settle, Alone, TruthInv, WorksWell, Idle
<1>1. Now' = Now /\ Seen(t) = Now
  BY DEF Now, Seen, Facts, At, IncidentSteps
<1>2. /\ \A i \in DOMAIN q.rest : OpAgrees(q.rest[i], Now')
      /\ \A i, j \in DOMAIN q.rest : q.rest[i].kind = "server" => j <= i /\ q.inst = server'
      /\ \A i \in DOMAIN q.rest : q.rest[i].kind \notin {"cert", "config"}
  BY <1>0, <1>1 DEF Work, Later
<1>3. CASE q.rest = <<>>
  <2>1. task'[t].pc = "idle"
    BY <1>0, <1>3, AdvanceOK
  <2>2. \A k \in Kinds : ~Later(t, k)
    BY <1>3 DEF Later
  <2>3. ASSUME NEW k \in Kinds, Judged(k)', k # kind PROVE Truth(k)'
    <3>1. Judged(k)
      BY <1>0, <2>3, KindNames DEF Judged
    <3>2. ~Pending(t, k)
      BY <2>2, <2>3 DEF Pending, IncidentSteps
    <3>3. Truth(k)
      BY <3>1, <3>2, Judgement
    <3>4. QED BY <2>3, <3>3, TruthSame
  <2>4. Truth(kind)'
    BY <1>1 DEF Truth
  <2>5. QED BY <2>1, <2>3, <2>4 DEF Kept
<1>4. CASE q.rest # <<>>
  <2> HIDE DEF q
  <2>1. /\ Work(t)' /\ task'[t].pc \in {"find", "seek", "check"}
        /\ \A k \in Kinds : (\E i \in DOMAIN q.rest : q.rest[i].kind = k) => Pending(t, k)'
    BY <1>0, <1>2, <1>4, WorkAdvance
  <2>2. \A k \in Kinds : Later(t, k) => Pending(t, k)'
    BY <2>1 DEF Later, q
  <2>3. ASSUME NEW k \in Kinds, Judged(k)', k # kind PROVE Truth(k)' \/ Pending(t, k)'
    <3>1. Judged(k)
      BY <1>0, <2>3, KindNames DEF Judged
    <3>2. Pending(t, k) => Later(t, k)
      BY <2>3 DEF Pending, IncidentSteps
    <3>3. Truth(k) \/ Later(t, k)
      BY <3>1, <3>2, Judgement
    <3>4. Truth(k)' <=> Truth(k)
      BY <2>3, TruthSame
    <3>5. QED BY <2>2, <3>3, <3>4
  <2>4. Truth(kind)'
    BY <1>1 DEF Truth
  <2>5. QED BY <2>1, <2>3, <2>4 DEF Kept
<1>5. QED BY <1>3, <1>4

\* An undisturbed task goes on with its kind.
LEMMA TruthGoto ==
    ASSUME TypeOK, Shape, IncidentInv, TruthInv, NEW t \in Tasks, Alone(t),
           NEW kind \in Kinds, GoesOn(t, kind)
    PROVE  Kept(t)
<1> USE DEF GoesOn
<1>0. Work(t)
  BY DEF Alone, TruthInv, WorksWell
<1>1. Now' = Now /\ Seen(t) = Now /\ Seen(t)' = Now
  BY DEF Now, Seen, Facts, At, IncidentSteps
<1>2. \A k : Later(t, k)' <=> Later(t, k)
  BY DEF Later
<1>3. /\ task'[t].pc \notin {"idle", "check", "patch", "record"} \cup RenewSteps \cup InstallSteps
      /\ task[t].pc \notin {"idle", "check", "patch", "record"} \cup RenewSteps \cup InstallSteps
  BY DEF IncidentSteps, RenewSteps, InstallSteps
<1>4. Work(t)'
  <2>1. /\ \A i \in DOMAIN task'[t].rest : OpAgrees(task'[t].rest[i], Seen(t)')
        /\ \A i, j \in DOMAIN task'[t].rest : task'[t].rest[i].kind = "server" => j <= i
    BY <1>0, <1>1 DEF Work
  <2>2. ~Later(t, "cert")' /\ ~Later(t, "config")'
    BY <1>0, <1>2 DEF Work
  <2>3. /\ Opens(t)' => MayOpen(kind, Now')
        /\ Resolves(t)' => MayClose(kind, Now')
    BY <1>0, <1>1 DEF Work
  <2>4. Later(t, "server")' => task'[t].inst = server'
    BY <1>0, <1>2 DEF Work
  <2>5. ~Installs(t)'
    BY <1>3 DEF Installs
  <2>6. /\ Announces(t)' => Open(task[t].kind)' # {}
        /\ task'[t].pc = "close" => Open(task[t].kind)' \subseteq task'[t].held
        /\ task'[t].pc = "recover" => Open(task[t].kind)' = {}
    OBVIOUS
  <2>7. QED BY <1>3, <2>1, <2>2, <2>3, <2>4, <2>5, <2>6 DEF Work, At, RenewSteps
<1>5. ASSUME NEW k \in Kinds, Judged(k)' PROVE Truth(k)' \/ Pending(t, k)'
  <2>1. CASE k = kind
    BY <2>1 DEF Pending
  <2>2. CASE k # kind
    <3>1. Judged(k)
      BY <1>5 DEF Judged
    <3>2. Pending(t, k) => Pending(t, k)'
      BY <1>2, <1>3, <2>2 DEF Pending, RenewSteps
    <3>3. Truth(k)' <=> Truth(k)
      BY <2>2, TruthSame
    <3>4. QED BY <3>1, <3>2, <3>3, Judgement
  <2>3. QED BY <2>1, <2>2
<1>6. QED BY <1>3, <1>4, <1>5 DEF Kept

-----------------------------------------------------------------------------
(* The steps of a check *)

\* What was said of the other kinds is still said.
LEMMA TruthStill ==
    ASSUME IncidentInv, TruthInv, NEW t \in Tasks, Alone(t), NEW k \in Kinds, Judged(k),
           ~Pending(t, k), Open(k)' = Open(k),
           k \in {"trojan", "ssh"} => server'.health = server.health,
           k = "cert" => renewal' = renewal, k = "config" => tested' = tested
    PROVE  Truth(k)'
<1>1. Truth(k)
  BY Judgement
<1>2. Truth(k)' <=> Truth(k)
  BY TruthSame
<1>3. QED BY <1>1, <1>2

LEMMA TruthProbe ==
    ASSUME TypeOK, Shape, IncidentInv, TruthInv, NEW t \in Tasks, Alone(t), Probe(t)
    PROVE  Kept(t)
<1>0. Work(t) /\ task[t] \in Task /\ At(t, "check")
  BY DEF Alone, TruthInv, WorksWell, TypeOK, Probe
<1>1. PICK ssh \in BOOLEAN :
         task'[t] = [task[t] EXCEPT !.pc = "patch", !.found = Outcome(ssh), !.rest = CheckOps(ssh)]
  BY ZenonT(30) DEF Probe, TypeOK
<1>2. /\ task'[t].pc = "patch" /\ task'[t].found = Outcome(ssh) /\ task'[t].rest = CheckOps(ssh)
      /\ task'[t].inst = task[t].inst
  BY <1>0, <1>1 DEF Task
<1> DEFINE f == Facts(Outcome(ssh).health)
<1>3. Seen(t)' = f
  BY <1>2 DEF Seen, At, Facts, Probe, ghosts
<1>4. /\ f.health = IF ~up THEN "offline" ELSE IF ssh THEN "online" ELSE "degraded"
  BY DEF Facts, Outcome
<1> HIDE DEF f
<1>5. ASSUME NEW i \in DOMAIN CheckOps(ssh)
      PROVE  /\ OpAgrees(CheckOps(ssh)[i], f)
             /\ CheckOps(ssh)[i].kind \in {"trojan", "ssh"}
  <2>1. CheckOps(ssh)[i] \in {IF up THEN Resolving("trojan") ELSE Opening("trojan"),
                              IF ssh THEN Resolving("ssh") ELSE Opening("ssh")}
    BY <1>5, CheckOpsOK DEF TypeOK
  <2>2. /\ OpAgrees(IF up THEN Resolving("trojan") ELSE Opening("trojan"), f)
        /\ OpAgrees(IF ssh THEN Resolving("ssh") ELSE Opening("ssh"), f)
    BY <1>4 DEF OpAgrees, MayOpen, MayClose, Resolving, Opening
  <2>3. /\ (IF up THEN Resolving("trojan") ELSE Opening("trojan")).kind = "trojan"
        /\ (IF ssh THEN Resolving("ssh") ELSE Opening("ssh")).kind = "ssh"
    BY DEF Resolving, Opening
  <2>4. QED BY <2>1, <2>2, <2>3
<1>6. \A k \in Kinds \cap {"trojan", "ssh"} : Later(t, k)'
  BY <1>2, CheckOpsOK DEF Later, TypeOK
<1>7. ~Later(t, "server")' /\ ~Later(t, "cert")' /\ ~Later(t, "config")'
  BY <1>2, <1>5 DEF Later
<1>8. task'[t].inst = server'
  BY <1>0, <1>2 DEF Work, At, Probe
<1>9. Work(t)'
  <2>1. /\ \A i \in DOMAIN task'[t].rest : OpAgrees(task'[t].rest[i], Seen(t)')
        /\ \A i, j \in DOMAIN task'[t].rest : task'[t].rest[i].kind = "server" => j <= i
    BY <1>2, <1>3, <1>5
  <2>2. /\ ~Opens(t)' /\ ~Resolves(t)' /\ ~Announces(t)' /\ ~Installs(t)'
        /\ task'[t].pc \notin {"close", "recover", "check", "record"} \cup RenewSteps
    BY <1>2 DEF Opens, Resolves, Announces, Installs, InstallSteps, RenewSteps
  <2>3. QED BY <1>6, <1>7, <1>8, <2>1, <2>2 DEF Work, At, RenewSteps
<1>10. ASSUME NEW k \in Kinds, Judged(k)' PROVE Truth(k)'
  <2>1. Judged(k)
    BY <1>10 DEF Judged, Probe, ghosts
  <2>2. ~Pending(t, k)
    BY <1>0 DEF Pending, Later, Work, At, IncidentSteps
  <2>3. Open(k)' = Open(k)
    BY DEF Probe, Open
  <2>4. UNCHANGED <<server, renewal, tested>>
    BY DEF Probe, ghosts
  <2>5. QED BY <2>1, <2>2, <2>3, <2>4, TruthStill
<1>11. QED BY <1>9, <1>10 DEF Kept

LEMMA TruthPatch ==
    ASSUME TypeOK, Shape, IncidentInv, TruthInv, NEW t \in Tasks, Alone(t), Patch(t)
    PROVE  Kept(t)
<1> DEFINE q == [task[t] EXCEPT !.inst = Absent, !.found = Absent]
<1>0. /\ Work(t) /\ task[t] \in Task /\ At(t, "patch") /\ task[t].found \in Findings
      /\ Idle.pc = "idle" /\ server \in Server
  BY DEF Alone, TruthInv, WorksWell, TypeOK, Patch, Shape, ShapeOf, At, Idle
<1>1. /\ q \in Task /\ q.rest = task[t].rest
  BY <1>0, IdleOK DEF Task
<1>2. task'[t] = Advance(q) /\ blurred' = blurred \ {"status"}
  BY DEF Patch, TypeOK, Alone
<1>3. server' = task[t].found
  <2>1. task[t].inst = server /\ Save(task[t].inst, task[t].found) /\ task[t].found \in Server
    BY <1>0 DEF Work, At, Patch, Task
  <2>2. QED BY <1>0, <2>1, SaveOK
<1>4. Seen(t) = Now' /\ UNCHANGED <<renewal, tested, incident>>
  BY <1>0, <1>3 DEF Seen, Now, Facts, At, Patch
<1>5. \A k \in Kinds : ~Later(t, k) => ~Pending(t, k)
  BY <1>0 DEF Pending, At, IncidentSteps
<1> HIDE DEF q
<1>6. ASSUME NEW k \in Kinds, Judged(k)', k \notin {"trojan", "ssh"} PROVE Truth(k)'
  <2>1. Judged(k)
    BY <1>2, <1>6, KindNames DEF Judged
  <2>2. ~Pending(t, k)
    BY <1>0, <1>5, <1>6, KindNames DEF Work
  <2>3. Open(k)' = Open(k)
    BY <1>4 DEF Open
  <2>4. QED BY <1>4, <1>6, <2>1, <2>2, <2>3, TruthStill
<1>7. CASE q.rest = <<>>
  <2>1. task'[t].pc = "idle"
    BY <1>0, <1>1, <1>2, <1>7, AdvanceOK
  <2>2. \A k \in Kinds : k \notin {"trojan", "ssh"}
    BY <1>0, <1>1, <1>7 DEF Work, Later
  <2>3. QED BY <1>6, <2>1, <2>2 DEF Kept
<1>8. CASE q.rest # <<>>
  <2>1. \A i \in DOMAIN q.rest : OpAgrees(q.rest[i], Now')
    BY <1>0, <1>1, <1>4 DEF Work
  <2>2. \A i \in DOMAIN q.rest : q.rest[i].kind \notin {"server", "cert", "config"}
    BY <1>0, <1>1 DEF Work, Later
  <2>3. /\ Work(t)'
        /\ \A k \in Kinds : (\E i \in DOMAIN q.rest : q.rest[i].kind = k) => Pending(t, k)'
    BY SMTT(30), <1>1, <1>2, <1>8, <2>1, <2>2, WorkAdvance
  <2>4. \A k \in Kinds \cap {"trojan", "ssh"} : Pending(t, k)'
    BY <1>0, <1>1, <2>3 DEF Work, Later
  <2>5. task'[t].pc # "idle"
    BY <1>1, <1>2, <1>8, AdvanceOK
  <2>6. QED BY <1>6, <2>3, <2>4, <2>5 DEF Kept
<1>9. QED BY <1>7, <1>8

\* openIncident, undisturbed: the incident is open when it is done.
LEMMA OpenSteps ==
    ASSUME TypeOK, Shape, IncidentInv, TruthInv, NEW t \in Tasks, Alone(t),
           \/ FindOpen(t) \/ CreateIncident(t) \/ BeginMail(t)
           \/ MailAccepted(t) \/ MailFails(t) \/ MarkNotified(t)
    PROVE  \E kind \in Kinds : SettledOn(t, kind) \/ GoesOn(t, kind)
<1>k. PICK kind \in Kinds : task[t].kind = kind
  <2>1. task[t].pc \in IncidentSteps /\ ShapeOf(task[t])
    BY ZenonT(30) DEF FindOpen, CreateIncident, BeginMail, MailAccepted, MailFails, MarkNotified, At,
           IncidentSteps, Shape
  <2>2. QED BY <2>1 DEF ShapeOf
<1> SUFFICES SettledOn(t, kind) \/ GoesOn(t, kind)
  OBVIOUS
<1>0. /\ Work(t) /\ task[t] \in Task /\ ShapeOf(task[t]) /\ Opens(t)
      /\ task[t].pc \in IncidentSteps /\ MayOpen(kind, Now)
  <2>1. Work(t) /\ task[t] \in Task /\ ShapeOf(task[t])
    BY SMTT(30) DEF Alone, TruthInv, WorksWell, TypeOK, Shape
  <2>2. Opens(t)
    BY ZenonT(30) DEF FindOpen, CreateIncident, BeginMail, MailAccepted, MailFails, MarkNotified, At, Opens
  <2>3. task[t].pc \in IncidentSteps
    BY SMTT(30), <2>2 DEF Opens, IncidentSteps
  <2>4. QED BY <1>k, <2>1, <2>2, <2>3 DEF Work
<1>1. UNCHANGED <<server, renewal, tested, job>>
  BY ZenonT(30) DEF FindOpen, CreateIncident, BeginMail, MailAccepted, MailFails, MarkNotified, ghosts
\* What is said of the incident once the task is through with it.
<1>2. ASSUME Settle(t), \A k \in Kinds : k # kind => Open(k)' = Open(k), Open(kind)' # {}
      PROVE  SettledOn(t, kind) \/ GoesOn(t, kind)
  BY <1>0, <1>1, <1>2, <1>k DEF SettledOn
<1>3. ASSUME NEW step \in {"create", "mail", "send", "notify"},
             task'[t].pc = step, task'[t].rest = task[t].rest, task'[t].inst = task[t].inst,
             task'[t].kind = kind, blurred' = blurred,
             \A k \in Kinds : k # kind => Open(k)' = Open(k),
             step # "create" => Open(kind)' # {}
      PROVE  SettledOn(t, kind) \/ GoesOn(t, kind)
  <2>1. /\ task'[t].pc \in IncidentSteps /\ ~Resolves(t)'
        /\ Announces(t)' => Open(kind)' # {}
        /\ task'[t].pc \notin {"close", "recover"}
    BY <1>3 DEF IncidentSteps, Resolves, Announces
  <2>2. QED BY <1>0, <1>1, <1>3, <1>k, <2>1 DEF GoesOn
<1>4. ASSUME NEW step \in {"create", "send", "notify"}, Goto(t, step)
      PROVE  /\ task'[t].pc = step /\ task'[t].rest = task[t].rest
             /\ task'[t].inst = task[t].inst /\ task'[t].kind = kind
  BY <1>0, <1>4, <1>k DEF Goto, TypeOK, Task
<1>5. CASE FindOpen(t)
  <2>1. \A k \in Kinds : Open(k)' = Open(k)
    BY <1>5 DEF FindOpen, Open
  <2>2. CASE Open(kind) = {}
    <3>1. Goto(t, "create") /\ blurred' = blurred
      BY <1>5, <1>k, <2>2 DEF FindOpen
    <3>2. QED BY <1>3, <1>4, <2>1, <3>1
  <2>3. CASE Open(kind) # {}
    <3>1. Settle(t)
      BY <1>5, <1>k, <2>3 DEF FindOpen
    <3>2. Open(kind)' # {}
      BY <1>0, <2>1, <2>3
    <3>3. QED BY <1>2, <2>1, <3>1, <3>2
  <2>4. QED BY <2>2, <2>3
<1>6. CASE CreateIncident(t)
  <2>0. PICK m \in Rows :
          LET k == task[t].kind
              new == [NoRow EXCEPT !.state = "open", !.calm = task[t].alone]
          IN  /\ incident[k][m].state = "none"
              /\ \A o \in Tasks : task[o].kind = k => m \notin task[o].held
              /\ new \in Incident
              /\ incident' \in [Kinds -> [Rows -> Incident]]
              /\ \A j \in Kinds, n \in Rows :
                    incident'[j][n] = IF j = k /\ n = m THEN new ELSE incident[j][n]
              /\ IF k \in Alerting
                 THEN /\ task' = [task EXCEPT ![t] = [@ EXCEPT !.pc = "mail", !.held = {m}]]
                      /\ UNCHANGED blurred
                 ELSE Settle(t)
    BY ZenonT(30), <1>6, <1>k, CreateOK
  <2>1. LET new == [NoRow EXCEPT !.state = "open", !.calm = task[t].alone]
        IN  /\ \A j \in Kinds, n \in Rows :
                   incident'[j][n] = IF j = kind /\ n = m THEN new ELSE incident[j][n]
            /\ IF kind \in Alerting
               THEN /\ task' = [task EXCEPT ![t] = [@ EXCEPT !.pc = "mail", !.held = {m}]]
                    /\ UNCHANGED blurred
               ELSE Settle(t)
    BY <1>k, <2>0
  <2>2. Open(kind)' # {}
    <3>1. incident'[kind][m].state = "open"
      BY <1>0, <2>1 DEF NoRow
    <3>2. m \in {n \in Rows : incident'[kind][n].state = "open"}
      BY <3>1
    <3>3. QED BY <3>2 DEF Open
  <2>3. \A k \in Kinds : k # kind => Open(k)' = Open(k)
    BY <2>1 DEF Open
  <2>4. CASE kind \in Alerting
    <3>1. /\ task'[t] = [task[t] EXCEPT !.pc = "mail", !.held = {m}] /\ blurred' = blurred
      BY <2>1, <2>4 DEF TypeOK
    <3>2. /\ task'[t].pc = "mail" /\ task'[t].rest = task[t].rest
          /\ task'[t].inst = task[t].inst /\ task'[t].kind = kind
      BY <1>0, <1>k, <3>1 DEF Task
    <3>3. QED BY <1>3, <2>2, <2>3, <3>1, <3>2
  <2>5. CASE kind \notin Alerting
    BY <1>2, <2>1, <2>2, <2>3, <2>5
  <2>6. QED BY <2>4, <2>5
<1>7. CASE BeginMail(t)
  <2>1. (\A k \in Kinds : Open(k)' = Open(k)) /\ Announces(t)
    BY <1>7 DEF BeginMail, Open, Announces, At
  <2>2. Open(kind)' # {}
    BY <1>0, <1>k, <2>1 DEF Work
  <2>3. CASE kind \in lastSent
    BY <1>2, <1>7, <2>1, <2>2, <2>3, <1>k DEF BeginMail
  <2>4. CASE kind \notin lastSent
    <3>1. Goto(t, "send") /\ blurred' = blurred
      BY <1>7, <1>k, <2>4 DEF BeginMail
    <3>2. QED BY <1>3, <1>4, <2>1, <2>2, <3>1
  <2>5. QED BY <2>3, <2>4
<1>8. ASSUME MailAccepted(t) \/ MarkNotified(t)
      PROVE  (\A k \in Kinds : Open(k)' = Open(k)) /\ Open(kind)' # {}
  <2>1. \E field \in {"told", "notified"} : incident' = Set(t, field)
    BY <1>8 DEF MailAccepted, MarkNotified
  <2>2. \A k \in Kinds, n \in Rows : incident'[k][n].state = incident[k][n].state
    <3>1. ASSUME NEW field \in {"told", "notified"}, incident' = Set(t, field)
          PROVE  \A k \in Kinds, n \in Rows : incident'[k][n].state = incident[k][n].state
      BY <1>k, <3>1, SetOK
    <3>2. QED BY <2>1, <3>1
  <2>3. \A k \in Kinds : Open(k)' = Open(k)
    BY <2>2 DEF Open
  <2>4. Announces(t)
    BY <1>8 DEF MailAccepted, MarkNotified, Announces, At
  <2>5. Open(kind)' # {}
    BY <1>0, <1>k, <2>3, <2>4 DEF Work
  <2>6. QED BY <2>3, <2>5
<1>9. CASE MailAccepted(t)
  <2>1. Goto(t, "notify") /\ blurred' = blurred
    BY <1>9 DEF MailAccepted, ghosts
  <2>2. QED BY <1>3, <1>4, <1>8, <1>9, <2>1
<1>10. CASE MailFails(t)
  <2>1. (\A k \in Kinds : Open(k)' = Open(k)) /\ Announces(t) /\ Settle(t)
    BY <1>10 DEF MailFails, Open, Announces, At
  <2>2. Open(kind)' # {}
    BY <1>0, <1>k, <2>1 DEF Work
  <2>3. QED BY <1>2, <2>1, <2>2
<1>11. CASE MarkNotified(t)
  <2>1. Settle(t)
    BY <1>11 DEF MarkNotified
  <2>2. QED BY <1>2, <1>8, <1>11, <2>1
<1>12. QED BY <1>5, <1>6, <1>7, <1>9, <1>10, <1>11

\* resolveIncidents, undisturbed: no incident of the kind is open when it is done.
LEMMA ResolveSteps ==
    ASSUME TypeOK, Shape, IncidentInv, TruthInv, NEW t \in Tasks, Alone(t),
           FindAllOpen(t) \/ (\E n \in Rows : CloseIncident(t, n)) \/ AllClosed(t) \/ MailRecovery(t)
    PROVE  \E kind \in Kinds : SettledOn(t, kind) \/ GoesOn(t, kind)
<1>k. PICK kind \in Kinds : task[t].kind = kind
  <2>1. task[t].pc \in IncidentSteps /\ ShapeOf(task[t])
    BY DEF FindAllOpen, CloseIncident, AllClosed, MailRecovery, At, IncidentSteps, Shape
  <2>2. QED BY <2>1 DEF ShapeOf
<1> SUFFICES SettledOn(t, kind) \/ GoesOn(t, kind)
  OBVIOUS
<1>0. /\ Work(t) /\ task[t] \in Task /\ Resolves(t)
      /\ task[t].pc \in IncidentSteps /\ MayClose(kind, Now)
  <2>1. Work(t) /\ task[t] \in Task
    BY SMTT(30) DEF Alone, TruthInv, WorksWell, TypeOK
  <2>2. Resolves(t)
    BY DEF FindAllOpen, CloseIncident, AllClosed, MailRecovery, At, Resolves
  <2>3. task[t].pc \in IncidentSteps
    BY <2>2 DEF Resolves, IncidentSteps
  <2>4. QED BY <1>k, <2>1, <2>2, <2>3 DEF Work
<1>1. UNCHANGED <<server, renewal, tested, job>>
  BY DEF FindAllOpen, CloseIncident, AllClosed, MailRecovery, ghosts
<1>2. ASSUME Settle(t), \A k \in Kinds : k # kind => Open(k)' = Open(k), Open(kind)' = {}
      PROVE  SettledOn(t, kind) \/ GoesOn(t, kind)
  BY <1>0, <1>1, <1>2, <1>k DEF SettledOn
<1>3. ASSUME NEW step \in {"close", "recover"},
             task'[t].pc = step, task'[t].rest = task[t].rest, task'[t].inst = task[t].inst,
             task'[t].kind = kind, blurred' = blurred,
             \A k \in Kinds : k # kind => Open(k)' = Open(k),
             step = "close" => Open(kind)' \subseteq task'[t].held,
             step = "recover" => Open(kind)' = {}
      PROVE  SettledOn(t, kind) \/ GoesOn(t, kind)
  <2>1. task'[t].pc \in IncidentSteps /\ ~Opens(t)' /\ ~Announces(t)'
    BY <1>3 DEF IncidentSteps, Opens, Announces
  <2>2. QED BY <1>0, <1>1, <1>3, <1>k, <2>1 DEF GoesOn
<1>4. CASE FindAllOpen(t)
  <2>1. \A k \in Kinds : Open(k)' = Open(k)
    BY ZenonT(30), <1>4 DEF FindAllOpen, Open
  <2>2. CASE Open(kind) = {}
    <3>1. Settle(t) /\ Open(kind)' = {}
      BY <1>4, <1>k, <2>1, <2>2 DEF FindAllOpen
    <3>2. QED BY <1>2, <2>1, <3>1
  <2>3. CASE Open(kind) # {}
    <3>1. /\ task' = [task EXCEPT ![t].pc = "close", ![t].held = Open(kind),
                         ![t].was = \E n \in Open(kind) : incident[kind][n].notified]
          /\ blurred' = blurred
      BY <1>4, <1>k, <2>3 DEF FindAllOpen
    <3>2. /\ task'[t].pc = "close" /\ task'[t].rest = task[t].rest
          /\ task'[t].inst = task[t].inst /\ task'[t].kind = kind
          /\ task'[t].held = Open(kind)
      BY <1>0, <1>k, <3>1 DEF Task, TypeOK
    <3>3. QED BY <1>3, <2>1, <3>1, <3>2
  <2>4. QED BY SMTT(30), <2>2, <2>3
<1>5. ASSUME NEW n \in Rows, CloseIncident(t, n) PROVE SettledOn(t, kind) \/ GoesOn(t, kind)
  <2>1. /\ At(t, "close") /\ task' = task /\ blurred' = blurred
        /\ incident' = [incident EXCEPT ![kind][n].state = "resolved"]
    BY <1>5, <1>k DEF CloseIncident, ghosts
  <2>2. \A k \in Kinds, m \in Rows : incident'[k][m] =
           IF k = kind /\ m = n THEN [incident[k][m] EXCEPT !.state = "resolved"] ELSE incident[k][m]
    BY <2>1 DEF TypeOK
  <2>3. \A k \in Kinds : k # kind => Open(k)' = Open(k)
    BY ZenonT(30), <2>2 DEF Open
  <2>4. Open(kind)' \subseteq Open(kind)
    <3>1. incident[kind][n] \in Incident
      BY DEF TypeOK
    <3>2. incident'[kind][n].state = "resolved"
      BY ZenonT(30), <2>2, <3>1 DEF Incident
    <3>3. QED BY <2>2, <3>2 DEF Open
  <2>5. Open(kind)' \subseteq task'[t].held
    BY <1>0, <1>k, <2>1, <2>4 DEF Work
  <2>6. QED BY <1>3, <1>k, <2>1, <2>3, <2>5 DEF At
<1>6. CASE AllClosed(t)
  <2>0. At(t, "close") /\ Open(kind) = {}
    BY <1>0, <1>6, <1>k DEF AllClosed, Work
  <2>1. ASSUME \A k \in Kinds, n \in Rows :
                  incident'[k][n].state = "open" <=> incident[k][n].state = "open"
        PROVE  Open(kind)' = {} /\ \A k \in Kinds : Open(k)' = Open(k)
    BY <2>0, <2>1 DEF Open
  <2>2. CASE kind \in Alerting /\ task[t].was
    <3>1. incident' = Set(t, "recalled") /\ Goto(t, "recover") /\ blurred' = blurred
      BY <1>6, <1>k, <2>2 DEF AllClosed
    <3>2. \A k \in Kinds, n \in Rows : incident'[k][n].state = incident[k][n].state
      BY <1>k, <3>1, SetOK
    <3>3. /\ task'[t].pc = "recover" /\ task'[t].rest = task[t].rest
          /\ task'[t].inst = task[t].inst /\ task'[t].kind = kind
      BY <1>0, <1>k, <3>1 DEF Goto, Task, TypeOK
    <3>4. QED BY ZenonT(30), <1>3, <2>1, <3>1, <3>2, <3>3
  <2>3. CASE ~(kind \in Alerting /\ task[t].was)
    <3>1. incident' = Forget(t) /\ Settle(t)
      BY <1>6, <1>k, <2>3 DEF AllClosed
    <3>2. \A k \in Kinds, n \in Rows : incident'[k][n].state = "open" <=> incident[k][n].state = "open"
      BY <1>k, <3>1, ForgetOK DEF NoRow
    <3>3. QED BY <1>2, <2>1, <3>1, <3>2
  <2>4. QED BY <2>2, <2>3
<1>7. CASE MailRecovery(t)
  <2>1. incident' = Forget(t) /\ Settle(t) /\ Open(kind) = {}
    BY <1>0, <1>7, <1>k DEF MailRecovery, Work
  <2>2. \A k \in Kinds, n \in Rows : incident'[k][n].state = "open" <=> incident[k][n].state = "open"
    BY <1>k, <2>1, ForgetOK DEF NoRow
  <2>3. Open(kind)' = {} /\ \A k \in Kinds : Open(k)' = Open(k)
    BY <2>1, <2>2 DEF Open
  <2>4. QED BY <1>2, <2>1, <2>3
<1>8. QED BY <1>4, <1>5, <1>6, <1>7

-----------------------------------------------------------------------------
(* The steps of a renewal, a test and an installation *)

\* What a renewal leaves to do.
LEMMA EndOps ==
    ASSUME NEW a \in {Opening("cert"), Resolving("cert")}, NEW tail \in {<<>>, <<Checking>>}
    PROVE  LET ops == Due(a) \o tail
           IN  /\ ops \in Rests
               /\ \A i \in DOMAIN ops : ops[i] \in {a, Checking} \cap Op
               /\ \A i, j \in DOMAIN ops : ops[i].kind = "server" => j <= i
               /\ \A i \in DOMAIN ops : i # 1 => ops[i] = Checking
               /\ "cert" \in Kinds => \E i \in DOMAIN ops : ops[i] = a
               /\ tail # <<>> => \E i \in DOMAIN ops : ops[i] = Checking
<1>1. /\ a.kind = "cert" /\ Checking.kind = "server" /\ Checking \in Op
      /\ "cert" \in Kinds => a \in Op
  <2>1. a.kind = "cert" /\ Checking.kind = "server"
    BY DEF Opening, Resolving, Checking
  <2>2. QED BY <2>1, OpOK
<1>2. CASE "cert" \in Kinds /\ tail = <<>>
  <2>1. Due(a) \o tail = <<a>> /\ a \in Op
    BY <1>1, <1>2, Short DEF Due
  <2>2. DOMAIN <<a>> = {1} /\ <<a>>[1] = a /\ <<a>> \in Rests
    BY <2>1, RestOK
  <2>3. QED BY <1>1, <1>2, <2>1, <2>2
<1>3. CASE "cert" \in Kinds /\ tail = <<Checking>>
  <2>1. Due(a) \o tail = <<a, Checking>> /\ a \in Op
    BY <1>1, <1>3, Short DEF Due
  <2>2. DOMAIN <<a, Checking>> = {1, 2} /\ <<a, Checking>>[1] = a /\ <<a, Checking>>[2] = Checking
    OBVIOUS
  <2>3. <<a, Checking>> \in Rests
    BY <1>1, <2>1, RestOK
  <2>4. /\ \A i \in {1, 2} : <<a, Checking>>[i] \in {a, Checking} \cap Op
        /\ \A i, j \in {1, 2} : <<a, Checking>>[i].kind = "server" => j <= i
        /\ \A i \in {1, 2} : i # 1 => <<a, Checking>>[i] = Checking
        /\ \E i \in {1, 2} : <<a, Checking>>[i] = a
        /\ \E i \in {1, 2} : <<a, Checking>>[i] = Checking
    BY <1>1, <2>1, <2>2
  <2>5. QED BY <2>1, <2>2, <2>3, <2>4
<1>4. CASE "cert" \notin Kinds /\ tail = <<>>
  <2>1. Due(a) \o tail = <<>>
    BY <1>1, <1>4, Short DEF Due
  <2>2. DOMAIN <<>> = {} /\ <<>> \in Rests
    BY RestOK
  <2>3. QED BY <1>4, <2>1, <2>2
<1>5. CASE "cert" \notin Kinds /\ tail = <<Checking>>
  <2>1. Due(a) \o tail = <<Checking>>
    BY <1>1, <1>5, Short DEF Due
  <2>2. DOMAIN <<Checking>> = {1} /\ <<Checking>>[1] = Checking /\ <<Checking>> \in Rests
    BY <1>1, RestOK
  <2>3. /\ \A i \in {1} : <<Checking>>[i] \in {a, Checking} \cap Op
        /\ \A i, j \in {1} : <<Checking>>[i].kind = "server" => j <= i
        /\ \A i \in {1} : i # 1 => <<Checking>>[i] = Checking
        /\ \E i \in {1} : <<Checking>>[i] = Checking
    BY <1>1, <2>2
  <2>4. QED BY <1>5, <2>1, <2>2, <2>3
<1>6. QED BY <1>2, <1>3, <1>4, <1>5

LEMMA TruthEndRenewal ==
    ASSUME TypeOK, Shape, IncidentInv, TruthInv, NEW t \in Tasks, Alone(t),
           task[t].pc \in {"renewed", "failed"},
           NEW a \in {Opening("cert"), Resolving("cert")}, NEW tail \in {<<>>, <<Checking>>},
           "cert" \in Kinds => OpAgrees(a, Now),
           NEW status \in {"online", "error"}, NEW rescue \in BOOLEAN,
           EndRenewal(t, status, Due(a) \o tail, rescue)
    PROVE  Kept(t)
<1> DEFINE ops == Due(a) \o tail
<1>0. Work(t) /\ task[t] \in Task /\ server \in Server /\ Idle.pc = "idle"
  BY DEF Alone, TruthInv, WorksWell, TypeOK, Idle
<1>1. /\ ops \in Rests
      /\ \A i \in DOMAIN ops : ops[i] \in {a, Checking} \cap Op
      /\ \A i, j \in DOMAIN ops : ops[i].kind = "server" => j <= i
      /\ \A i \in DOMAIN ops : i # 1 => ops[i] = Checking
      /\ "cert" \in Kinds => \E i \in DOMAIN ops : ops[i] = a
  BY ZenonT(30), EndOps
<1>2. a.kind = "cert" /\ Checking.kind = "server" /\ Checking.do = "check"
  BY DEF Opening, Resolving, Checking
<1>3. UNCHANGED <<renewal, tested, incident, blurred>>
  BY DEF EndRenewal, ghosts
<1>4. EndRenewal(t, status, ops, rescue)
  OBVIOUS
<1> HIDE DEF ops
<1>5. PICK after \in Server, q \in Task :
         /\ after.health = task[t].inst.health /\ q.rest = ops /\ q.inst = after
         /\ Save(task[t].inst, after) /\ task'[t] = Advance(q)
  <2>1. PICK after \in Server, q \in Task :
               /\ after.status =
                     IF task[t].manual \/ task[t].prev = "renewing_ssl" THEN status ELSE task[t].prev
               /\ after.status \in {"online", "error"} /\ after.health = task[t].inst.health
               /\ q.rest = ops /\ q.inst = after /\ q.alone = task[t].alone
               /\ ~q.manual /\ q.prev = "online"
               /\ Save(task[t].inst, after)
               /\ task'[t] = Advance(q) /\ Others(t)
    BY <1>1, <1>4, EndRenewalOK
  <2>2. QED BY <2>1
<1>6. server' = after /\ server'.health = server.health
  <2>1. task[t].inst = server
    BY <1>0 DEF Work, RenewSteps
  <2>2. QED BY <1>0, <1>5, <2>1, SaveOK
<1>7. Now' = Now
  BY <1>3, <1>6 DEF Now, Facts
<1>8. \A i \in DOMAIN ops : ops[i] = a => "cert" \in Kinds
  BY <1>1, <1>2 DEF Op
<1>9. /\ \A i \in DOMAIN ops : OpAgrees(ops[i], Now')
      /\ \A i \in DOMAIN ops : i # 1 => ops[i].kind \notin {"cert", "config"}
      /\ \A i, j \in DOMAIN ops : ops[i].kind = "server" => j <= i /\ q.inst = server'
  BY <1>1, <1>2, <1>5, <1>6, <1>7, <1>8 DEF OpAgrees
<1>10. task[t].rest = <<>>
  BY <1>0 DEF Work, RenewSteps
<1>11. ASSUME NEW k \in Kinds, k # "cert", Judged(k)' PROVE Truth(k)'
  <2>1. Judged(k)
    BY <1>3, <1>11 DEF Judged
  <2>2. ~Pending(t, k)
    BY <1>10, <1>11 DEF Pending, Later, IncidentSteps
  <2>3. Open(k)' = Open(k)
    BY <1>3 DEF Open
  <2>4. QED BY <1>3, <1>6, <2>1, <2>2, <2>3, TruthStill
<1>12. CASE q.rest = <<>>
  <2>1. task'[t].pc = "idle"
    BY <1>0, <1>5, <1>12, AdvanceOK
  <2>2. "cert" \notin Kinds
    BY <1>1, <1>5, <1>12
  <2>3. QED BY <1>11, <2>1, <2>2 DEF Kept
<1>13. CASE q.rest # <<>>
  <2>1. /\ Work(t)' /\ task'[t].pc \in {"find", "seek", "check"}
        /\ \A k \in Kinds : (\E i \in DOMAIN q.rest : q.rest[i].kind = k) => Pending(t, k)'
    BY <1>5, <1>9, <1>13, WorkAdvance
  <2>2. "cert" \in Kinds => Pending(t, "cert")'
    BY <1>1, <1>2, <1>5, <2>1
  <2>3. QED BY <1>11, <2>1, <2>2 DEF Kept
<1>14. QED BY <1>12, <1>13

LEMMA TruthRenewal ==
    ASSUME TypeOK, Shape, IncidentInv, TruthInv, NEW t \in Tasks, Alone(t), RenewalStep(t)
    PROVE  Kept(t)
<1>0. Work(t) /\ task[t] \in Task /\ server \in Server
  BY DEF Alone, TruthInv, WorksWell, TypeOK
<1>1. task[t].pc \in RenewSteps
  BY DEF RenewalStep, MarkRenewing, Renew, Renewed, RenewalFailed, At, RenewSteps
<1>2. task[t].rest = <<>> /\ task[t].inst = server
  BY <1>0, <1>1 DEF Work
<1>3. ASSUME NEW k \in Kinds, Judged(k), k # "cert" \/ task[t].pc \in {"mark", "renew"},
             k = "cert" => renewal' = renewal,
             tested' = tested, incident' = incident, server'.health = server.health
      PROVE  Truth(k)'
  <2>1. ~Pending(t, k)
    BY <1>1, <1>2, <1>3 DEF Pending, Later, IncidentSteps, RenewSteps
  <2>2. Open(k)' = Open(k)
    BY <1>3 DEF Open
  <2>3. QED BY <1>3, <2>1, <2>2, TruthStill
\* A task that still has the renewal in hand has nothing else to do.
<1>4. ASSUME task'[t].pc \in {"renew", "renewed", "failed"}, task'[t].rest = <<>>,
             task'[t].inst = server',
             "cert" \in Kinds => /\ task'[t].pc = "renewed" => renewal' = "ok"
                                 /\ task'[t].pc = "failed" => renewal' = "bad"
      PROVE  Work(t)'
  <2>1. /\ ~Opens(t)' /\ ~Resolves(t)' /\ ~Announces(t)' /\ ~Installs(t)'
        /\ task'[t].pc \notin {"close", "recover", "record", "patch", "check"}
    BY <1>4 DEF Opens, Resolves, Announces, Installs, InstallSteps
  <2>2. \A k : ~Later(t, k)'
    BY <1>4 DEF Later
  <2>3. /\ \A i \in DOMAIN task'[t].rest : OpAgrees(task'[t].rest[i], Seen(t)')
        /\ \A i, j \in DOMAIN task'[t].rest : task'[t].rest[i].kind = "server" => j <= i
    BY <1>4
  <2>4. /\ ~At(t, "close")' /\ ~At(t, "recover")' /\ ~At(t, "patch")' /\ ~At(t, "record")'
    BY <2>1 DEF At
  <2>5. task'[t].rest = <<>> /\ task'[t].inst = server'
    BY <1>4
  <2>6. "cert" \in Kinds => /\ At(t, "renewed")' => renewal' = "ok"
                            /\ At(t, "failed")' => renewal' = "bad"
    BY <1>4 DEF At
  <2>7. QED BY <2>1, <2>2, <2>3, <2>4, <2>5, <2>6 DEF Work
<1>5. CASE MarkRenewing(t)
  <2> DEFINE after == [server EXCEPT !.status = "renewing_ssl"]
  <2>1. /\ Save(server, after) /\ task[t].pc = "mark"
        /\ task' = [task EXCEPT ![t].pc = "renew", ![t].inst = after]
        /\ UNCHANGED <<renewal, tested, incident, blurred>>
    BY <1>2, <1>5 DEF MarkRenewing, At, ghosts
  <2>2. after \in Server /\ after.health = server.health
    BY <1>0 DEF Server, Busy
  <2> HIDE DEF after
  <2>3. server' = after
    BY <1>0, <2>1, <2>2, SaveOK
  <2>4. task'[t].pc = "renew" /\ task'[t].rest = <<>> /\ task'[t].inst = after
    BY <1>0, <1>2, <2>1 DEF Task, TypeOK
  <2>5. \A k \in Kinds : Judged(k)' => Truth(k)'
    BY <1>3, <2>1, <2>2, <2>3 DEF Judged
  <2>6. QED BY <1>4, <2>3, <2>4, <2>5 DEF Kept
<1>6. CASE Renew(t)
  <2>1. /\ UNCHANGED <<server, tested, incident, blurred>> /\ task[t].pc = "renew"
        /\ "cert" \notin Kinds => renewal' = renewal
    BY <1>6 DEF Renew, At
  <2>2. /\ task'[t].pc \in {"renewed", "failed"} /\ task'[t].rest = <<>> /\ task'[t].inst = server'
    BY <1>0, <1>2, <1>6, <2>1 DEF Renew, Goto, Task, TypeOK
  <2>3. "cert" \in Kinds => /\ task'[t].pc = "renewed" => renewal' = "ok"
                            /\ task'[t].pc = "failed" => renewal' = "bad"
    BY <1>0, <1>6 DEF Renew, Goto, Task, TypeOK
  <2>4. \A k \in Kinds : (Judged(k)' /\ k # "cert") => Truth(k)'
    BY <1>3, <2>1 DEF Judged
  <2>5. Pending(t, "cert")'
    BY <2>2 DEF Pending
  <2>6. QED BY <1>4, <2>2, <2>3, <2>4, <2>5 DEF Kept
<1>7. CASE Renewed(t)
  <2>1. task[t].pc = "renewed" /\ EndRenewal(t, "online", Due(Resolving("cert")) \o <<Checking>>, TRUE)
    BY <1>7 DEF Renewed, At
  <2>2. "cert" \in Kinds => OpAgrees(Resolving("cert"), Now)
    BY <1>0, <2>1 DEF Work, At, OpAgrees, MayClose, Resolving, Now, Facts
  <2>3. QED BY <2>1, <2>2, TruthEndRenewal
<1>8. CASE RenewalFailed(t)
  <2>1. /\ task[t].pc = "failed"
        /\ EndRenewal(t, "error", Due(Opening("cert")) \o (IF task[t].manual THEN <<>> ELSE <<Checking>>), FALSE)
    BY <1>8 DEF RenewalFailed, At
  <2>2. "cert" \in Kinds => OpAgrees(Opening("cert"), Now)
    BY <1>0, <2>1 DEF Work, At, OpAgrees, MayOpen, Opening, Now, Facts
  <2>3. QED BY <2>1, <2>2, TruthEndRenewal
<1>9. QED BY <1>5, <1>6, <1>7, <1>8 DEF RenewalStep

LEMMA TruthTest ==
    ASSUME TypeOK, Shape, IncidentInv, TruthInv, NEW t \in Tasks, Alone(t), RecordResult(t)
    PROVE  Kept(t)
<1>0. Work(t) /\ task[t] \in Task /\ At(t, "record") /\ Idle.pc = "idle"
  BY DEF Alone, TruthInv, WorksWell, TypeOK, RecordResult, Idle
<1>1. PICK result \in {"ok", "bad"} :
         /\ tested' = IF result = task[t].seen THEN tested ELSE result
         /\ task' = [task EXCEPT ![t] = Advance([@ EXCEPT !.rest =
               Due(IF result = "ok" THEN Resolving("config") ELSE Opening("config"))])]
  BY DEF RecordResult
<1> DEFINE a == IF result = "ok" THEN Resolving("config") ELSE Opening("config")
           q == [task[t] EXCEPT !.rest = Due(a)]
<1>2. UNCHANGED <<server, renewal, incident, blurred>>
  BY DEF RecordResult, ghosts
<1>3. tested' = result
  BY <1>0, <1>1 DEF Work
<1>4. /\ a.kind = "config" /\ OpAgrees(a, Now')
      /\ "config" \in Kinds => a \in Op
  <2>1. a.kind = "config"
    BY DEF Opening, Resolving
  <2>2. OpAgrees(a, Now')
    BY <1>3 DEF OpAgrees, MayOpen, MayClose, Opening, Resolving, Now, Facts
  <2>3. QED BY <2>1, <2>2, OpOK
<1>5. task'[t] = Advance(q)
  BY <1>1 DEF TypeOK
<1> HIDE DEF a
<1>6. Due(a) \in Rests /\ Due(a) = IF "config" \in Kinds THEN <<a>> ELSE <<>>
  BY <1>4, RestOK DEF Due
<1>7. q \in Task /\ q.rest = Due(a)
  BY <1>0, <1>6 DEF Task, Rests
<1> HIDE DEF q
<1>8. ASSUME NEW k \in Kinds, k # "config", Judged(k)' PROVE Truth(k)'
  <2>1. Judged(k)
    BY <1>2, <1>8 DEF Judged
  <2>2. ~Pending(t, k)
    BY <1>0, <1>8 DEF Pending, Later, Work, At, IncidentSteps
  <2>3. Open(k)' = Open(k)
    BY <1>2 DEF Open
  <2>4. QED BY <1>2, <1>8, <2>1, <2>2, <2>3, TruthStill
<1>9. CASE "config" \notin Kinds
  <2>1. task'[t].pc = "idle"
    BY <1>0, <1>5, <1>6, <1>7, <1>9, AdvanceOK
  <2>2. QED BY <1>8, <1>9, <2>1 DEF Kept
<1>10. CASE "config" \in Kinds
  <2>1. q.rest = <<a>> /\ q.rest # <<>>
    BY <1>6, <1>7, <1>10
  <2>2. DOMAIN q.rest = {1} /\ q.rest[1] = a
    BY <2>1
  <2>3. /\ \A i \in DOMAIN q.rest : OpAgrees(q.rest[i], Now')
        /\ \A i \in DOMAIN q.rest : q.rest[i].kind # "server"
        /\ \A i \in DOMAIN q.rest : i = 1
    BY <1>4, <2>2
  <2>4. /\ Work(t)' /\ task'[t].pc \in {"find", "seek", "check"}
        /\ \A k \in Kinds : (\E i \in DOMAIN q.rest : q.rest[i].kind = k) => Pending(t, k)'
    BY <1>5, <1>7, <2>1, <2>3, WorkAdvance
  <2>5. Pending(t, "config")'
    BY <1>4, <1>10, <2>2, <2>4
  <2>6. QED BY <1>8, <2>4, <2>5 DEF Kept
<1>11. QED BY <1>9, <1>10

LEMMA TruthInstall ==
    ASSUME TypeOK, Shape, IncidentInv, TruthInv, NEW t \in Tasks, Alone(t), InstallStep(t)
    PROVE  Kept(t)
<1>0. Work(t) /\ task[t] \in Task /\ server \in Server /\ Idle.pc = "idle"
  BY DEF Alone, TruthInv, WorksWell, TypeOK, Idle
<1>1. task[t].pc \in InstallSteps
  BY DEF InstallStep, CreateJob, BeginStep, MarkStep, RunStep, EndStep, FailStep, FailJob, FailServer,
         SetOnline, FinishJob, At, InstallSteps
<1>2. server.health = "unknown" /\ task[t].rest = <<>>
  BY <1>0, <1>1 DEF Work, Installs
<1>3. UNCHANGED <<renewal, tested, incident, blurred>>
  BY DEF InstallStep, CreateJob, BeginStep, MarkStep, RunStep, EndStep, FailStep, FailJob, FailServer,
         SetOnline, FinishJob, ghosts
<1>a. ASSUME NEW status \in {"online", "error"}, Save(task[t].inst, [task[t].inst EXCEPT !.status = status])
      PROVE  server'.health = server.health
  <2> DEFINE after == [task[t].inst EXCEPT !.status = status]
  <2>1. task[t].inst \in Server /\ after \in Server /\ after.health = task[t].inst.health
    BY <1>0 DEF Task, Server
  <2>2. Save(task[t].inst, after)
    BY <1>a
  <2> HIDE DEF after
  <2>3. QED BY <1>0, <2>1, <2>2, SaveOK
<1>4. server'.health = "unknown"
  <2>1. CASE FailServer(t)
    BY <1>2, <1>a, <2>1 DEF FailServer
  <2>2. CASE SetOnline(t)
    BY <1>2, <1>a, <2>2 DEF SetOnline
  <2>3. CASE ~FailServer(t) /\ ~SetOnline(t)
    BY <1>2, <2>3 DEF InstallStep, CreateJob, BeginStep, MarkStep, RunStep, EndStep, FailStep, FailJob,
                      FinishJob
  <2>4. QED BY <2>1, <2>2, <2>3
<1>5. task'[t].pc = "idle" \/ (task'[t].pc \in InstallSteps /\ task'[t].rest = <<>>)
  <2>1. ASSUME NEW step \in InstallSteps, Goto(t, step)
        PROVE  task'[t].pc \in InstallSteps /\ task'[t].rest = <<>>
    BY <1>0, <1>2, <2>1 DEF Goto, Task, TypeOK
  <2>2. CASE SetOnline(t)
    <3> DEFINE after == [task[t].inst EXCEPT !.status = "online"]
    <3>1. task' = [task EXCEPT ![t].pc = "i_done", ![t].inst = after]
      BY <2>2 DEF SetOnline
    <3>2. task'[t].pc = "i_done" /\ task'[t].rest = <<>>
      BY <1>0, <1>2, <3>1 DEF Task, TypeOK
    <3>3. QED BY <3>2 DEF InstallSteps
  <2>3. CASE FailServer(t) \/ FinishJob(t)
    BY <1>0, <2>3 DEF FailServer, FinishJob, TypeOK
  <2>4. CASE CreateJob(t) \/ BeginStep(t) \/ MarkStep(t) \/ RunStep(t) \/ EndStep(t) \/ FailStep(t) \/ FailJob(t)
    BY <2>1, <2>4 DEF CreateJob, BeginStep, MarkStep, RunStep, EndStep, FailStep, FailJob, InstallSteps
  <2>5. QED BY <2>2, <2>3, <2>4 DEF InstallStep
<1>6. ASSUME task'[t].pc \in InstallSteps, task'[t].rest = <<>> PROVE Work(t)'
  <2>1. /\ ~Opens(t)' /\ ~Resolves(t)' /\ ~Announces(t)'
        /\ task'[t].pc \notin {"close", "recover", "record", "patch", "check", "renewed", "failed"} \cup RenewSteps
    BY <1>6 DEF Opens, Resolves, Announces, InstallSteps, RenewSteps
  <2>2. \A k : ~Later(t, k)'
    BY <1>6 DEF Later
  <2>3. /\ \A i \in DOMAIN task'[t].rest : OpAgrees(task'[t].rest[i], Seen(t)')
        /\ \A i, j \in DOMAIN task'[t].rest : task'[t].rest[i].kind = "server" => j <= i
    BY <1>6
  <2>4. QED BY <1>4, <1>6, <2>1, <2>2, <2>3 DEF Work, At
<1>7. ASSUME NEW k \in Kinds, Judged(k)' PROVE Truth(k)'
  <2>1. Judged(k)
    BY <1>3, <1>7 DEF Judged
  <2>2. ~Pending(t, k)
    BY <1>1, <1>2 DEF Pending, Later, IncidentSteps, InstallSteps
  <2>3. Open(k)' = Open(k)
    BY <1>3 DEF Open
  <2>4. QED BY <1>2, <1>3, <1>4, <2>1, <2>2, <2>3, TruthStill
<1>8. QED BY <1>5, <1>6, <1>7 DEF Kept

-----------------------------------------------------------------------------
(* Steps of a task, starts and faults *)

\* Only an undisturbed task settles anything.
LEMMA Unsettled ==
    ASSUME NEW t \in Tasks, ~task[t].alone,
           CheckStep(t) \/ MailFails(t) \/ RenewalStep(t) \/ RecordResult(t) \/ InstallStep(t)
    PROVE  blurred' = blurred
<1>1. CASE CheckStep(t) \/ MailFails(t)
  <2>1. Settle(t) => blurred' = blurred
    BY DEF Settle
  <2>2. QED BY ZenonT(30), <1>1, <2>1 DEF CheckStep, Probe, Patch, FindOpen, CreateIncident, BeginMail, MailAccepted,
                 MailFails, MarkNotified, FindAllOpen, CloseIncident, AllClosed, MailRecovery, ghosts
<1>2. CASE RenewalStep(t)
  BY <1>2 DEF RenewalStep, MarkRenewing, Renew, Renewed, RenewalFailed, EndRenewal, ghosts
<1>3. CASE RecordResult(t) \/ InstallStep(t)
  BY <1>3 DEF RecordResult, InstallStep, CreateJob, BeginStep, MarkStep, RunStep, EndStep, FailStep,
              FailJob, FailServer, SetOnline, FinishJob, ghosts
<1>4. QED BY SMTT(30), <1>1, <1>2, <1>3

\* No step of an installation makes the server absent.
LEMMA InstallPresent ==
    ASSUME TypeOK, Shape, JobInv, NEW t \in Tasks, InstallStep(t)
    PROVE  server'.status # "absent"
<1>0. server.status # "absent" /\ server \in Server /\ task[t] \in Task
  <2>1. task[t].pc # "idle"
    BY InstallMoves DEF InstallSteps
  <2>2. QED BY <2>1, Present DEF TypeOK
<1>1. ASSUME NEW status \in {"online", "error"}, Save(task[t].inst, [task[t].inst EXCEPT !.status = status])
      PROVE  server'.status # "absent"
  <2> DEFINE after == [task[t].inst EXCEPT !.status = status]
  <2>1. task[t].inst \in Server /\ after \in Server /\ after.status = status
    BY <1>0 DEF Task, Server
  <2>2. Save(task[t].inst, after)
    BY <1>1
  <2> HIDE DEF after
  <2>3. QED BY <1>0, <2>1, <2>2, SaveOK
<1>2. CASE FailServer(t)
  BY <1>1, <1>2 DEF FailServer
<1>3. CASE SetOnline(t)
  BY <1>1, <1>3 DEF SetOnline
<1>4. CASE ~FailServer(t) /\ ~SetOnline(t)
  BY <1>0, <1>4 DEF InstallStep, CreateJob, BeginStep, MarkStep, RunStep, EndStep, FailStep, FailJob,
                    FinishJob
<1>5. QED BY <1>2, <1>3, <1>4

LEMMA TruthStep ==
    ASSUME TypeOK, Shape, JobInv, IncidentInv, TruthInv, NEW t \in Tasks,
           CheckStep(t) \/ MailFails(t) \/ RenewalStep(t) \/ RecordResult(t) \/ InstallStep(t)
    PROVE  TruthInv'
<1>1. Active(t) /\ Stays(t) /\ Others(t)
  BY Moves, InstallMoves DEF Active, At, Stays, RenewSteps, IncidentSteps, InstallSteps
<1>2. server'.status # "absent"
  BY StaysPresent, InstallPresent
<1>3. ~task[t].alone => blurred' = blurred
  BY Unsettled
<1>4. ASSUME task[t].alone PROVE Kept(t)
  <2>0. Alone(t)
    BY <1>1, <1>4 DEF Alone
  <2>1. CASE RenewalStep(t) \/ RecordResult(t) \/ InstallStep(t)
    BY <2>0, <2>1, TruthRenewal, TruthTest, TruthInstall
  <2>2. CASE CheckStep(t) \/ MailFails(t)
    <3>1. CASE Probe(t) \/ Patch(t)
      BY <2>0, <3>1, TruthProbe, TruthPatch
    <3>2. CASE ~Probe(t) /\ ~Patch(t)
      <4>1. \E kind \in Kinds : SettledOn(t, kind) \/ GoesOn(t, kind)
        BY <2>0, <2>2, <3>2, OpenSteps, ResolveSteps DEF CheckStep
      <4>2. QED BY <2>0, <4>1, TruthSettle, TruthGoto
    <3>3. QED BY <3>1, <3>2
  <2>3. QED BY <2>1, <2>2
<1>5. QED BY <1>1, <1>2, <1>3, <1>4, TruthFrame

\* What a task begins with.
LEMMA Begun ==
    ASSUME TypeOK, Shape, TruthInv, NEW t \in Tasks,
           \/ StartCheck(t) \/ (\E manual \in BOOLEAN : StartRenewal(t, manual))
           \/ StartTest(t) \/ Install(t)
    PROVE  /\ \E r \in Task :
                 /\ Begin(t, r) /\ r.pc \in {"check", "mark", "record", "i_job"}
                 /\ r.alone /\ r.rest = <<>>
                 /\ r.pc \in {"check", "mark"} => r.inst = server'
                 /\ r.pc = "record" => r.seen = tested'
                 /\ r.pc = "i_job" => server'.health = "unknown"
           /\ server'.status # "absent" /\ UNCHANGED <<renewal, tested>>
           /\ \/ server' = server
              \/ /\ server'.health = "unknown" /\ server'.status = "installing"
                 /\ \A k \in Kinds : Open(k) = {}
<1>0. Idle \in Task /\ Idle.alone /\ Idle.rest = <<>> /\ server \in Server
  BY IdleOK DEF Idle, TypeOK
<1>1. CASE StartCheck(t)
  <2> DEFINE r == [Idle EXCEPT !.pc = "check", !.inst = server]
  <2>1. /\ r \in Task /\ r.pc = "check" /\ r.alone /\ r.rest = <<>> /\ r.inst = server
    BY <1>0 DEF Task, Steps
  <2> HIDE DEF r
  <2>2. /\ Begin(t, r) /\ server.status # "absent" /\ UNCHANGED <<server, renewal, tested>>
    BY <1>1 DEF StartCheck, r
  <2>3. QED BY <2>1, <2>2
<1>2. ASSUME NEW manual \in BOOLEAN, StartRenewal(t, manual)
      PROVE  /\ \E r \in Task : Begin(t, r) /\ r.pc = "mark" /\ r.alone /\ r.rest = <<>> /\ r.inst = server
             /\ server.status # "absent" /\ UNCHANGED <<server, renewal, tested>>
  <2> DEFINE r == [Idle EXCEPT !.pc = "mark", !.inst = server, !.manual = manual, !.rescue = TRUE,
                               !.prev = IF manual THEN "online" ELSE server.status]
  <2>1. server.status # "absent"
    BY ZenonT(30), <1>2 DEF StartRenewal
  <2>2. r \in Task /\ r.pc = "mark" /\ r.alone /\ r.rest = <<>> /\ r.inst = server
    BY ZenonT(30), <1>0, <2>1 DEF Task, Steps, RenewSteps, Server
  <2> HIDE DEF r
  <2>3. Begin(t, r) /\ UNCHANGED <<server, renewal, tested>>
    BY ZenonT(30), <1>2 DEF StartRenewal, r
  <2>4. QED BY <2>1, <2>2, <2>3
<1>3. CASE StartTest(t)
  <2> DEFINE r == [Idle EXCEPT !.pc = "record", !.seen = tested]
  <2>1. r \in Task /\ r.pc = "record" /\ r.alone /\ r.rest = <<>> /\ r.seen = tested
    BY <1>0 DEF TypeOK, Task, Steps
  <2> HIDE DEF r
  <2>2. Begin(t, r) /\ server.status # "absent" /\ UNCHANGED <<server, renewal, tested>>
    BY <1>3 DEF StartTest, r
  <2>3. QED BY <2>1, <2>2
<1>4. CASE Install(t)
  <2> DEFINE inst == [Absent EXCEPT !.status = "installing"]
             r == [Idle EXCEPT !.pc = "i_job", !.inst = inst]
  <2>1. inst \in Server /\ inst.health = "unknown" /\ inst.status = "installing"
    BY DEF Absent, NewServer, Server, Busy
  <2>2. server' = inst /\ UNCHANGED <<renewal, tested>> /\ server.status = "absent"
    BY <1>4 DEF Install
  <2> HIDE DEF inst
  <2>3. r \in Task /\ r.pc = "i_job" /\ r.alone /\ r.rest = <<>>
    BY <1>0, <2>1 DEF Task, Steps, InstallSteps
  <2> HIDE DEF r
  <2>4. Begin(t, r)
    BY <1>4 DEF Install, r, inst
  <2>5. \A k \in Kinds : Open(k) = {}
    BY <2>2 DEF TruthInv
  <2>6. QED BY <2>1, <2>2, <2>3, <2>4, <2>5
<1>5. QED BY <1>1, <1>2, <1>3, <1>4

\* A task that begins among others disturbs them all.
LEMMA Crowded ==
    ASSUME TypeOK, IncidentInv, NEW t \in Tasks, NEW r \in Task, Begin(t, r), ~Quiet
    PROVE  blurred' = Blurred /\ \A o \in Tasks : ~Alone(o)'
<1>1. Idle.pc = "idle" /\ task \in [Tasks -> Task]
  BY DEF Idle, TypeOK
<1>2. /\ task' = [o \in Tasks |-> IF o = t THEN [r EXCEPT !.alone = FALSE]
                                   ELSE IF At(o, "idle") THEN Idle
                                   ELSE [task[o] EXCEPT !.alone = FALSE]]
      /\ blurred' = Blurred
  BY DEF Begin, Disturb, Blurred
<1>3. ASSUME NEW q \in Task PROVE ~[q EXCEPT !.alone = FALSE].alone
  BY DEF Task
<1>4. QED BY <1>1, <1>2, <1>3 DEF Alone, Active, At

LEMMA TruthStart ==
    ASSUME TypeOK, Shape, IncidentInv, TruthInv, NEW t \in Tasks,
           \/ StartCheck(t) \/ (\E manual \in BOOLEAN : StartRenewal(t, manual))
           \/ StartTest(t) \/ Install(t)
    PROVE  TruthInv'
<1>1. PICK r \in Task :
         /\ Begin(t, r) /\ r.pc \in {"check", "mark", "record", "i_job"}
         /\ r.alone /\ r.rest = <<>>
         /\ r.pc \in {"check", "mark"} => r.inst = server'
         /\ r.pc = "record" => r.seen = tested'
         /\ r.pc = "i_job" => server'.health = "unknown"
  BY Begun
<1>2. /\ server'.status # "absent" /\ UNCHANGED <<renewal, tested>>
      /\ \/ server' = server
         \/ server'.health = "unknown" /\ \A k \in Kinds : Open(k) = {}
  BY Begun
<1>3. Idle.pc = "idle" /\ task \in [Tasks -> Task]
  BY DEF Idle, TypeOK
<1>4. CASE Quiet
  <2>1. /\ task'[t] = r /\ \A o \in Tasks : o # t => task'[o].pc = "idle"
        /\ UNCHANGED <<blurred, incident>>
        /\ \A o \in Tasks : task[o].pc = "idle"
    BY <1>1, <1>3, <1>4 DEF Begin, Quiet, At
  <2>2. Clear'
    BY <1>1, <2>1 DEF Clear, Active, At
  <2>3. Work(t)'
    <3>1. /\ ~Opens(t)' /\ ~Resolves(t)' /\ ~Announces(t)'
          /\ task'[t].pc \notin {"close", "recover", "patch", "renewed", "failed"}
      BY <1>1, <2>1 DEF Opens, Resolves, Announces
    <3>2. \A k : ~Later(t, k)'
      BY <1>1, <2>1 DEF Later
    <3>3. /\ \A i \in DOMAIN task'[t].rest : OpAgrees(task'[t].rest[i], Seen(t)')
          /\ \A i, j \in DOMAIN task'[t].rest : task'[t].rest[i].kind = "server" => j <= i
      BY <1>1, <2>1
    <3>4. /\ Installs(t)' => task'[t].pc = "i_job"
          /\ task'[t].pc \in RenewSteps => task'[t].pc = "mark"
      BY <1>1, <2>1 DEF Installs, InstallSteps, RenewSteps
    <3>5. /\ task'[t].rest = <<>>
          /\ task'[t].pc \in {"check", "mark"} => task'[t].inst = server'
          /\ task'[t].pc = "record" => task'[t].seen = tested'
          /\ task'[t].pc = "i_job" => server'.health = "unknown"
      BY <1>1, <2>1
    <3>6. QED BY <3>1, <3>2, <3>3, <3>4, <3>5 DEF Work, At
  <2>4. WorksWell'
    BY <2>1, <2>3 DEF WorksWell, Alone, Active, At
  <2>5. ASSUME NEW k \in Kinds, Judged(k)' PROVE Truth(k)'
    <3>1. Truth(k)
      BY <2>1, <2>5 DEF Judged, TruthInv, Truthful, Alone, Active, At
    <3>2. Open(k)' = Open(k)
      BY <2>1 DEF Open
    <3>3. CASE server' = server
      BY <1>2, <3>1, <3>2, <3>3, TruthSame
    <3>4. CASE server'.health = "unknown" /\ Open(k) = {}
      <4>1. MayClose(k, Now)
        BY <3>1, <3>4 DEF Truth
      <4>2. MayClose(k, Now')
        BY <1>2, <3>4, <4>1, KindNames DEF MayClose, Now, Facts
      <4>3. QED BY <3>2, <3>4, <4>2 DEF Truth
    <3>5. QED BY <1>2, <3>3, <3>4
  <2>6. Truthful'
    BY <2>5 DEF Truthful
  <2>7. QED BY <1>2, <2>2, <2>4, <2>6 DEF TruthInv
<1>5. CASE ~Quiet
  <2>1. blurred' = Blurred /\ \A o \in Tasks : ~Alone(o)'
    BY <1>1, <1>5, Crowded
  <2>2. Clear' /\ WorksWell' /\ Truthful'
    BY <2>1 DEF Clear, WorksWell, Truthful, Judged, Blurred
  <2>3. QED BY <1>2, <2>2 DEF TruthInv
<1>6. QED BY <1>4, <1>5

\* A fault leaves no task undisturbed.
LEMMA Disturbs ==
    ASSUME TypeOK, Shape, JobInv, IncidentInv,
           (\E t \in Tasks : QueryFails(t)) \/ Crash
    PROVE  /\ blurred' = Blurred /\ \A o \in Tasks : ~Alone(o)'
           /\ server' = server /\ server.status # "absent"
<1>0. Idle.pc = "idle"
  BY DEF Idle
<1>1. blurred' = Blurred /\ server' = server
  BY DEF QueryFails, Crash, Disturb, Blurred
<1>2. server.status # "absent"
  <2>1. \E t \in Tasks : task[t].pc # "idle"
    BY DEF QueryFails, Crash, Quiet, At
  <2>2. QED BY <2>1, Present
<1>3. \A o \in Tasks : ~Alone(o)'
  <2>1. CASE Crash
    BY <1>0, <2>1 DEF Crash, Alone, Active, At
  <2>2. ASSUME NEW t \in Tasks, QueryFails(t), NEW o \in Tasks PROVE ~Alone(o)'
    <3>1. /\ task[t].pc \notin {"idle", "i_run", "renew"} /\ task'[t] = Thrown(t) /\ Others(t)
      BY <2>2 DEF QueryFails, Others, TypeOK
    <3>2. task'[t] = Idle \/ ~task'[t].alone
      BY <3>1, ThrownOK
    <3>3. CASE o = t
      BY <1>0, <3>2, <3>3 DEF Alone, Active, At
    <3>4. CASE o # t
      BY <3>1, <3>4 DEF Alone, Active, At, Others, IncidentInv, AloneOnly
    <3>5. QED BY <3>3, <3>4
  <2>3. QED BY <2>1, <2>2
<1>4. QED BY <1>1, <1>2, <1>3

LEMMA TruthFault ==
    ASSUME TypeOK, Shape, JobInv, IncidentInv, TruthInv,
           (\E t \in Tasks : QueryFails(t)) \/ Crash
    PROVE  TruthInv'
<1>1. /\ blurred' = Blurred /\ \A o \in Tasks : ~Alone(o)'
      /\ server' = server /\ server.status # "absent"
  BY Disturbs
<1>2. Clear' /\ WorksWell' /\ Truthful'
  BY <1>1 DEF Clear, WorksWell, Truthful, Judged, Blurred
<1>3. QED BY <1>1, <1>2 DEF TruthInv

\* What no task does touches neither the rows nor the tasks.
LEMMA TruthRest ==
    ASSUME TruthInv, UNCHANGED <<server, tested, incident, task, renewal, blurred>>
    PROVE  TruthInv'
<1>1. /\ \A k : Open(k)' = Open(k) /\ (Truth(k)' <=> Truth(k)) /\ (Judged(k)' <=> Judged(k))
      /\ \A t, k : Pending(t, k)' <=> Pending(t, k)
      /\ \A t : Alone(t)' <=> Alone(t)
  BY SMTT(30) DEF Open, Truth, Judged, Pending, Later, Alone, Active, At, MayOpen, MayClose, Now, Facts
<1>2. ASSUME NEW t \in Tasks, Work(t) PROVE Work(t)'
  <2>1. Seen(t)' = Seen(t) /\ Now' = Now
    BY DEF Seen, Now, Facts, At
  <2>2. QED BY <1>2, <2>1 DEF Work, Later, Opens, Resolves, Announces, Installs, Open, At
<1>3. QED BY <1>1, <1>2 DEF TruthInv, Clear, WorksWell, Truthful, Active, At

LEMMA TruthInit == Init => TruthInv
<1> SUFFICES ASSUME Init PROVE TruthInv
  OBVIOUS
<1>1. /\ \A t \in Tasks : task[t].pc = "idle"
      /\ \A k \in Kinds : Open(k) = {}
      /\ server.health = "unknown" /\ renewal = "never" /\ tested = "never"
  BY DEF Init, Idle, Open, NoRow, NewServer, Absent
<1>2. \A k \in Kinds : Truth(k)
  BY <1>1, KindNames DEF Truth, MayClose, Now, Facts
<1>3. QED BY <1>1, <1>2 DEF TruthInv, Clear, WorksWell, Truthful, Alone, Active, At

LEMMA TruthNext ==
    ASSUME TypeOK, Shape, JobInv, IncidentInv, TruthInv, [Next]_vars
    PROVE  TruthInv'
<1>1. ASSUME NEW t \in Tasks,
             CheckStep(t) \/ MailFails(t) \/ RenewalStep(t) \/ RecordResult(t) \/ InstallStep(t)
      PROVE  TruthInv'
  BY <1>1, TruthStep
<1>2. ASSUME NEW t \in Tasks,
             \/ StartCheck(t) \/ (\E manual \in BOOLEAN : StartRenewal(t, manual))
             \/ StartTest(t) \/ Install(t)
      PROVE  TruthInv'
  BY <1>2, TruthStart
<1>3. ASSUME (\E t \in Tasks : QueryFails(t)) \/ Crash PROVE TruthInv'
  BY <1>3, TruthFault
<1>4. ASSUME BoxChanges \/ (\E k \in Alerting : GapPasses(k)) \/ UNCHANGED vars PROVE TruthInv'
  <2>1. UNCHANGED <<server, tested, incident, task, renewal, blurred>>
    BY <1>4 DEF BoxChanges, GapPasses, vars, ghosts
  <2>2. QED BY <2>1, TruthRest
<1>5. QED BY <1>1, <1>2, <1>3, <1>4 DEF Next

\* Between tasks nothing is pending, and the truth is what the property says.
LEMMA TruthTold == TruthInv => IncidentsTruthful
<1> SUFFICES ASSUME TruthInv, Quiet, NEW k \in Kinds, Judged(k)
             PROVE  CASE k = "trojan" -> Open(k) # {} <=> server.health = "offline"
                      [] k = "ssh" -> /\ server.health = "degraded" => Open(k) # {}
                                      /\ server.health = "online" => Open(k) = {}
                      [] k = "cert" -> Open(k) # {} <=> renewal = "bad"
                      [] k = "config" -> Open(k) # {} <=> tested = "bad"
  BY DEF IncidentsTruthful, Judged
<1>1. Truth(k)
  BY DEF TruthInv, Truthful, Alone, Active, Quiet
<1>2. QED BY <1>1, KindNames DEF Truth, MayOpen, MayClose, Now, Facts

\* Every task acts on what it has read, and awaits lie between the row and the
\* incidents: between tasks they agree again, for each kind that no overlap and
\* no fault has touched since an undisturbed task settled it.
THEOREM IncidentsTruthfulHolds == Spec => []IncidentsTruthful
<1>1. Init => TypeOK /\ Shape /\ JobInv /\ IncidentInv /\ TruthInv
  BY TypeInit, JobInit, IncInit, TruthInit
<1>2. TypeOK /\ Shape /\ JobInv /\ IncidentInv /\ TruthInv /\ [Next]_vars
      => TypeOK' /\ Shape' /\ JobInv' /\ IncidentInv' /\ TruthInv'
  BY IncNext, TruthNext
<1>3. TruthInv => IncidentsTruthful
  BY TruthTold
<1>4. QED BY <1>1, <1>2, <1>3, PTL DEF Spec

-----------------------------------------------------------------------------
(* Why the status is 'error' *)

OutageShown == Open("trojan") # {} => server.status = "error"

Explained ==
    server.status = "error" =>
        \/ Open("trojan") \cup Open("cert") # {}
        \/ job.status = "error" /\ server.health = "unknown"

\* A task that runs alone will see to it: it checks the server, or has its
\* trojan incident in hand; or it is about to open a cert incident.
CheckDue(t) ==
    \/ Later(t, "server") \/ task[t].pc \in {"check", "patch", "renew", "renewed", "failed"}
    \/ Pending(t, "trojan")

ExplainsSoon(t) == CheckDue(t) \/ (Opens(t) /\ task[t].kind = "cert")

\* The row may be ahead of the incidents, but the task knows.
Knows(t) ==
    /\ (Pending(t, "trojan") /\ ~At(t, "patch")) =>
          (server.status = "error" <=> server.health = "offline")
    /\ (Resolves(t) /\ task[t].kind = "cert") => Later(t, "server")
    /\ At(t, "i_broken") => job.status = "error"

Shown == blurred \cap {"status", "trojan"} = {}
Settled == blurred \cap {"status", "trojan", "cert"} = {}

ErrorInv ==
    /\ \A t \in Tasks : Alone(t) => Knows(t)
    /\ Shown => OutageShown \/ \E t \in Tasks : Alone(t) /\ CheckDue(t)
    /\ Settled => Explained \/ \E t \in Tasks : Alone(t) /\ ExplainsSoon(t)

\* A step of t, alone, leaves the status explained, or t to explain it.
Accounts(t) ==
    /\ task'[t].pc # "idle" => Knows(t)'
    /\ Shown' => OutageShown' \/ (task'[t].pc # "idle" /\ CheckDue(t)')
    /\ Settled' => Explained' \/ (task'[t].pc # "idle" /\ ExplainsSoon(t)')

\* What t knows before its step.
LEMMA ErrorKnown ==
    ASSUME IncidentInv, ErrorInv, NEW t \in Tasks, Alone(t)
    PROVE  /\ Knows(t)
           /\ Shown => OutageShown \/ CheckDue(t)
           /\ Settled => Explained \/ ExplainsSoon(t)
<1>1. \A o \in Tasks : Alone(o) => o = t
  BY Only DEF Alone
<1>2. QED BY <1>1 DEF ErrorInv

LEMMA ErrorFrame ==
    ASSUME TypeOK, IncidentInv, TruthInv, NEW t \in Tasks, Active(t), Stays(t), Others(t),
           ~task[t].alone => blurred' = blurred,
           task[t].alone => Accounts(t)
    PROVE  ErrorInv'
<1>0. Idle.pc = "idle" /\ task[t].pc # "idle"
  BY DEF Idle, Active, At
<1>1. CASE task[t].alone
  <2>1. ASSUME NEW o \in Tasks, Alone(o)' PROVE o = t
    <3>1. CASE o # t
      BY <1>1, <2>1, <3>1 DEF Alone, Active, At, Others, IncidentInv, AloneOnly
    <3>2. QED BY <3>1
  <2>2. Alone(t)' <=> task'[t].pc # "idle"
    BY <1>0, <1>1 DEF Stays, Alone, Active, At
  <2>3. Accounts(t)
    BY <1>1
  <2>4. \A o \in Tasks : Alone(o)' => Knows(o)'
    BY <2>1, <2>2, <2>3 DEF Accounts
  <2>5. QED BY <2>2, <2>3, <2>4 DEF ErrorInv, Accounts
<1>2. CASE ~task[t].alone
  <2>1. blurred' = Blurred
    BY <1>2 DEF TruthInv, Clear
  <2>2. ASSUME NEW o \in Tasks PROVE ~Alone(o)'
    <3>1. CASE o = t
      BY <1>0, <1>2, <3>1 DEF Stays, Alone, Active, At
    <3>2. CASE o # t
      BY <1>0, <3>2 DEF Alone, Active, At, Others, IncidentInv, AloneOnly
    <3>3. QED BY <3>1, <3>2
  <2>3. QED BY <2>1, <2>2 DEF ErrorInv, Shown, Settled, Blurred
<1>3. QED BY <1>1, <1>2

\* A task whose next step is a check, or that has nothing else on its way, knows.
LEMMA ErrorSettle ==
    ASSUME {"trojan", "cert"} \subseteq Kinds, TypeOK, Shape, IncidentInv, TruthInv, ErrorInv,
           NEW t \in Tasks, Alone(t), NEW kind \in Kinds, SettledOn(t, kind)
    PROVE  Accounts(t)
<1> DEFINE q == task[t]
<1>0. /\ q \in Task /\ task'[t] = Advance(q) /\ blurred' = blurred \ {kind} /\ Work(t)
      /\ q.pc \in IncidentSteps /\ q.kind = kind /\ UNCHANGED <<server, renewal, tested, job>>
      /\ \A k \in Kinds : k # kind => Open(k)' = Open(k)
      /\ IF Open(kind)' = {} THEN Resolves(t) /\ MayClose(kind, Now) ELSE MayOpen(kind, Now)
      /\ Idle.pc = "idle"
  BY DEF TypeOK, SettledOn, Settle, Alone, TruthInv, WorksWell, Idle
<1>1. /\ Knows(t)
      /\ Shown => OutageShown \/ CheckDue(t)
      /\ Settled => Explained \/ ExplainsSoon(t)
  BY ErrorKnown
<1>2. /\ task'[t].pc \in {"idle", "find", "seek", "check"}
      /\ \A k \in Kinds : Later(t, k) => task'[t].pc # "idle" /\ Pending(t, k)'
      /\ Later(t, "server") => task'[t].pc # "idle" /\ (task'[t].pc = "check" \/ Later(t, "server")')
      /\ \A k \in Kinds : (task'[t].pc # "idle" /\ Pending(t, k)') => Later(t, k)
      /\ task'[t].pc # "idle" => task'[t].kind # "cert"
  <2>1. Now' = Now /\ Seen(t) = Now
    BY <1>0 DEF Now, Seen, Facts, At, IncidentSteps
  <2>2. /\ \A i \in DOMAIN q.rest : OpAgrees(q.rest[i], Now')
        /\ \A i, j \in DOMAIN q.rest : q.rest[i].kind = "server" => j <= i /\ q.inst = server'
        /\ \A i \in DOMAIN q.rest : q.rest[i].kind \notin {"cert", "config"}
    BY <1>0, <2>1 DEF Work, Later
  <2> HIDE DEF q
  <2>3. CASE q.rest = <<>>
    <3>1. task'[t].pc = "idle"
      BY <1>0, <2>3, AdvanceOK
    <3>2. QED BY <2>3, <3>1 DEF Later, q
  <2>4. CASE q.rest # <<>>
    <3>1. /\ task'[t].pc \in {"find", "seek", "check"}
          /\ \A k \in Kinds : (\E i \in DOMAIN q.rest : q.rest[i].kind = k) => Pending(t, k)'
          /\ (\E i \in DOMAIN q.rest : q.rest[i].kind = "server") =>
                task'[t].pc = "check" \/ Later(t, "server")'
          /\ task'[t].kind = q.rest[1].kind
      BY <1>0, <2>2, <2>4, WorkAdvance
    <3>2. /\ 1 \in DOMAIN q.rest
          /\ \A i \in DOMAIN task'[t].rest : \E j \in DOMAIN q.rest : task'[t].rest[i] = q.rest[j]
      <4>1. q.rest \in Rests
        BY <1>0 DEF Task, Rests
      <4>2. Len(q.rest) \in 1 .. 2 /\ DOMAIN q.rest = 1 .. Len(q.rest)
        BY <2>4, <4>1, RestOK
      <4>3. /\ DOMAIN task'[t].rest = 1 .. (Len(q.rest) - 1)
            /\ \A i \in 1 .. (Len(q.rest) - 1) : task'[t].rest[i] = q.rest[i + 1]
        BY <1>0, <2>4, AdvanceOK
      <4>4. \A i \in 1 .. (Len(q.rest) - 1) : i + 1 \in 1 .. Len(q.rest)
        BY <4>2
      <4>5. ASSUME NEW i \in DOMAIN task'[t].rest
            PROVE  \E j \in DOMAIN q.rest : task'[t].rest[i] = q.rest[j]
        <5>1. i + 1 \in DOMAIN q.rest /\ task'[t].rest[i] = q.rest[i + 1]
          BY <4>2, <4>3, <4>4
        <5>2. QED BY <5>1
      <4>6. 1 \in DOMAIN q.rest
        <5>1. \A n \in 1 .. 2 : 1 \in 1 .. n
          OBVIOUS
        <5>2. QED BY <4>2, <5>1
      <4>7. QED BY <4>5, <4>6
    <3>3. \A k \in Kinds : Pending(t, k)' => \E j \in DOMAIN q.rest : q.rest[j].kind = k
      BY <3>1, <3>2 DEF Pending, Later
    <3>4. task'[t].kind # "cert"
      BY <2>2, <3>1, <3>2
    <3>5. QED BY <3>1, <3>3, <3>4 DEF Later, q
  <2>5. QED BY <2>3, <2>4
<1>3. ASSUME task'[t].pc # "idle" PROVE Knows(t)'
  <2>1. Pending(t, "trojan")' => (server'.status = "error" <=> server'.health = "offline")
    <3>1. ASSUME Pending(t, "trojan")' PROVE Pending(t, "trojan") /\ ~At(t, "patch")
      BY <1>0, <1>2, <1>3, <3>1 DEF Pending, At, IncidentSteps
    <3>2. QED BY <1>0, <1>1, <3>1 DEF Knows
  <2>2. QED BY <1>2, <1>3, <2>1 DEF Knows, At
<1>4. CASE kind = "trojan"
  <2>1. server.status = "error" <=> server.health = "offline"
    BY <1>0, <1>1, <1>4 DEF Knows, Pending, At, IncidentSteps
  <2>2. /\ Open("trojan")' # {} => server.health = "offline"
        /\ Open("trojan")' = {} => server.health # "offline"
    BY <1>0, <1>4 DEF MayOpen, MayClose, Now, Facts
  <2>3. OutageShown' /\ Explained'
    BY <1>0, <2>1, <2>2 DEF OutageShown, Explained
  <2>4. QED BY <1>3, <2>3 DEF Accounts
<1>5. CASE kind # "trojan"
  <2>1. CheckDue(t) => task'[t].pc # "idle" /\ CheckDue(t)'
    BY <1>0, <1>2, <1>5 DEF CheckDue, Pending, IncidentSteps
  <2>2. Open("trojan")' = Open("trojan")
    BY <1>0, <1>5
  <2>3. Shown' => Shown
    BY <1>0, <1>5, KindNames DEF Shown
  <2>4. OutageShown => OutageShown'
    BY <1>0, <2>2 DEF OutageShown
  <2>5. Settled' => Explained' \/ (task'[t].pc # "idle" /\ CheckDue(t)')
    <3>1. CASE kind = "cert"
      <4>1. CASE Open("cert")' # {}
        BY <4>1 DEF Explained
      <4>2. CASE Open("cert")' = {}
        BY <1>0, <1>1, <2>1, <3>1, <4>2 DEF Knows, CheckDue
      <4>3. QED BY <4>1, <4>2
    <3>2. CASE kind # "cert"
      <4>1. Settled' => Settled
        BY <1>0, <1>5, <3>2, KindNames DEF Settled
      <4>2. ExplainsSoon(t) => CheckDue(t)
        BY <1>0, <3>2 DEF ExplainsSoon
      <4>3. Explained => Explained'
        <5>1. Open("cert")' = Open("cert")
          BY <1>0, <3>2
        <5>2. QED BY <1>0, <2>2, <5>1 DEF Explained
      <4>4. QED BY <1>1, <2>1, <4>1, <4>2, <4>3
    <3>3. QED BY <3>1, <3>2
  <2>6. QED BY <1>1, <1>3, <2>1, <2>3, <2>4, <2>5 DEF Accounts, ExplainsSoon
<1>6. QED BY <1>4, <1>5

LEMMA ErrorGoto ==
    ASSUME {"trojan", "cert"} \subseteq Kinds, IncidentInv, ErrorInv,
           NEW t \in Tasks, Alone(t), NEW kind \in Kinds, GoesOn(t, kind)
    PROVE  Accounts(t)
<1>1. /\ Knows(t)
      /\ Shown => OutageShown \/ CheckDue(t)
      /\ Settled => Explained \/ ExplainsSoon(t)
  BY ErrorKnown
<1>2. /\ \A k : Later(t, k)' <=> Later(t, k)
      /\ \A k : Pending(t, k)' <=> Pending(t, k)
      /\ UNCHANGED <<server, job, blurred>>
      /\ task[t].kind = kind /\ task'[t].kind = kind
      /\ task'[t].pc \in IncidentSteps /\ task[t].pc \in IncidentSteps
      /\ Opens(t)' \/ Resolves(t)'
      /\ Resolves(t)' => Resolves(t)
      /\ \A k \in Kinds : k # kind => Open(k)' = Open(k)
  BY DEF GoesOn, Later, Pending, IncidentSteps, Opens, Resolves
<1>3. CheckDue(t)' <=> CheckDue(t)
  BY <1>2 DEF CheckDue, IncidentSteps
<1>4. Knows(t)'
  BY <1>1, <1>2 DEF Knows, At, IncidentSteps
<1>5. task'[t].pc # "idle" /\ (Shown' <=> Shown) /\ (Settled' <=> Settled)
  BY <1>2 DEF IncidentSteps, Shown, Settled
<1>6. CASE kind = "trojan"
  <2>1. CheckDue(t)'
    BY <1>2, <1>6 DEF CheckDue, Pending
  <2>2. QED BY <1>4, <1>5, <2>1 DEF Accounts, ExplainsSoon
<1>7. CASE kind # "trojan"
  <2>1. Open("trojan")' = Open("trojan")
    BY <1>2, <1>7
  <2>2. OutageShown => OutageShown'
    BY <1>2, <2>1 DEF OutageShown
  <2>3. Settled' => Explained' \/ ExplainsSoon(t)'
    <3>1. CASE kind = "cert"
      BY <1>1, <1>2, <1>3, <3>1 DEF ExplainsSoon, CheckDue, Knows
    <3>2. CASE kind # "cert"
      <4>1. Open("cert")' = Open("cert")
        BY <1>2, <3>2
      <4>2. Explained => Explained'
        BY <1>2, <2>1, <4>1 DEF Explained
      <4>3. ExplainsSoon(t) => ExplainsSoon(t)'
        BY <1>2, <1>3, <3>2 DEF ExplainsSoon
      <4>4. QED BY <1>1, <1>5, <4>2, <4>3
    <3>3. QED BY <3>1, <3>2
  <2>4. QED BY <1>1, <1>3, <1>4, <1>5, <2>2, <2>3 DEF Accounts
<1>8. QED BY <1>6, <1>7

\* A step that changes neither the status nor what explains it.
LEMMA ErrorSame ==
    ASSUME IncidentInv, ErrorInv, NEW t \in Tasks, Alone(t),
           ~ExplainsSoon(t), UNCHANGED <<server, job, blurred>>,
           Open("trojan")' = Open("trojan"), Open("cert")' = Open("cert"),
           task'[t].pc # "idle" => Knows(t)'
    PROVE  Accounts(t)
<1>1. /\ Shown => OutageShown \/ CheckDue(t)
      /\ Settled => Explained \/ ExplainsSoon(t)
  BY ErrorKnown
<1>2. ~CheckDue(t)
  BY DEF ExplainsSoon
<1>3. QED BY <1>1, <1>2 DEF Accounts, Shown, Settled, OutageShown, Explained

LEMMA ErrorCheck ==
    ASSUME {"trojan", "cert"} \subseteq Kinds, TypeOK, Shape, IncidentInv, TruthInv, ErrorInv,
           NEW t \in Tasks, Alone(t), Probe(t) \/ Patch(t)
    PROVE  Accounts(t)
<1>0. task[t] \in Task /\ Work(t) /\ server \in Server
  BY DEF TypeOK, Alone, TruthInv, WorksWell
<1>1. CASE Probe(t)
  <2>1. task'[t].pc = "patch"
    <3>1. PICK ssh \in BOOLEAN :
             task'[t] = [task[t] EXCEPT !.pc = "patch", !.found = Outcome(ssh), !.rest = CheckOps(ssh)]
      BY ZenonT(30), <1>1 DEF Probe, TypeOK
    <3>2. QED BY <1>0, <3>1 DEF Task
  <2>2. CheckDue(t)' /\ Knows(t)'
    BY <2>1 DEF CheckDue, Knows, At, Resolves
  <2>3. QED BY <2>1, <2>2 DEF Accounts, ExplainsSoon
<1>2. CASE Patch(t)
  <2> DEFINE q == [task[t] EXCEPT !.inst = Absent, !.found = Absent]
  <2>0. At(t, "patch") /\ task[t].found \in Findings
    BY <1>2 DEF Patch, At, Shape, ShapeOf
  <2>1. q \in Task /\ q.rest = task[t].rest
    BY <1>0, IdleOK DEF Task
  <2>2. task'[t] = Advance(q)
    BY <1>2 DEF Patch, TypeOK
  <2>3. server' = task[t].found
    <3>1. task[t].inst = server /\ Save(task[t].inst, task[t].found) /\ task[t].found \in Server
      BY <1>0, <1>2, <2>0 DEF Work, At, Patch, Task
    <3>2. QED BY <1>0, <3>1, SaveOK
  <2>4. server'.status = "error" <=> server'.health = "offline"
    BY <2>0, <2>3 DEF Findings
  <2>5. \E i \in DOMAIN q.rest : q.rest[i].kind = "trojan"
    BY <1>0, <2>0, <2>1 DEF Work, Later
  <2>6. \A i \in DOMAIN q.rest : OpAgrees(q.rest[i], Now')
    <3>1. Seen(t) = Now'
      BY <1>2, <2>0, <2>3 DEF Seen, Now, Facts, Patch
    <3>2. QED BY <1>0, <2>1, <3>1 DEF Work
  <2>7. \A i \in DOMAIN q.rest : q.rest[i].kind \notin {"server", "cert", "config"}
    BY <1>0, <2>0, <2>1 DEF Work, Later
  <2> HIDE DEF q
  <2>8. q.rest # <<>>
    BY <2>5
  <2>9. /\ task'[t].pc \in {"find", "seek", "check"} /\ task'[t].kind = q.rest[1].kind
        /\ \A k \in Kinds : (\E i \in DOMAIN q.rest : q.rest[i].kind = k) => Pending(t, k)'
    BY <2>1, <2>2, <2>6, <2>7, <2>8, WorkAdvance
  <2>10. Pending(t, "trojan")'
    BY <2>5, <2>9
  <2>11. task'[t].kind # "cert"
    <3>1. q.rest \in Rests
      BY <2>1 DEF Task, Rests
    <3>2. 1 \in DOMAIN q.rest
      BY <2>8, <3>1, RestOK
    <3>3. QED BY <2>7, <2>9, <3>2
  <2>12. Knows(t)'
    BY <2>4, <2>9, <2>11 DEF Knows, At
  <2>13. QED BY <2>9, <2>10, <2>12 DEF Accounts, CheckDue, ExplainsSoon
<1>3. QED BY <1>1, <1>2

LEMMA ErrorEndRenewal ==
    ASSUME TypeOK, Shape, IncidentInv, TruthInv, NEW t \in Tasks, Alone(t), "cert" \in Kinds,
           task[t].pc \in {"renewed", "failed"},
           NEW a \in {Opening("cert"), Resolving("cert")}, NEW tail \in {<<>>, <<Checking>>},
           OpAgrees(a, Now),
           NEW status \in {"online", "error"}, NEW rescue \in BOOLEAN,
           EndRenewal(t, status, Due(a) \o tail, rescue),
           tail = <<>> => a = Opening("cert") /\ status = "error" /\ task[t].manual
    PROVE  Accounts(t)
<1> DEFINE ops == Due(a) \o tail
<1>0. Work(t) /\ server \in Server
  BY DEF Alone, TruthInv, WorksWell, TypeOK
<1>1. /\ ops \in Rests
      /\ \A i \in DOMAIN ops : ops[i] \in {a, Checking} \cap Op
      /\ \A i, j \in DOMAIN ops : ops[i].kind = "server" => j <= i
      /\ \A i \in DOMAIN ops : i # 1 => ops[i] = Checking
      /\ "cert" \in Kinds => \E i \in DOMAIN ops : ops[i] = a
      /\ tail # <<>> => \E i \in DOMAIN ops : ops[i] = Checking
  BY EndOps, ZenonT(60)
<1>2. /\ a.kind = "cert" /\ Checking.kind = "server" /\ Checking.do = "check"
      /\ a = Opening("cert") => a.do = "open"
      /\ a.do \in {"open", "resolve"}
  BY DEF Opening, Resolving, Checking
<1>3. EndRenewal(t, status, ops, rescue)
  OBVIOUS
<1> HIDE DEF ops
<1>4. PICK after \in Server, q \in Task :
         /\ after.status =
               IF task[t].manual \/ task[t].prev = "renewing_ssl" THEN status ELSE task[t].prev
         /\ after.status \in {"online", "error"} /\ after.health = task[t].inst.health
         /\ q.rest = ops /\ q.inst = after /\ q.alone = task[t].alone
         /\ ~q.manual /\ q.prev = "online"
         /\ Save(task[t].inst, after)
         /\ task'[t] = Advance(q) /\ Others(t)
  BY <1>1, <1>3, EndRenewalOK
<1>5. server' = after /\ Now' = Now
  <2>1. task[t].inst = server
    BY <1>0 DEF Work, RenewSteps
  <2>2. server' = after
    BY <1>0, <1>4, <2>1, SaveOK
  <2>3. QED BY <1>3, <1>4, <2>1, <2>2 DEF Now, Facts, EndRenewal, ghosts
<1>6. /\ \A i \in DOMAIN q.rest : OpAgrees(q.rest[i], Now')
      /\ \A i, j \in DOMAIN q.rest : q.rest[i].kind = "server" => j <= i /\ q.inst = server'
      /\ \A i \in DOMAIN q.rest : i # 1 => q.rest[i].kind \notin {"cert", "config"}
  BY <1>1, <1>2, <1>4, <1>5 DEF OpAgrees
<1>7. q.rest # <<>> /\ 1 \in DOMAIN q.rest
  <2>1. q.rest # <<>>
    BY <1>1, <1>4
  <2>2. QED BY <1>1, <1>4, <2>1, RestOK
<1>8. /\ task'[t].pc \in {"find", "seek", "check"}
      /\ (\E i \in DOMAIN q.rest : q.rest[i].kind = "server") =>
            task'[t].pc = "check" \/ Later(t, "server")'
      /\ task'[t].kind = q.rest[1].kind
      /\ task'[t].pc = "seek" <=> q.rest[1].do = "resolve"
      /\ task'[t].pc = "find" <=> q.rest[1].do = "open"
  BY <1>4, <1>6, <1>7, WorkAdvance
<1>9. task'[t].kind # "trojan" /\ ~Later(t, "trojan")'
  <2>1. task'[t].kind # "trojan"
    BY <1>1, <1>2, <1>4, <1>7, <1>8
  <2>2. /\ DOMAIN task'[t].rest = 1 .. (Len(q.rest) - 1)
        /\ \A i \in 1 .. (Len(q.rest) - 1) : task'[t].rest[i] = q.rest[i + 1]
    BY <1>4, <1>7, AdvanceOK
  <2>3. DOMAIN q.rest = 1 .. Len(q.rest) /\ Len(q.rest) \in 1 .. 2
    BY <1>1, <1>4, <1>7, RestOK
  <2>4. ASSUME NEW i \in DOMAIN task'[t].rest PROVE task'[t].rest[i].kind # "trojan"
    <3>1. i + 1 \in DOMAIN q.rest /\ task'[t].rest[i] = q.rest[i + 1]
      BY <2>2, <2>3
    <3>2. QED BY <1>1, <1>2, <1>4, <3>1
  <2>5. QED BY <2>1, <2>4 DEF Later
<1>10. ~Pending(t, "trojan")'
  BY <1>8, <1>9 DEF Pending
<1>11. CASE tail # <<>>
  <2>1. task'[t].pc = "check" \/ Later(t, "server")'
    BY <1>1, <1>2, <1>4, <1>8, <1>11
  <2>2. Knows(t)' /\ CheckDue(t)'
    BY <1>8, <1>10, <2>1 DEF Knows, CheckDue, At, Resolves
  <2>3. QED BY <1>8, <2>2 DEF Accounts, ExplainsSoon
<1>12. CASE tail = <<>>
  <2>1. server'.status = "error"
    BY <1>4, <1>5, <1>12
  <2>2. task'[t].pc = "find" /\ task'[t].kind = "cert"
    <3>1. q.rest[1] = a
      <4>1. ~\E i \in DOMAIN ops : ops[i] = Checking
        <5>1. DOMAIN ops = {1}
          <6>1. Due(a) = <<a>> /\ a \in Op
            BY <1>2, OpOK DEF Due
          <6>2. ops = <<a>>
            BY <1>12, <6>1, Short DEF ops
          <6>3. QED BY <6>2
        <5>2. \E i \in DOMAIN ops : ops[i] = a
          BY <1>1
        <5>3. QED BY <1>2, <5>1, <5>2
      <4>2. QED BY <1>1, <1>4, <1>7, <4>1
    <3>2. QED BY <1>2, <1>8, <1>12, <3>1
  <2>3. Knows(t)' /\ OutageShown' /\ ExplainsSoon(t)'
    BY <1>10, <2>1, <2>2 DEF Knows, At, Resolves, OutageShown, ExplainsSoon, Opens
  <2>4. QED BY <2>2, <2>3 DEF Accounts
<1>13. QED BY <1>11, <1>12

LEMMA ErrorRenewal ==
    ASSUME {"trojan", "cert"} \subseteq Kinds, TypeOK, Shape, IncidentInv, TruthInv, ErrorInv,
           NEW t \in Tasks, Alone(t), RenewalStep(t)
    PROVE  Accounts(t)
<1>0. Work(t) /\ task[t] \in Task
  BY DEF Alone, TruthInv, WorksWell, TypeOK
<1>1. task[t].pc \in RenewSteps /\ task[t].rest = <<>>
  BY <1>0 DEF RenewalStep, MarkRenewing, Renew, Renewed, RenewalFailed, At, RenewSteps, Work
<1>2. ASSUME task'[t].pc \in {"renew", "renewed", "failed"}, task'[t].rest = <<>> PROVE Accounts(t)
  <2>1. CheckDue(t)' /\ Knows(t)'
    BY <1>2 DEF CheckDue, Knows, Pending, Later, At, Resolves, IncidentSteps
  <2>2. QED BY <1>2, <2>1 DEF Accounts, ExplainsSoon
<1>3. CASE MarkRenewing(t)
  <2> DEFINE after == [task[t].inst EXCEPT !.status = "renewing_ssl"]
  <2>1. task' = [task EXCEPT ![t].pc = "renew", ![t].inst = after]
    BY <1>3 DEF MarkRenewing
  <2> HIDE DEF after
  <2>2. task'[t].pc = "renew" /\ task'[t].rest = <<>>
    BY <1>0, <1>1, <2>1 DEF Task, TypeOK
  <2>3. QED BY <1>2, <2>2
<1>4. CASE Renew(t)
  <2>1. task'[t].pc \in {"renewed", "failed"} /\ task'[t].rest = <<>>
    BY <1>0, <1>1, <1>4 DEF Renew, Goto, Task, TypeOK
  <2>2. QED BY <1>2, <2>1
<1>5. CASE Renewed(t)
  <2>1. task[t].pc = "renewed" /\ EndRenewal(t, "online", Due(Resolving("cert")) \o <<Checking>>, TRUE)
    BY <1>5 DEF Renewed, At
  <2>2. OpAgrees(Resolving("cert"), Now)
    BY <1>0, <2>1 DEF Work, At, OpAgrees, MayClose, Resolving, Now, Facts
  <2>3. <<Checking>> # <<>>
    OBVIOUS
  <2>4. QED BY <2>1, <2>2, <2>3, ErrorEndRenewal
<1>6. CASE RenewalFailed(t)
  <2> DEFINE tail == IF task[t].manual THEN <<>> ELSE <<Checking>>
  <2>1. task[t].pc = "failed" /\ EndRenewal(t, "error", Due(Opening("cert")) \o tail, FALSE)
    BY <1>6 DEF RenewalFailed, At
  <2>2. OpAgrees(Opening("cert"), Now)
    BY <1>0, <2>1 DEF Work, At, OpAgrees, MayOpen, Opening, Now, Facts
  <2>3. tail \in {<<>>, <<Checking>>} /\ (tail = <<>> => task[t].manual)
    OBVIOUS
  <2> HIDE DEF tail
  <2>4. QED BY <2>1, <2>2, <2>3, ErrorEndRenewal
<1>7. QED BY <1>3, <1>4, <1>5, <1>6 DEF RenewalStep

LEMMA ErrorTest ==
    ASSUME TypeOK, Shape, IncidentInv, TruthInv, ErrorInv, NEW t \in Tasks, Alone(t), RecordResult(t)
    PROVE  Accounts(t)
<1>0. Work(t) /\ task[t] \in Task /\ At(t, "record") /\ Idle.pc = "idle"
  BY DEF Alone, TruthInv, WorksWell, TypeOK, RecordResult, Idle
<1>1. PICK result \in {"ok", "bad"} :
         task' = [task EXCEPT ![t] = Advance([@ EXCEPT !.rest =
               Due(IF result = "ok" THEN Resolving("config") ELSE Opening("config"))])]
  BY DEF RecordResult
<1> DEFINE a == IF result = "ok" THEN Resolving("config") ELSE Opening("config")
           q == [task[t] EXCEPT !.rest = Due(a)]
<1>2. UNCHANGED <<server, job, blurred, incident>>
  BY DEF RecordResult, ghosts
<1>3. a.kind = "config" /\ ("config" \in Kinds => a \in Op)
  <2>1. a.kind = "config"
    BY DEF Opening, Resolving
  <2>2. QED BY <2>1, OpOK
<1>4. task'[t] = Advance(q)
  BY <1>1 DEF TypeOK
<1> HIDE DEF a
<1>5. Due(a) \in Rests /\ Due(a) = IF "config" \in Kinds THEN <<a>> ELSE <<>>
  BY <1>3, RestOK DEF Due
<1>6. q \in Task /\ q.rest = Due(a)
  BY <1>0, <1>5 DEF Task, Rests
<1> HIDE DEF q
<1>7. task'[t].pc = "idle" \/ (task'[t].kind = "config" /\ task'[t].pc # "i_broken"
                               /\ task'[t].pc # "idle" /\ \A i \in DOMAIN task'[t].rest : FALSE)
  <2>1. CASE "config" \notin Kinds
    BY <1>0, <1>4, <1>5, <1>6, <2>1, AdvanceOK
  <2>2. CASE "config" \in Kinds
    <3>1. q.rest = <<a>> /\ q.rest # <<>>
      BY <1>5, <1>6, <2>2
    <3>2. Len(q.rest) = 1 /\ q.rest[1] = a
      BY <3>1
    <3>3. /\ task'[t].pc \in {"find", "seek", "check"} /\ task'[t].kind = q.rest[1].kind
          /\ DOMAIN task'[t].rest = 1 .. (Len(q.rest) - 1)
      BY ZenonT(30), <1>4, <1>6, <3>1, AdvanceOK
    <3>4. 1 .. (Len(q.rest) - 1) = {}
      BY <3>2
    <3>5. QED BY <1>3, <3>2, <3>3, <3>4
  <2>3. QED BY <2>1, <2>2
<1>8. task'[t].pc # "idle" => Knows(t)'
  BY <1>7 DEF Knows, Pending, Later, At
<1>9. ~ExplainsSoon(t)
  BY <1>0 DEF ExplainsSoon, CheckDue, Pending, Later, Opens, Work, At, IncidentSteps
<1>10. Open("trojan")' = Open("trojan") /\ Open("cert")' = Open("cert")
  BY <1>2 DEF Open
<1>11. QED BY <1>2, <1>8, <1>9, <1>10, ErrorSame

LEMMA ErrorInstall ==
    ASSUME {"trojan", "cert"} \subseteq Kinds, TypeOK, Shape, JobInv, IncidentInv, TruthInv, ErrorInv,
           NEW t \in Tasks, Alone(t), InstallStep(t)
    PROVE  Accounts(t)
<1>0. /\ Work(t) /\ task[t] \in Task /\ ShapeOf(task[t]) /\ JobOf(t) /\ server \in Server
      /\ job \in Job /\ Idle.pc = "idle"
  BY DEF Alone, TruthInv, WorksWell, TypeOK, Shape, JobInv, Idle
<1>1. /\ task[t].pc \in InstallSteps /\ incident' = incident
      /\ task'[t].pc \in InstallSteps \cup {"idle"} /\ Stays(t)
  BY InstallMoves
<1>2. server.health = "unknown" /\ task[t].rest = <<>>
  BY <1>0, <1>1 DEF Work, Installs
<1>3. ~ExplainsSoon(t)
  BY <1>1, <1>2 DEF ExplainsSoon, CheckDue, Pending, Later, Opens, IncidentSteps, InstallSteps
<1>4. /\ Knows(t)
      /\ Shown => OutageShown
      /\ Settled => Explained
  BY <1>3, ErrorKnown DEF ExplainsSoon
<1>5. blurred' = blurred /\ Open("trojan")' = Open("trojan") /\ Open("cert")' = Open("cert")
  <2>1. blurred' = blurred
    BY DEF InstallStep, CreateJob, BeginStep, MarkStep, RunStep, EndStep, FailStep, FailJob, FailServer,
           SetOnline, FinishJob, ghosts
  <2>2. QED BY <1>1, <2>1 DEF Open
<1>6. Shown => Open("trojan") = {}
  <2> SUFFICES ASSUME Shown PROVE Open("trojan") = {}
    OBVIOUS
  <2>1. Judged("trojan")
    BY DEF Shown, Judged
  <2>2. ~Pending(t, "trojan")
    BY <1>3 DEF ExplainsSoon, CheckDue
  <2>3. Truth("trojan")
    BY <2>1, <2>2, Judgement
  <2>4. QED BY <1>2, <2>3 DEF Truth, MayOpen, Now, Facts
<1>7. Shown' => OutageShown'
  BY <1>5, <1>6 DEF Shown, OutageShown
<1>8. Settled => (server.status = "error" => Open("trojan") \cup Open("cert") # {} \/ job.status = "error")
  BY <1>4 DEF Explained
<1>a. ASSUME NEW step \in Steps, Goto(t, step) PROVE task'[t].pc = step
  BY <1>0, <1>a DEF Goto, Task, TypeOK
<1>9. ASSUME NEW status \in {"online", "error"}, Save(task[t].inst, [task[t].inst EXCEPT !.status = status]),
             task[t].inst.status # status
      PROVE  server'.status = status /\ server'.health = "unknown"
  <2> DEFINE after == [task[t].inst EXCEPT !.status = status]
  <2>1. /\ task[t].inst \in Server /\ after \in Server /\ after.health = task[t].inst.health
        /\ after.status = status
    BY <1>0 DEF Task, Server
  <2>2. Save(task[t].inst, after)
    BY <1>9
  <2> HIDE DEF after
  <2>3. QED BY <1>0, <1>2, <1>9, <2>1, <2>2, SaveOK
<1>10. ASSUME Settled => Explained', task'[t].pc = "i_broken" => job'.status = "error" PROVE Accounts(t)
  <2>1. task'[t].pc # "idle" => Knows(t)'
    <3>1. ASSUME task'[t].pc \in InstallSteps PROVE ~Resolves(t)' /\ task'[t].pc \notin IncidentSteps
                                                  /\ task'[t].rest = <<>>
      <4>1. ~Resolves(t)' /\ task'[t].pc \notin IncidentSteps
        BY <3>1 DEF Resolves, InstallSteps, IncidentSteps
      <4>2. Work(t)'
        BY <1>0, <3>1, TruthInstall DEF Kept, InstallSteps
      <4>3. QED BY <3>1, <4>1, <4>2 DEF Work, Installs
    <3>2. ASSUME task'[t].pc \in InstallSteps PROVE ~Pending(t, "trojan")'
      BY <3>1, <3>2 DEF Pending, Later
    <3>3. QED BY <1>1, <1>10, <3>1, <3>2 DEF Knows, At
  <2>2. Settled' => Settled
    BY <1>5 DEF Settled
  <2>3. QED BY <1>7, <1>10, <2>1, <2>2 DEF Accounts
<1>11. CASE FailServer(t)
  <2>1. At(t, "i_broken") /\ job' = job /\ task'[t].pc = "idle"
    BY <1>0, <1>11 DEF FailServer, TypeOK
  <2>2. job.status = "error"
    BY <1>4, <2>1 DEF Knows
  <2>3. server'.health = "unknown"
    <3> DEFINE after == [task[t].inst EXCEPT !.status = "error"]
    <3>1. task[t].inst \in Server /\ after \in Server /\ after.health = task[t].inst.health
      BY <1>0 DEF Task, Server
    <3>2. Save(task[t].inst, after)
      BY <1>11 DEF FailServer
    <3> HIDE DEF after
    <3>3. QED BY <1>0, <1>2, <3>1, <3>2, SaveOK
  <2>4. QED BY <1>10, <2>1, <2>2, <2>3 DEF Explained
<1>12. CASE SetOnline(t)
  <2>1. task[t].inst.status = "installing" /\ At(t, "i_online")
    BY <1>0, <1>12 DEF SetOnline, At, ShapeOf, InstallSteps
  <2>2. Save(task[t].inst, [task[t].inst EXCEPT !.status = "online"])
    BY <1>12 DEF SetOnline
  <2>3. server'.status = "online"
    BY <1>9, <2>1, <2>2
  <2>4. task'[t].pc # "i_broken"
    <3> DEFINE after == [task[t].inst EXCEPT !.status = "online"]
    <3>1. task' = [task EXCEPT ![t].pc = "i_done", ![t].inst = after]
      BY <1>12 DEF SetOnline
    <3>2. QED BY <1>0, <3>1 DEF Task, TypeOK
  <2>5. QED BY <1>10, <2>3, <2>4 DEF Explained
<1>13. CASE FailJob(t)
  <2>1. server' = server /\ job'.status = "error"
    BY <1>0, <1>13 DEF FailJob, Job
  <2>2. QED BY <1>2, <1>10, <2>1 DEF Explained
<1>14. CASE CreateJob(t) \/ BeginStep(t) \/ MarkStep(t) \/ RunStep(t) \/ EndStep(t) \/ FailStep(t) \/ FinishJob(t)
  <2>1. server' = server
    BY <1>14 DEF CreateJob, BeginStep, MarkStep, RunStep, EndStep, FailStep, FinishJob
  <2>2. task[t].pc \in InstallSteps \ {"i_broken"}
    BY <1>14 DEF CreateJob, BeginStep, MarkStep, RunStep, EndStep, FailStep, FinishJob, At, InstallSteps
  <2>3. job.status # "error"
    BY <1>0, <2>2 DEF JobOf, At, NoJob, InstallSteps
  <2>4. task'[t].pc # "i_broken"
    <3>1. CASE FinishJob(t)
      BY <1>0, <3>1 DEF FinishJob, TypeOK
    <3>2. CASE ~FinishJob(t)
      BY <1>14, <1>a, <3>2 DEF CreateJob, BeginStep, MarkStep, RunStep, EndStep, FailStep, Steps, InstallSteps
    <3>3. QED BY <3>1, <3>2
  <2>5. Settled => Explained'
    BY <1>5, <1>8, <2>1, <2>3 DEF Explained
  <2>6. QED BY <1>10, <2>4, <2>5
<1>15. QED BY <1>11, <1>12, <1>13, <1>14 DEF InstallStep

LEMMA ErrorStep ==
    ASSUME {"trojan", "cert"} \subseteq Kinds, TypeOK, Shape, JobInv, IncidentInv, TruthInv, ErrorInv,
           NEW t \in Tasks,
           CheckStep(t) \/ MailFails(t) \/ RenewalStep(t) \/ RecordResult(t) \/ InstallStep(t)
    PROVE  ErrorInv'
<1>1. Active(t) /\ Stays(t) /\ Others(t)
  BY Moves, InstallMoves DEF Active, At, Stays, RenewSteps, IncidentSteps, InstallSteps
<1>2. ~task[t].alone => blurred' = blurred
  BY Unsettled
<1>3. ASSUME task[t].alone PROVE Accounts(t)
  <2>0. Alone(t)
    BY <1>1, <1>3 DEF Alone
  <2>1. CASE RenewalStep(t)
    BY <2>0, <2>1, ErrorRenewal
  <2>2. CASE RecordResult(t)
    BY <2>0, <2>2, ErrorTest
  <2>3. CASE InstallStep(t)
    BY <2>0, <2>3, ErrorInstall
  <2>4. CASE Probe(t) \/ Patch(t)
    BY <2>0, <2>4, ErrorCheck
  <2>5. CASE (CheckStep(t) \/ MailFails(t)) /\ ~Probe(t) /\ ~Patch(t)
    <3>1. \E kind \in Kinds : SettledOn(t, kind) \/ GoesOn(t, kind)
      BY <2>0, <2>5, OpenSteps, ResolveSteps DEF CheckStep
    <3>2. QED BY <2>0, <3>1, ErrorSettle, ErrorGoto
  <2>6. QED BY <2>1, <2>2, <2>3, <2>4, <2>5
<1>4. QED BY <1>1, <1>2, <1>3, ErrorFrame

LEMMA ErrorStart ==
    ASSUME {"trojan", "cert"} \subseteq Kinds, TypeOK, Shape, IncidentInv, TruthInv, ErrorInv,
           NEW t \in Tasks,
           \/ StartCheck(t) \/ (\E manual \in BOOLEAN : StartRenewal(t, manual))
           \/ StartTest(t) \/ Install(t)
    PROVE  ErrorInv'
<1>1. PICK r \in Task :
         /\ Begin(t, r) /\ r.pc \in {"check", "mark", "record", "i_job"}
         /\ r.alone /\ r.rest = <<>>
         /\ r.pc \in {"check", "mark"} => r.inst = server'
         /\ r.pc = "record" => r.seen = tested'
         /\ r.pc = "i_job" => server'.health = "unknown"
  BY SMTT(30), Begun
<1>2. /\ \/ server' = server
         \/ /\ server'.health = "unknown" /\ server'.status = "installing"
            /\ \A k \in Kinds : Open(k) = {}
      /\ job' = job
  BY ZenonT(30), Begun DEF StartCheck, StartRenewal, StartTest, Install
<1>3. CASE Quiet
  <2>1. /\ task'[t] = r /\ \A o \in Tasks : o # t => task'[o].pc = "idle"
        /\ UNCHANGED <<blurred, incident>>
        /\ \A o \in Tasks : ~Alone(o)
    BY <1>1, <1>3 DEF Begin, Quiet, At, Alone, Active, TypeOK
  <2>2. Knows(t)'
    <3>1. task'[t].pc \notin IncidentSteps \cup {"i_broken"} /\ ~Resolves(t)'
      BY <1>1, <2>1 DEF IncidentSteps, Resolves
    <3>2. ~Pending(t, "trojan")'
      BY <1>1, <2>1, <3>1 DEF Pending, Later
    <3>3. QED BY <3>1, <3>2 DEF Knows, At
  <2>3. \A k : Open(k)' = Open(k)
    BY <2>1 DEF Open
  <2>4. Shown => OutageShown'
    BY <1>2, <2>1, <2>3 DEF ErrorInv, OutageShown
  <2>5. Settled => Explained'
    BY <1>2, <2>1, <2>3 DEF ErrorInv, Explained
  <2>6. QED BY <2>1, <2>2, <2>4, <2>5 DEF ErrorInv, Shown, Settled, Alone, Active, At
<1>4. CASE ~Quiet
  <2>1. blurred' = Blurred /\ \A o \in Tasks : ~Alone(o)'
    BY <1>1, <1>4, Crowded
  <2>2. QED BY <2>1 DEF ErrorInv, Shown, Settled, Blurred
<1>5. QED BY <1>3, <1>4

LEMMA ErrorFault ==
    ASSUME TypeOK, Shape, JobInv, IncidentInv, (\E t \in Tasks : QueryFails(t)) \/ Crash
    PROVE  ErrorInv'
<1>1. blurred' = Blurred /\ \A o \in Tasks : ~Alone(o)'
  BY Disturbs
<1>2. QED BY <1>1 DEF ErrorInv, Shown, Settled, Blurred

LEMMA ErrorRest ==
    ASSUME ErrorInv, UNCHANGED <<server, incident, job, task, blurred>>
    PROVE  ErrorInv'
<1>1. /\ \A k : Open(k)' = Open(k)
      /\ \A t, k : Pending(t, k)' <=> Pending(t, k)
      /\ \A t, k : Later(t, k)' <=> Later(t, k)
      /\ \A t : (Alone(t)' <=> Alone(t)) /\ (Opens(t)' <=> Opens(t)) /\ (Resolves(t)' <=> Resolves(t))
  BY DEF Open, Pending, Later, Alone, Active, At, Opens, Resolves
<1>2. \A t : (Knows(t)' <=> Knows(t)) /\ (CheckDue(t)' <=> CheckDue(t)) /\ (ExplainsSoon(t)' <=> ExplainsSoon(t))
  BY <1>1 DEF Knows, CheckDue, ExplainsSoon, At
<1>3. /\ (Shown' <=> Shown) /\ (Settled' <=> Settled)
      /\ (OutageShown' <=> OutageShown) /\ (Explained' <=> Explained)
  BY <1>1 DEF Shown, Settled, OutageShown, Explained
<1>4. QED BY <1>1, <1>2, <1>3 DEF ErrorInv

LEMMA ErrorInit ==
    ASSUME {"trojan", "cert"} \subseteq Kinds, Init
    PROVE  ErrorInv
<1>1. /\ \A t \in Tasks : task[t].pc = "idle"
      /\ Open("trojan") = {} /\ server.status # "error"
  BY DEF Init, Idle, Open, NoRow, NewServer, Absent
<1>2. QED BY <1>1 DEF ErrorInv, Alone, Active, At, OutageShown, Explained

LEMMA ErrorNext ==
    ASSUME {"trojan", "cert"} \subseteq Kinds, TypeOK, Shape, JobInv, IncidentInv, TruthInv, ErrorInv,
           [Next]_vars
    PROVE  ErrorInv'
<1>1. ASSUME NEW t \in Tasks,
             CheckStep(t) \/ MailFails(t) \/ RenewalStep(t) \/ RecordResult(t) \/ InstallStep(t)
      PROVE  ErrorInv'
  BY <1>1, ErrorStep
<1>2. ASSUME NEW t \in Tasks,
             \/ StartCheck(t) \/ (\E manual \in BOOLEAN : StartRenewal(t, manual))
             \/ StartTest(t) \/ Install(t)
      PROVE  ErrorInv'
  BY <1>2, ErrorStart
<1>3. ASSUME (\E t \in Tasks : QueryFails(t)) \/ Crash PROVE ErrorInv'
  BY <1>3, ErrorFault
<1>4. ASSUME BoxChanges \/ (\E k \in Alerting : GapPasses(k)) \/ UNCHANGED vars PROVE ErrorInv'
  <2>1. UNCHANGED <<server, incident, job, task, blurred>>
    BY <1>4 DEF BoxChanges, GapPasses, vars, ghosts
  <2>2. QED BY <2>1, ErrorRest
<1>5. QED BY <1>1, <1>2, <1>3, <1>4 DEF Next

LEMMA ErrorTold == ErrorInv => ErrorExplained
<1> SUFFICES ASSUME ErrorInv, Quiet, Settled
             PROVE  /\ server.status = "error" =>
                          \/ Open("trojan") \cup Open("cert") # {}
                          \/ job.status = "error" /\ server.health = "unknown"
                    /\ Open("trojan") # {} => server.status = "error"
  BY DEF ErrorExplained, Settled
<1>1. \A t \in Tasks : ~Alone(t)
  BY DEF Quiet, Alone, Active
<1>2. Shown
  BY DEF Settled, Shown
<1>3. QED BY <1>1, <1>2 DEF ErrorInv, OutageShown, Explained

\* Where both kinds of incident that the status speaks for are kept: between
\* tasks, a status of 'error' that no overlap and no fault has touched has an
\* open incident or a failed installation to show for it, and an open trojan
\* incident always shows in the status.
THEOREM ErrorExplainedHolds ==
    ASSUME {"trojan", "cert"} \subseteq Kinds
    PROVE  Spec => []ErrorExplained
<1>1. Init => TypeOK /\ Shape /\ JobInv /\ IncidentInv /\ TruthInv /\ ErrorInv
  BY TypeInit, JobInit, IncInit, TruthInit, ErrorInit
<1>2. TypeOK /\ Shape /\ JobInv /\ IncidentInv /\ TruthInv /\ ErrorInv /\ [Next]_vars
      => TypeOK' /\ Shape' /\ JobInv' /\ IncidentInv' /\ TruthInv' /\ ErrorInv'
  BY IncNext, TruthNext, ErrorNext
<1>3. ErrorInv => ErrorExplained
  BY ErrorTold
<1>4. QED BY <1>1, <1>2, <1>3, PTL DEF Spec

=============================================================================
