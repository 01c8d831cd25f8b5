-------------------------- MODULE ServerMonitor_proofs --------------------------
(***************************************************************************)
(* What the runs of ServerMonitor check, for any number of tasks, rows,    *)
(* installation steps and faults.  Invariants, one above the other: the    *)
(* shape of the tasks, how a job advances, who may leave the status busy,  *)
(* and what overlaps do to incidents and mails.  ServerTruth_proofs goes   *)
(* on from here.                                                           *)
(***************************************************************************)
EXTENDS ServerMonitor, SequenceTheorems, WellFoundedInduction, TLAPS

USE ServerMonitorAssumption

-----------------------------------------------------------------------------
(* The shape of the tasks *)

Active(t) == ~At(t, "idle")
Announces(t) == task[t].pc \in {"mail", "send", "notify"}

Findings == {[status |-> "online", health |-> "online"],
             [status |-> "online", health |-> "degraded"],
             [status |-> "error", health |-> "offline"]}

ShapeOf(r) ==
    /\ r.pc = "idle" => r = Idle
    /\ r.pc \in IncidentSteps => r.kind \in Kinds
    /\ r.pc \in {"mail", "send", "notify", "recover"} => r.kind \in Alerting
    /\ r.held # {} => r.pc \in {"mail", "send", "notify", "close", "recover"}
    /\ r.pc = "patch" => r.found \in Findings
    /\ ~r.manual => r.prev \notin Busy
    /\ r.pc \in InstallSteps => ~r.rescue
    /\ r.pc \in InstallSteps \ {"i_broken", "i_done"} => r.inst.status = "installing"

Shape == \A t \in Tasks : ShapeOf(task[t])

-----------------------------------------------------------------------------
(* The status and the job *)

Installs(t) == task[t].pc \in InstallSteps

\* Steps below n succeeded, those above are to come.
Done(n) == \A m \in 1 .. LastStep : (m < n => job.step[m] = "success")
                                 /\ (m > n => job.step[m] = "pending")

JobOf(t) ==
    /\ At(t, "i_job") => job = NoJob
    /\ At(t, "i_begin") =>
          /\ job.current < LastStep /\ job.status \in {"queued", "running"}
          /\ \A m \in 1 .. LastStep : job.step[m] = IF m <= job.current THEN "success" ELSE "pending"
    /\ task[t].pc \in {"i_mark", "i_run", "i_ok", "i_bad", "i_jobbad", "i_online", "i_done"} =>
          /\ job.current \in 1 .. LastStep /\ job.status = "running"
          /\ Done(job.current)
    /\ At(t, "i_jobbad") => job.step[job.current] = "error"
    /\ task[t].pc \in {"i_online", "i_done"} =>
          job.current = LastStep /\ job.step[LastStep] = "success"
    /\ At(t, "i_broken") => job.status \in {"queued", "running", "error"}
    /\ (At(t, "i_broken") /\ faults = 0) => job.status = "error"

JobInv ==
    /\ \A t, o \in Tasks : Installs(t) /\ Installs(o) => t = o
    /\ server.status = "absent" => job = NoJob /\ \A t \in Tasks : task[t] = Idle
    /\ \A t \in Tasks : JobOf(t)
    /\ job.status = "success" => \A n \in 1 .. LastStep : job.step[n] = "success"
    /\ job.status = "error" =>
          \A n \in 1 .. LastStep : job.step[n] = IF n < job.current THEN "success"
                                                 ELSE IF n = job.current THEN "error" ELSE "pending"
    /\ (faults = 0 /\ \A t \in Tasks : ~Installs(t)) => job.status \in {"none", "success", "error"}

\* Who has made the status busy and will take it off again.
Owns(t) ==
    \/ /\ server.status = "installing"
       /\ task[t].pc \in InstallSteps \ {"i_done"} /\ task[t].inst.status = "installing"
    \/ /\ server.status = "renewing_ssl"
       /\ task[t].pc \in {"renew", "renewed", "failed"} /\ task[t].inst.status = "renewing_ssl"

Owned == server.status \in Busy => orphaned \/ \E t \in Tasks : Owns(t)

-----------------------------------------------------------------------------
(* Incidents and mails *)

Calm(k, n) == incident[k][n].calm /\ incident[k][n].state # "none"

AloneOnly ==
    \A t, o \in Tasks : (t # o /\ Active(t) /\ task[t].alone) => ~Active(o)

\* An open incident nothing has touched: whoever is at work is alone.
CalmAlone ==
    \A k \in Kinds : \A n \in Open(k) : incident[k][n].calm =>
        \A t \in Tasks : Active(t) => task[t].alone

RowsOK ==
    \A k \in Kinds, n \in Rows :
        /\ incident[k][n].state = "none" => incident[k][n] = NoRow
        /\ incident[k][n].state = "open" => ~incident[k][n].recalled

Vacant == \A t \in Tasks : (At(t, "create") /\ task[t].alone) => Open(task[t].kind) = {}

\* A row two tasks hold is no longer calm.
Sole ==
    \A t, o \in Tasks, n \in Rows :
        (t # o /\ task[t].kind = task[o].kind /\ n \in task[t].held \cap task[o].held)
        => ~Calm(task[t].kind, n)

Announcing ==
    \A t \in Tasks : Announces(t) =>
        \E n \in Rows :
            /\ task[t].held = {n}
            /\ task[t].alone =>
                  LET r == incident[task[t].kind][n]
                  IN  r.state = "open" /\ ~r.notified /\ (r.told <=> At(t, "notify"))

Announced ==
    \A k \in Kinds : \A n \in Open(k) :
        (/\ incident[k][n].calm
         /\ \A t \in Tasks : ~(Announces(t) /\ task[t].kind = k /\ n \in task[t].held))
        => (incident[k][n].told <=> incident[k][n].notified)

Closing ==
    \A t \in Tasks : \A n \in task[t].held :
        (At(t, "close") /\ Calm(task[t].kind, n)) =>
            LET r == incident[task[t].kind][n]
            IN  task[t].was = r.told /\ ~r.recalled

Recovering ==
    \A t \in Tasks : \A n \in task[t].held :
        (At(t, "recover") /\ Calm(task[t].kind, n)) =>
            LET r == incident[task[t].kind][n]
            IN  r.state = "resolved" /\ r.told /\ r.recalled

IncidentInv ==
    /\ AloneOnly /\ CalmAlone /\ RowsOK /\ Vacant /\ Sole
    /\ OneOpenIncident
    /\ Announcing /\ Announced /\ Closing /\ Recovering

Blurred == Kinds \cup {"status"}

-----------------------------------------------------------------------------
(* What a task has to do *)

\* The field rest of a task.
Rests == UNION {[1 .. n -> Op] : n \in 0 .. 2}

LEMMA OpOK ==
    /\ \A k \in Kinds : Opening(k) \in Op /\ Resolving(k) \in Op
    /\ Checking \in Op
    /\ \A op \in Op : /\ op.kind \in Kinds => op.do \in {"open", "resolve"}
                      /\ op.kind \notin Kinds => op = Checking
                      /\ op.kind \in Kinds \cup {"server"}
<1>1. \A k \in Kinds : Opening(k) \in Op /\ Resolving(k) \in Op
  BY DEF Op, Opening, Resolving
<1>2. Checking \in Op
  BY DEF Op, Checking
<1>3. "server" \notin Kinds
  OBVIOUS
<1>4. ASSUME NEW op \in [do : {"open", "resolve"}, kind : Kinds]
      PROVE  op.kind \in Kinds /\ op.do \in {"open", "resolve"}
  OBVIOUS
<1>5. ASSUME NEW op \in [do : {"check"}, kind : {"server"}]
      PROVE  op.kind = "server" /\ op = Checking
  BY DEF Checking
<1>6. QED BY <1>1, <1>2, <1>3, <1>4, <1>5 DEF Op

LEMMA Short ==
    ASSUME NEW S, NEW a \in S, NEW b \in S
    PROVE  /\ <<>> \o <<>> = <<>> /\ <<>> \o <<b>> = <<b>>
           /\ <<a>> \o <<>> = <<a>> /\ <<a>> \o <<b>> = <<a, b>>
<1>1. <<a>> \in Seq(S) /\ <<b>> \in Seq(S)
  OBVIOUS
<1>2. <<a>> \o <<b>> = <<a, b>>
  <2>1. <<a, b>> \in Seq(S) /\ Len(<<a, b>>) = 2 /\ <<a, b>>[1] = a /\ <<a, b>>[2] = b
    OBVIOUS
  <2>2. /\ <<a>> \o <<b>> \in Seq(S) /\ Len(<<a>> \o <<b>>) = 2
        /\ (<<a>> \o <<b>>)[1] = a /\ (<<a>> \o <<b>>)[2] = b
    BY <1>1, ConcatProperties
  <2>3. \A i \in 1 .. 2 : (<<a>> \o <<b>>)[i] = <<a, b>>[i]
    BY <2>1, <2>2
  <2>4. QED BY <2>1, <2>2, <2>3, SeqEqual
<1>3. <<a>> \o <<>> = <<a>>
  BY <1>1
<1>4. <<>> \o <<b>> = <<b>>
  BY <1>1
<1>5. <<>> \o <<>> = <<>>
  OBVIOUS
<1>6. QED BY <1>2, <1>3, <1>4, <1>5

LEMMA RestOK ==
    /\ <<>> \in Rests
    /\ \A a \in Op : <<a>> \in Rests
    /\ \A a, b \in Op : <<a, b>> \in Rests
    /\ \A r \in Rests : r # <<>> =>
          /\ Len(r) \in 1 .. 2 /\ DOMAIN r = 1 .. Len(r)
          /\ Head(r) = r[1] /\ r[1] \in Op
          /\ Tail(r) \in Rests
          /\ DOMAIN Tail(r) = 1 .. (Len(r) - 1)
          /\ \A i \in 1 .. (Len(r) - 1) : Tail(r)[i] = r[i + 1]
<1>1. <<>> \in Rests
  <2>1. <<>> \in [1 .. 0 -> Op]
    OBVIOUS
  <2>2. QED BY <2>1 DEF Rests
<1>2. ASSUME NEW a \in Op PROVE <<a>> \in Rests
  <2>1. <<a>> \in [1 .. 1 -> Op]
    OBVIOUS
  <2>2. QED BY <2>1 DEF Rests
<1>3. ASSUME NEW a \in Op, NEW b \in Op PROVE <<a, b>> \in Rests
  <2>1. <<a, b>> \in [1 .. 2 -> Op]
    OBVIOUS
  <2>2. QED BY <2>1 DEF Rests
<1>4. ASSUME NEW r \in Rests, r # <<>>
      PROVE  /\ Len(r) \in 1 .. 2 /\ DOMAIN r = 1 .. Len(r)
             /\ Head(r) = r[1] /\ r[1] \in Op
             /\ Tail(r) \in Rests
             /\ DOMAIN Tail(r) = 1 .. (Len(r) - 1)
             /\ \A i \in 1 .. (Len(r) - 1) : Tail(r)[i] = r[i + 1]
  <2>1. PICK n \in 0 .. 2 : r \in [1 .. n -> Op]
    BY DEF Rests
  <2>2. r \in Seq(Op) /\ Len(r) = n
    BY <2>1
  <2>3. n # 0
    BY <2>1, <2>2, <1>4
  <2>4. /\ Len(Tail(r)) = n - 1 /\ Tail(r) \in Seq(Op)
        /\ \A i \in 1 .. (n - 1) : Tail(r)[i] = r[i + 1]
    BY <2>2, <2>3
  <2>5. Tail(r) \in [1 .. (n - 1) -> Op]
    BY <2>4, LenProperties
  <2>6. Tail(r) \in Rests
    BY <2>5, <2>3 DEF Rests
  <2>7. QED BY <2>1, <2>2, <2>3, <2>4, <2>5, <2>6
<1>5. QED BY <1>1, <1>2, <1>3, <1>4

\* Of two things to do the ones that are followed are done, in their order.
LEMMA DueOK ==
    ASSUME NEW a, NEW b, a.kind \in Kinds \cup {"server"} => a \in Op,
           b.kind \in Kinds \cup {"server"} => b \in Op
    PROVE  LET r == Due(a) \o Due(b)
           IN  /\ r \in Rests
               /\ Due(a) \in Rests
               /\ \A i \in DOMAIN r : r[i] \in {a, b} \cap Op
               /\ \A i \in DOMAIN Due(a) : Due(a)[i] = a /\ a \in Op
               /\ a.kind \in Kinds \cup {"server"} =>
                     /\ 1 \in DOMAIN r /\ r[1] = a
                     /\ Due(a) = <<a>>
               /\ b.kind \in Kinds \cup {"server"} => Len(r) \in DOMAIN r /\ r[Len(r)] = b
<1> DEFINE followed(op) == op.kind \in Kinds \cup {"server"}
<1>1. CASE followed(a) /\ followed(b)
  <2>1. Due(a) = <<a>> /\ Due(b) = <<b>> /\ Due(a) \o Due(b) = <<a, b>>
    BY <1>1, Short DEF Due
  <2>2. <<a>> \in Rests /\ <<a, b>> \in Rests
    BY <1>1, RestOK
  <2>3. DOMAIN <<a, b>> = 1 .. 2 /\ <<a, b>>[1] = a /\ <<a, b>>[2] = b /\ DOMAIN <<a>> = 1 .. 1 /\ <<a>>[1] = a
    OBVIOUS
  <2>4. a \in Op /\ b \in Op
    BY <1>1
  <2>5. \A i \in 1 .. 2 : <<a, b>>[i] \in {a, b} \cap Op
    BY <2>3, <2>4
  <2>6. \A i \in 1 .. 1 : <<a>>[i] = a
    BY <2>3
  <2>7. Len(<<a, b>>) = 2
    BY <2>3
  <2>8. \A i \in DOMAIN (Due(a) \o Due(b)) : (Due(a) \o Due(b))[i] \in {a, b} \cap Op
    BY <2>1, <2>3, <2>5
  <2>9. \A i \in DOMAIN Due(a) : Due(a)[i] = a /\ a \in Op
    BY <2>1, <2>3, <2>4, <2>6
  <2>10. 1 \in DOMAIN (Due(a) \o Due(b)) /\ (Due(a) \o Due(b))[1] = a
    BY <2>1, <2>3
  <2>11. Due(a) \o Due(b) \in Rests /\ Due(a) \in Rests
    BY <2>1, <2>2
  <2>12. b.kind \in Kinds \cup {"server"} =>
          Len(Due(a) \o Due(b)) \in DOMAIN (Due(a) \o Due(b)) /\ (Due(a) \o Due(b))[Len(Due(a) \o Due(b))] = b
    BY <1>1, <2>1, <2>3, <2>7
  <2>13. QED BY <2>1, <2>8, <2>9, <2>10, <2>11, <2>12
<1>2. CASE followed(a) /\ ~followed(b)
  <2>1. Due(a) = <<a>> /\ Due(a) \o Due(b) = <<a>>
    BY <1>2, Short DEF Due
  <2>2. <<a>> \in Rests
    BY <1>2, RestOK
  <2>3. DOMAIN <<a>> = 1 .. 1 /\ <<a>>[1] = a
    OBVIOUS
  <2>4. a \in Op
    BY <1>2
  <2>5. \A i \in 1 .. 1 : <<a>>[i] = a
    BY <2>3
  <2>6. \A i \in DOMAIN (Due(a) \o Due(b)) : (Due(a) \o Due(b))[i] \in {a, b} \cap Op
    BY <2>1, <2>3, <2>4, <2>5
  <2>7. \A i \in DOMAIN Due(a) : Due(a)[i] = a /\ a \in Op
    BY <2>1, <2>3, <2>4, <2>5
  <2>8. 1 \in DOMAIN (Due(a) \o Due(b)) /\ (Due(a) \o Due(b))[1] = a
    BY <2>1, <2>3
  <2>9. Due(a) \o Due(b) \in Rests /\ Due(a) \in Rests
    BY <2>1, <2>2
  <2>10. b.kind \in Kinds \cup {"server"} =>
          Len(Due(a) \o Due(b)) \in DOMAIN (Due(a) \o Due(b)) /\ (Due(a) \o Due(b))[Len(Due(a) \o Due(b))] = b
    BY <1>2, <2>1, <2>3
  <2>11. QED BY <2>1, <2>6, <2>7, <2>8, <2>9, <2>10
<1>3. CASE ~followed(a) /\ followed(b)
  <2>1. Due(a) = <<>> /\ Due(a) \o Due(b) = <<b>>
    BY <1>3, Short DEF Due
  <2>2. <<>> \in Rests /\ <<b>> \in Rests
    BY <1>3, RestOK
  <2>3. DOMAIN <<b>> = 1 .. 1 /\ <<b>>[1] = b /\ Len(<<b>>) = 1 /\ DOMAIN <<>> = {}
    OBVIOUS
  <2>4. b \in Op
    BY <1>3
  <2>5. \A i \in DOMAIN (Due(a) \o Due(b)) : (Due(a) \o Due(b))[i] \in {a, b} \cap Op
    BY <2>1, <2>3, <2>4
  <2>6. \A i \in DOMAIN Due(a) : Due(a)[i] = a /\ a \in Op
    BY <2>1, <2>3
  <2>7. LET r == Due(a) \o Due(b) IN Len(r) \in DOMAIN r /\ r[Len(r)] = b
    BY <2>1, <2>3
  <2>8. Due(a) \o Due(b) \in Rests /\ Due(a) \in Rests
    BY <2>1, <2>2
  <2>9. QED BY <1>3, <2>5, <2>6, <2>7, <2>8
<1>4. CASE ~followed(a) /\ ~followed(b)
  <2>1. Due(a) = <<>> /\ Due(a) \o Due(b) = <<>>
    BY <1>4, Short DEF Due
  <2>2. <<>> \in Rests
    BY RestOK
  <2>3. DOMAIN <<>> = {}
    OBVIOUS
  <2>4. QED BY <1>4, <2>1, <2>2, <2>3
<1>5. QED BY <1>1, <1>2, <1>3, <1>4

\* The next thing a task has to do.
LEMMA AdvanceOK ==
    ASSUME NEW r \in Task
    PROVE  /\ Advance(r) \in Task
           /\ r.rest = <<>> => Advance(r) = Idle
           /\ r.rest # <<>> =>
                 LET op == r.rest[1]
                     next == Advance(r)
                 IN  /\ op \in Op /\ next.kind = op.kind /\ next.held = {}
                     /\ next.pc \in {"find", "seek", "check"}
                     /\ next.pc = "find" <=> op.do = "open"
                     /\ next.pc = "seek" <=> op.do = "resolve"
                     /\ next.pc = "check" => op = Checking /\ ~next.rescue
                     /\ next.pc # "check" => op.kind \in Kinds
                     /\ next.rest = Tail(r.rest)
                     /\ DOMAIN next.rest = 1 .. (Len(r.rest) - 1)
                     /\ \A i \in 1 .. (Len(r.rest) - 1) : next.rest[i] = r.rest[i + 1]
                     /\ next.inst = r.inst /\ next.alone = r.alone /\ next.manual = r.manual
                     /\ next.prev = r.prev /\ next.found = r.found
<1> DEFINE op == r.rest[1]
           next == [r EXCEPT !.rest = Tail(@), !.kind = op.kind, !.held = {}, !.was = FALSE]
<1>0. r.rest \in Rests
  BY DEF Task, Rests
<1>1. CASE r.rest = <<>>
  <2>1. Idle \in Task
    BY RestOK DEF Idle, Task, Absent, NewServer, Server, Steps, Results, Busy, Rests
  <2>2. QED BY <1>1, <2>1 DEF Advance
<1>2. CASE r.rest # <<>>
  <2>1. /\ Head(r.rest) = op /\ op \in Op /\ Tail(r.rest) \in Rests
        /\ DOMAIN Tail(r.rest) = 1 .. (Len(r.rest) - 1)
        /\ \A i \in 1 .. (Len(r.rest) - 1) : Tail(r.rest)[i] = r.rest[i + 1]
    BY <1>0, <1>2, RestOK
  <2>2. op.kind \in Kinds \cup {"server"}
    BY <2>1, OpOK
  <2>3. next \in Task
    BY <2>1, <2>2 DEF Task, Rests
  <2>4. Advance(r) = CASE op.do = "open" -> [next EXCEPT !.pc = "find"]
               [] op.do = "resolve" -> [next EXCEPT !.pc = "seek"]
               [] op.do = "check" -> [next EXCEPT !.pc = "check", !.rescue = FALSE]
    BY <1>2, <2>1 DEF Advance
  <2>5. {"find", "seek", "check"} \subseteq Steps
    BY DEF Steps, IncidentSteps
  <2>6. op.do \in {"open", "resolve", "check"}
    BY <2>1 DEF Op
  <2>7. op.do = "check" => op = Checking
    BY <2>1, OpOK DEF Checking
  <2>8. op.do # "check" => op.kind \in Kinds
    BY <2>1 DEF Op
  <2>9. next.rest = Tail(r.rest) /\ next.kind = op.kind /\ next.held = {} /\ next.inst = r.inst
        /\ next.alone = r.alone /\ next.manual = r.manual /\ next.prev = r.prev /\ next.found = r.found
    BY DEF Task
  <2> HIDE DEF next
  <2>10. CASE op.do = "open"
    <3>1. Advance(r) = [next EXCEPT !.pc = "find"]
      BY <2>4, <2>10
    <3>2. [next EXCEPT !.pc = "find"] \in Task
      BY <2>3, <2>5 DEF Task
    <3>3. QED BY <1>2, <2>1, <2>3, <2>8, <2>9, <2>10, <3>1, <3>2 DEF Task
  <2>11. CASE op.do = "resolve"
    <3>1. Advance(r) = [next EXCEPT !.pc = "seek"]
      BY <2>4, <2>11
    <3>2. [next EXCEPT !.pc = "seek"] \in Task
      BY <2>3, <2>5 DEF Task
    <3>3. QED BY <1>2, <2>1, <2>3, <2>8, <2>9, <2>11, <3>1, <3>2 DEF Task
  <2>12. CASE op.do = "check"
    <3>1. Advance(r) = [next EXCEPT !.pc = "check", !.rescue = FALSE]
      BY <2>4, <2>12
    <3>2. [next EXCEPT !.pc = "check", !.rescue = FALSE] \in Task
      BY <2>3, <2>5 DEF Task
    <3>3. QED BY <1>2, <2>1, <2>3, <2>7, <2>9, <2>12, <3>1, <3>2 DEF Task
  <2>13. QED BY <2>6, <2>10, <2>11, <2>12
<1>3. QED BY <1>1, <1>2

-----------------------------------------------------------------------------
(* Types *)

LEMMA IdleOK == Idle \in Task /\ ShapeOf(Idle) /\ Absent \in Server /\ NewServer \in Server
                /\ NoJob \in Job /\ NoRow \in Incident
<1>1. Absent \in Server /\ NewServer \in Server
  BY DEF Absent, NewServer, Server, Busy
<1>2. Idle \in Task
  BY <1>1, RestOK DEF Idle, Task, Steps, Results, Busy, Rests
<1>3. ShapeOf(Idle)
  BY DEF Idle, ShapeOf, IncidentSteps, InstallSteps, Busy
<1>4. NoJob \in Job
  BY DEF NoJob, Job
<1>5. NoRow \in Incident
  BY DEF NoRow, Incident
<1>6. QED BY <1>1, <1>2, <1>3, <1>4, <1>5

\* instance.update(), field by field.
LEMMA SaveOK ==
    ASSUME server \in Server, NEW before \in Server, NEW after \in Server, Save(before, after)
    PROVE  /\ server' \in Server
           /\ server'.status = IF before.status = after.status THEN server.status ELSE after.status
           /\ server'.health = IF before.health = after.health THEN server.health ELSE after.health
           /\ before = server => server' = after
<1>1. DOMAIN before = {"status", "health"}
  BY DEF Server
<1>2. server' = [f \in {"status", "health"} |-> IF before[f] = after[f] THEN server[f] ELSE after[f]]
  BY <1>1 DEF Save
<1>3. server' = [status |-> IF before.status = after.status THEN server.status ELSE after.status,
                 health |-> IF before.health = after.health THEN server.health ELSE after.health]
  BY <1>2 DEF Server
<1>4. QED BY <1>3 DEF Server

LEMMA PutOK ==
    ASSUME TypeOK, Shape, NEW t \in Tasks, NEW r \in Task, ShapeOf(r),
           task' = [task EXCEPT ![t] = r]
    PROVE  task' \in [Tasks -> Task] /\ Shape'
<1>1. task' \in [Tasks -> Task]
  BY DEF TypeOK
<1>2. \A o \in Tasks : task'[o] = IF o = t THEN r ELSE task[o]
  BY DEF TypeOK
<1>3. QED BY <1>1, <1>2 DEF Shape

LEMMA GotoOK ==
    ASSUME TypeOK, Shape, NEW t \in Tasks, NEW step \in Steps \ {"idle", "patch"}, Goto(t, step),
           step \in IncidentSteps => task[t].kind \in Kinds,
           step \in {"mail", "send", "notify", "recover"} => task[t].kind \in Alerting,
           task[t].held # {} => step \in {"mail", "send", "notify", "close", "recover"},
           step \in InstallSteps => ~task[t].rescue,
           step \in InstallSteps \ {"i_broken", "i_done"} => task[t].inst.status = "installing"
    PROVE  task' \in [Tasks -> Task] /\ Shape'
<1> DEFINE r == [task[t] EXCEPT !.pc = step]
<1>1. task' = [task EXCEPT ![t] = r]
  BY DEF Goto
<1>2. task[t] \in Task /\ ShapeOf(task[t])
  BY DEF TypeOK, Shape
<1>3. /\ r \in Task /\ r.pc = step /\ r.kind = task[t].kind /\ r.held = task[t].held
      /\ r.manual = task[t].manual /\ r.prev = task[t].prev /\ r.inst = task[t].inst
      /\ r.rescue = task[t].rescue
  BY <1>2 DEF Task
<1>4. ShapeOf(r)
  BY <1>2, <1>3 DEF ShapeOf
<1>5. QED BY <1>1, <1>3, <1>4, PutOK

LEMMA AdvanceShape ==
    ASSUME NEW r \in Task, ~r.manual => r.prev \notin Busy
    PROVE  Advance(r) \in Task /\ ShapeOf(Advance(r))
<1>1. CASE r.rest = <<>>
  BY <1>1, AdvanceOK, IdleOK
<1>2. CASE r.rest # <<>>
  BY <1>2, AdvanceOK DEF ShapeOf, IncidentSteps, InstallSteps
<1>3. QED BY <1>1, <1>2

LEMMA SettleOK ==
    ASSUME TypeOK, Shape, NEW t \in Tasks, Settle(t)
    PROVE  task' \in [Tasks -> Task] /\ Shape'
<1>1. task[t] \in Task /\ ShapeOf(task[t])
  BY DEF TypeOK, Shape
<1>2. Advance(task[t]) \in Task /\ ShapeOf(Advance(task[t]))
  BY <1>1, AdvanceShape DEF ShapeOf
<1>3. task' = [task EXCEPT ![t] = Advance(task[t])]
  BY DEF Settle
<1>4. QED BY <1>2, <1>3, PutOK

LEMMA DisturbOK ==
    ASSUME TypeOK, NEW lost, Disturb(lost)
    PROVE  /\ incident' \in [Kinds -> [Rows -> Incident]]
           /\ blurred' = Blurred /\ blurred' \subseteq Kinds \cup {"status"}
           /\ \A k \in Kinds, n \in Rows : incident'[k][n] =
                 IF incident[k][n].state = "resolved" /\ \E t \in lost : task[t].kind = k /\ n \in task[t].held
                 THEN NoRow
                 ELSE IF incident[k][n].state = "open" THEN [incident[k][n] EXCEPT !.calm = FALSE]
                 ELSE incident[k][n]
           /\ \A k \in Kinds, n \in Rows : incident'[k][n] \in Incident
<1>1. ASSUME NEW k \in Kinds
      PROVE  /\ incident'[k] = [n \in Rows |->
                 IF incident[k][n].state = "resolved" /\ \E t \in lost : task[t].kind = k /\ n \in task[t].held
                 THEN NoRow
                 ELSE IF incident[k][n].state = "open" THEN [incident[k][n] EXCEPT !.calm = FALSE]
                 ELSE incident[k][n]]
  BY DEF Disturb, Ruffled, Open
<1>2. ASSUME NEW k \in Kinds, NEW n \in Rows PROVE incident'[k][n] \in Incident
  <2>1. incident[k][n] \in Incident
    BY DEF TypeOK
  <2>2. [incident[k][n] EXCEPT !.calm = FALSE] \in Incident
    BY <2>1 DEF Incident
  <2>3. QED BY <1>1, <2>1, <2>2, IdleOK, ZenonT(60)
<1>3. \A k \in Kinds : incident'[k] \in [Rows -> Incident]
  BY <1>1, <1>2
<1>4. incident' \in [Kinds -> [Rows -> Incident]]
  <2>1. incident' = [k \in Kinds |-> Ruffled(k, lost)]
    BY DEF Disturb
  <2>2. QED BY <2>1, <1>3
<1>5. \A k \in Kinds, n \in Rows : incident'[k][n] =
          IF incident[k][n].state = "resolved" /\ \E t \in lost : task[t].kind = k /\ n \in task[t].held
          THEN NoRow
          ELSE IF incident[k][n].state = "open" THEN [incident[k][n] EXCEPT !.calm = FALSE]
          ELSE incident[k][n]
  BY <1>1, ZenonT(60)
<1>6. blurred' = Blurred /\ blurred' \subseteq Kinds \cup {"status"}
  BY DEF Disturb, Blurred
<1>7. QED BY <1>2, <1>4, <1>5, <1>6

LEMMA BeginOK ==
    ASSUME TypeOK, Shape, NEW t \in Tasks, NEW r \in Task, ShapeOf(r), r.pc # "idle", Begin(t, r)
    PROVE  /\ task' \in [Tasks -> Task] /\ Shape'
           /\ incident' \in [Kinds -> [Rows -> Incident]]
           /\ blurred' \subseteq Kinds \cup {"status"}
<1>1. CASE Quiet
  BY <1>1, PutOK DEF Begin, TypeOK
<1>2. CASE ~Quiet
  <2>1. task' = [o \in Tasks |-> IF o = t THEN [r EXCEPT !.alone = FALSE]
                                 ELSE IF At(o, "idle") THEN Idle
                                 ELSE [task[o] EXCEPT !.alone = FALSE]]
    BY <1>2 DEF Begin
  <2>2. ASSUME NEW q \in Task, ShapeOf(q), q.pc # "idle"
        PROVE  [q EXCEPT !.alone = FALSE] \in Task /\ ShapeOf([q EXCEPT !.alone = FALSE])
    <3> DEFINE p == [q EXCEPT !.alone = FALSE]
    <3>1. /\ p \in Task /\ p.pc = q.pc /\ p.kind = q.kind /\ p.held = q.held /\ p.found = q.found
          /\ p.manual = q.manual /\ p.prev = q.prev /\ p.inst = q.inst /\ p.rescue = q.rescue
      BY ZenonT(30) DEF Task
    <3>2. QED BY <2>2, <3>1 DEF ShapeOf
  <2>3. ASSUME NEW o \in Tasks PROVE task'[o] \in Task /\ ShapeOf(task'[o])
    BY <2>1, <2>2, IdleOK DEF At, TypeOK, Shape
  <2>4. QED BY <1>2, <2>1, <2>3, DisturbOK DEF Begin, Shape
<1>3. QED BY <1>1, <1>2

LEMMA Least ==
    ASSUME NEW S \in SUBSET Nat, S # {}
    PROVE  \E m \in S : \A o \in S : m <= o
<1>1. PICK m \in S : \A o \in S : <<o, m>> \notin OpToRel(<, Nat)
  BY ZenonT(30), NatLessThanWellFounded, WFMin
<1>2. ASSUME NEW o \in S PROVE m <= o
  <2>1. m \in Nat /\ o \in Nat
    OBVIOUS
  <2>2. ~(o < m)
    BY <1>1, <2>1 DEF OpToRel
  <2>3. QED BY <2>1, <2>2
<1>3. QED BY <1>2

LEMMA SetOK ==
    ASSUME TypeOK, NEW t \in Tasks, task[t].kind \in Kinds,
           NEW field \in {"notified", "told", "recalled"}, incident' = Set(t, field)
    PROVE  /\ incident' \in [Kinds -> [Rows -> Incident]]
           /\ \A k \in Kinds, n \in Rows :
                 LET hit == k = task[t].kind /\ n \in task[t].held /\ incident[k][n].state # "none"
                     r == incident[k][n]
                     q == incident'[k][n]
                 IN  /\ q.state = r.state /\ q.calm = r.calm
                     /\ ~hit => q = r
                     /\ q.told <=> r.told \/ (hit /\ field = "told")
                     /\ q.notified <=> r.notified \/ (hit /\ field = "notified")
                     /\ q.recalled <=> r.recalled \/ (hit /\ field = "recalled")
<1> DEFINE row(k, n) == IF n \in task[t].held /\ incident[k][n].state # "none"
                        THEN [incident[k][n] EXCEPT ![field] = TRUE] ELSE incident[k][n]
<1>1. ASSUME NEW k \in Kinds, NEW n \in Rows PROVE row(k, n) \in Incident
  <2>1. incident[k][n] \in Incident
    BY DEF TypeOK
  <2>2. [incident[k][n] EXCEPT !.notified = TRUE] \in Incident
        /\ [incident[k][n] EXCEPT !.told = TRUE] \in Incident
        /\ [incident[k][n] EXCEPT !.recalled = TRUE] \in Incident
    BY <2>1 DEF Incident
  <2>3. QED BY <2>1, <2>2
<1>2. incident' = [incident EXCEPT ![task[t].kind] = [n \in Rows |-> row(task[t].kind, n)]]
  BY DEF Set, TypeOK
<1>3. [n \in Rows |-> row(task[t].kind, n)] \in [Rows -> Incident]
  BY <1>1
<1> HIDE DEF row
<1>4. incident' \in [Kinds -> [Rows -> Incident]]
  BY <1>2, <1>3 DEF TypeOK
<1>5. \A k \in Kinds, n \in Rows :
          incident'[k][n] = IF k = task[t].kind THEN row(k, n) ELSE incident[k][n]
  BY <1>2 DEF TypeOK
<1>6. ASSUME NEW k \in Kinds, NEW n \in Rows
      PROVE  LET hit == n \in task[t].held /\ incident[k][n].state # "none"
                 r == incident[k][n]
                 q == row(k, n)
             IN  /\ q.state = r.state /\ q.calm = r.calm
                 /\ ~hit => q = r
                 /\ q.told <=> r.told \/ (hit /\ field = "told")
                 /\ q.notified <=> r.notified \/ (hit /\ field = "notified")
                 /\ q.recalled <=> r.recalled \/ (hit /\ field = "recalled")
  <2>1. incident[k][n] \in Incident
    BY DEF TypeOK
  <2>2. CASE field = "told"
    BY <2>1, <2>2 DEF Incident, row
  <2>3. CASE field = "notified"
    BY <2>1, <2>3 DEF Incident, row
  <2>4. CASE field = "recalled"
    BY <2>1, <2>4 DEF Incident, row
  <2>5. QED BY <2>2, <2>3, <2>4
<1>7. QED BY <1>4, <1>5, <1>6

LEMMA ForgetOK ==
    ASSUME TypeOK, NEW t \in Tasks, task[t].kind \in Kinds, incident' = Forget(t)
    PROVE  /\ incident' \in [Kinds -> [Rows -> Incident]]
           /\ \A k \in Kinds, n \in Rows : incident'[k][n] =
                 IF k = task[t].kind /\ n \in task[t].held /\ incident[k][n].state = "resolved"
                 THEN NoRow ELSE incident[k][n]
<1> DEFINE row(k, n) == IF n \in task[t].held /\ incident[k][n].state = "resolved"
                        THEN NoRow ELSE incident[k][n]
<1>1. ASSUME NEW k \in Kinds, NEW n \in Rows PROVE row(k, n) \in Incident
  <2>1. incident[k][n] \in Incident
    BY DEF TypeOK
  <2>2. NoRow \in Incident
    BY DEF NoRow, Incident
  <2>3. QED BY <2>1, <2>2
<1>2. incident' = [incident EXCEPT ![task[t].kind] = [n \in Rows |-> row(task[t].kind, n)]]
  BY DEF Forget, TypeOK
<1>3. [n \in Rows |-> row(task[t].kind, n)] \in [Rows -> Incident]
  BY <1>1
<1>4. incident' \in [Kinds -> [Rows -> Incident]]
  BY <1>2, <1>3 DEF TypeOK
<1>5. \A k \in Kinds, n \in Rows :
          incident'[k][n] = IF k = task[t].kind THEN row(k, n) ELSE incident[k][n]
  BY <1>2 DEF TypeOK
<1>6. QED BY <1>4, <1>5

\* An insert takes a row nobody has and nobody holds.
LEMMA CreateOK ==
    ASSUME TypeOK, NEW t \in Tasks, task[t].kind \in Kinds, CreateIncident(t)
    PROVE  \E m \in Rows :
        LET k == task[t].kind
            new == [NoRow EXCEPT !.state = "open", !.calm = task[t].alone]
        IN  /\ incident[k][m].state = "none"
            /\ \A o \in Tasks : task[o].kind = k => m \notin task[o].held
            /\ new \in Incident
            /\ incident' \in [Kinds -> [Rows -> Incident]]
            /\ \A j \in Kinds, n \in Rows :
                  incident'[j][n] = IF j = k /\ n = m THEN new ELSE incident[j][n]
            /\ IF k \in Alerting
               THEN /\ task' = [task EXCEPT ![t] = [@ EXCEPT !.pc = "mail", !.held = {m}]]
                    /\ UNCHANGED blurred
               ELSE Settle(t)
<1> DEFINE k == task[t].kind
           free == {n \in Rows : /\ incident[k][n].state = "none"
                                 /\ \A o \in Tasks : task[o].kind = k => n \notin task[o].held}
           m == CHOOSE n \in free : \A o \in free : n <= o
           new == [NoRow EXCEPT !.state = "open", !.calm = task[t].alone]
<1>1. m \in free
  <2>1. free # {} /\ free \in SUBSET Nat
    BY SMTT(40) DEF CreateIncident, Rows
  <2>2. \E n \in free : \A o \in free : n <= o
    BY <2>1, Least
  <2>3. QED BY SMTT(30), <2>2
<1>2. /\ incident' = [incident EXCEPT ![k][m] = new]
      /\ IF k \in Alerting
         THEN /\ task' = [task EXCEPT ![t].pc = "mail", ![t].held = {m}]
              /\ UNCHANGED blurred
         ELSE Settle(t)
  BY DEF CreateIncident
<1>3. task[t].alone \in BOOLEAN
  BY DEF TypeOK, Task
<1>4. new \in Incident
  BY <1>3, IdleOK DEF Incident
<1> HIDE DEF m, new
<1>5. \A j \in Kinds, n \in Rows :
          incident'[j][n] = IF j = k /\ n = m THEN new ELSE incident[j][n]
  BY <1>1, <1>2 DEF TypeOK
<1>6. incident' \in [Kinds -> [Rows -> Incident]]
  BY <1>1, <1>2, <1>4 DEF TypeOK
<1>7. [task EXCEPT ![t].pc = "mail", ![t].held = {m}]
        = [task EXCEPT ![t] = [@ EXCEPT !.pc = "mail", !.held = {m}]]
  BY DEF TypeOK
<1>8. QED BY ZenonT(30), <1>1, <1>2, <1>4, <1>5, <1>6, <1>7 DEF new

LEMMA TypeInit == Init => TypeOK /\ Shape
<1> SUFFICES ASSUME Init PROVE TypeOK /\ Shape
  OBVIOUS
<1>1. TypeOK
  <2>1. server \in Server /\ job \in Job /\ task \in [Tasks -> Task]
    BY IdleOK DEF Init
  <2>2. incident \in [Kinds -> [Rows -> Incident]]
    BY IdleOK DEF Init
  <2>3. up \in BOOLEAN /\ tested \in Results /\ lastSent \subseteq Alerting /\ renewal \in Results
    BY DEF Init, Results
  <2>4. blurred \subseteq Kinds \cup {"status"} /\ orphaned \in BOOLEAN
    BY DEF Init
  <2>5. faults \in 0 .. MaxFaults
    BY DEF Init
  <2>6. QED BY <2>1, <2>2, <2>3, <2>4, <2>5 DEF TypeOK
<1>2. Shape
  BY IdleOK DEF Init, Shape
<1>3. QED BY <1>1, <1>2

\* What a task does beside the incidents.
LEMMA TypeStart ==
    ASSUME TypeOK, Shape, NEW t \in Tasks,
           \/ StartCheck(t) \/ (\E manual \in BOOLEAN : StartRenewal(t, manual))
           \/ StartTest(t) \/ Install(t)
    PROVE  TypeOK' /\ Shape'
<1>1. CASE StartCheck(t)
  <2> DEFINE r == [Idle EXCEPT !.pc = "check", !.inst = server]
  <2>1. r \in Task
    BY IdleOK DEF TypeOK, Task, Steps
  <2>2. ShapeOf(r) /\ r.pc # "idle"
    BY IdleOK DEF ShapeOf, Idle, Busy, IncidentSteps, InstallSteps
  <2>3. Begin(t, r)
    BY <1>1 DEF StartCheck
  <2>4. QED BY <1>1, <2>1, <2>2, <2>3, BeginOK DEF StartCheck, TypeOK
<1>2. ASSUME NEW manual \in BOOLEAN, StartRenewal(t, manual) PROVE TypeOK' /\ Shape'
  <2> DEFINE r == [Idle EXCEPT !.pc = "mark", !.inst = server, !.manual = manual, !.rescue = TRUE,
                               !.prev = IF manual THEN "online" ELSE server.status]
  <2>0. server.status \in {"online", "error"} \cup Busy /\ (manual \/ server.status \notin Busy)
    BY ZenonT(30), <1>2 DEF StartRenewal, TypeOK, Server
  <2>1. r \in Task
    BY <2>0, IdleOK DEF TypeOK, Task, Steps, RenewSteps
  <2>2. ShapeOf(r) /\ r.pc # "idle"
    BY <2>0, IdleOK DEF ShapeOf, Idle, Busy, IncidentSteps, InstallSteps
  <2>3. Begin(t, r)
    BY ZenonT(30), <1>2 DEF StartRenewal
  <2>4. QED BY ZenonT(30), <1>2, <2>1, <2>2, <2>3, BeginOK DEF StartRenewal, TypeOK
<1>3. CASE StartTest(t)
  <2> DEFINE r == [Idle EXCEPT !.pc = "record", !.seen = tested]
  <2>1. r \in Task
    BY IdleOK DEF TypeOK, Task, Steps
  <2>2. ShapeOf(r) /\ r.pc # "idle"
    BY IdleOK DEF ShapeOf, Idle, Busy, IncidentSteps, InstallSteps
  <2>3. Begin(t, r)
    BY <1>3 DEF StartTest
  <2>4. QED BY <1>3, <2>1, <2>2, <2>3, BeginOK DEF StartTest, TypeOK
<1>4. CASE Install(t)
  <2> DEFINE inst == [Absent EXCEPT !.status = "installing"]
             r == [Idle EXCEPT !.pc = "i_job", !.inst = inst]
  <2>1. inst \in Server /\ inst.status = "installing"
    BY DEF Absent, NewServer, Server, Busy
  <2>2. r \in Task
    BY <2>1, IdleOK DEF TypeOK, Task, Steps, InstallSteps
  <2>3. ShapeOf(r) /\ r.pc # "idle"
    BY <2>1, IdleOK DEF ShapeOf, Idle, Busy, IncidentSteps, InstallSteps
  <2>4. Begin(t, r)
    BY <1>4 DEF Install
  <2>5. QED BY <1>4, <2>1, <2>2, <2>3, <2>4, BeginOK DEF Install, TypeOK
<1>5. QED BY <1>1, <1>2, <1>3, <1>4

\* What the probes find, and what there is to do about it.
LEMMA CheckOpsOK ==
    ASSUME NEW ssh \in BOOLEAN, up \in BOOLEAN
    PROVE  /\ Outcome(ssh) \in Findings /\ Outcome(ssh) \in Server
           /\ CheckOps(ssh) \in Rests
           /\ \A i \in DOMAIN CheckOps(ssh) :
                 CheckOps(ssh)[i] \in Op /\
                 CheckOps(ssh)[i] \in {IF up THEN Resolving("trojan") ELSE Opening("trojan"),
                                       IF ssh THEN Resolving("ssh") ELSE Opening("ssh")}
           /\ \A k \in Kinds \cap {"trojan", "ssh"} :
                 \E i \in DOMAIN CheckOps(ssh) : CheckOps(ssh)[i].kind = k
<1> DEFINE a == IF up THEN Resolving("trojan") ELSE Opening("trojan")
           b == IF ssh THEN Resolving("ssh") ELSE Opening("ssh")
<1>1. Outcome(ssh) \in Findings /\ Outcome(ssh) \in Server
  BY DEF Outcome, Findings, Server
<1>2. a.kind = "trojan" /\ b.kind = "ssh"
  BY DEF Opening, Resolving
<1>3. /\ a.kind \in Kinds \cup {"server"} => a \in Op
      /\ b.kind \in Kinds \cup {"server"} => b \in Op
  BY <1>2, OpOK
<1>4. CheckOps(ssh) = Due(a) \o Due(b)
  BY DEF CheckOps
<1> HIDE DEF a, b
<1>5. /\ Due(a) \o Due(b) \in Rests
      /\ \A i \in DOMAIN (Due(a) \o Due(b)) : (Due(a) \o Due(b))[i] \in {a, b} \cap Op
      /\ a.kind \in Kinds => \E i \in DOMAIN (Due(a) \o Due(b)) : (Due(a) \o Due(b))[i] = a
      /\ b.kind \in Kinds => Len(Due(a) \o Due(b)) \in DOMAIN (Due(a) \o Due(b))
                             /\ (Due(a) \o Due(b))[Len(Due(a) \o Due(b))] = b
  BY ZenonT(30), <1>3, DueOK
<1>6. ASSUME NEW k \in Kinds \cap {"trojan", "ssh"}
      PROVE  \E i \in DOMAIN CheckOps(ssh) : CheckOps(ssh)[i].kind = k
  BY <1>2, <1>4, <1>5
<1>7. \A i \in DOMAIN CheckOps(ssh) : CheckOps(ssh)[i] \in Op /\ CheckOps(ssh)[i] \in {a, b}
  BY <1>4, <1>5
<1>8. CheckOps(ssh) \in Rests
  BY <1>4, <1>5
<1>9. QED BY <1>1, <1>6, <1>7, <1>8 DEF a, b

\* The steps of a check.
LEMMA TypeCheck ==
    ASSUME TypeOK, Shape, NEW t \in Tasks, CheckStep(t) \/ MailFails(t)
    PROVE  TypeOK' /\ Shape'
<1> DEFINE r == task[t]
<1>0. r \in Task /\ ShapeOf(r) /\ r.rest \in Rests
  BY DEF TypeOK, Shape, Task, Rests
<1>1. CASE Probe(t)
  <2>1. PICK ssh \in BOOLEAN :
          task' = [task EXCEPT ![t] = [@ EXCEPT !.pc = "patch", !.found = Outcome(ssh),
                                                !.rest = CheckOps(ssh)]]
    BY ZenonT(30), <1>1 DEF Probe
  <2> DEFINE q == [r EXCEPT !.pc = "patch", !.found = Outcome(ssh), !.rest = CheckOps(ssh)]
  <2>2. Outcome(ssh) \in Findings /\ Outcome(ssh) \in Server /\ CheckOps(ssh) \in Rests
    BY CheckOpsOK DEF TypeOK
  <2>3. /\ q \in Task /\ q.pc = "patch" /\ q.found = Outcome(ssh) /\ q.held = r.held
        /\ q.manual = r.manual /\ q.prev = r.prev
    BY <1>0, <2>2 DEF Task, Steps, Rests
  <2>4. ShapeOf(q)
    BY <1>0, <1>1, <2>2, <2>3 DEF ShapeOf, IncidentSteps, InstallSteps, Probe, At
  <2>5. QED BY <1>1, <2>1, <2>3, <2>4, PutOK DEF Probe, TypeOK, ghosts
<1>2. CASE Patch(t)
  <2> DEFINE q == [r EXCEPT !.inst = Absent, !.found = Absent]
  <2>1. task' = [task EXCEPT ![t] = Advance(q)] /\ Save(r.inst, r.found)
    BY <1>2 DEF Patch
  <2>2. q \in Task /\ (~q.manual => q.prev \notin Busy)
    BY <1>0, IdleOK DEF Task, ShapeOf
  <2>3. task' \in [Tasks -> Task] /\ Shape'
    BY <2>1, <2>2, AdvanceShape, PutOK
  <2>4. server' \in Server
    BY <1>0, <2>1, SaveOK DEF TypeOK, Task
  <2>5. QED BY <1>2, <2>3, <2>4 DEF Patch, TypeOK
<1>3. CASE FindOpen(t)
  <2>1. CASE Open(r.kind) = {}
    BY <1>0, <1>3, <2>1, GotoOK DEF FindOpen, TypeOK, ShapeOf, Steps, IncidentSteps, InstallSteps, At
  <2>2. CASE Open(r.kind) # {}
    BY <1>3, <2>2, SettleOK DEF FindOpen, TypeOK, Settle
  <2>3. QED BY <2>1, <2>2
<1>4. CASE CreateIncident(t)
  <2>1. r.kind \in Kinds /\ r.pc = "create"
    BY SMTT(30), <1>0, <1>4 DEF CreateIncident, At, ShapeOf, IncidentSteps
  <2>2. PICK m \in Rows :
        /\ incident' \in [Kinds -> [Rows -> Incident]]
        /\ IF r.kind \in Alerting
           THEN /\ task' = [task EXCEPT ![t] = [@ EXCEPT !.pc = "mail", !.held = {m}]]
                /\ UNCHANGED blurred
           ELSE Settle(t)
    BY ZenonT(30), <1>4, <2>1, CreateOK
  <2>3. CASE r.kind \in Alerting
    <3> DEFINE q == [r EXCEPT !.pc = "mail", !.held = {m}]
    <3>1. /\ q \in Task /\ q.pc = "mail" /\ q.kind = r.kind /\ q.manual = r.manual /\ q.prev = r.prev
      BY <1>0 DEF Task, Steps, IncidentSteps
    <3>2. ShapeOf(q)
      BY SMTT(30), <1>0, <2>1, <2>3, <3>1 DEF ShapeOf, IncidentSteps, InstallSteps
    <3>3. QED BY ZenonT(30), <1>4, <2>2, <2>3, <3>1, <3>2, PutOK DEF CreateIncident, TypeOK
  <2>4. CASE r.kind \notin Alerting
    BY <1>4, <2>2, <2>4, SettleOK DEF CreateIncident, TypeOK, Settle
  <2>5. QED BY SMTT(30), <2>3, <2>4
<1>5. CASE BeginMail(t)
  <2>0. r.pc = "mail" /\ r.kind \in Alerting /\ r.kind \in Kinds
    BY <1>0, <1>5 DEF BeginMail, At, ShapeOf, IncidentSteps
  <2>1. CASE r.kind \in lastSent
    BY <1>5, <2>1, SettleOK DEF BeginMail, TypeOK, Settle
  <2>2. CASE r.kind \notin lastSent
    <3>1. Goto(t, "send")
      BY <1>5, <2>2 DEF BeginMail
    <3>2. task' \in [Tasks -> Task] /\ Shape'
      BY <2>0, <3>1, GotoOK DEF Steps, IncidentSteps, InstallSteps
    <3>3. QED BY <1>5, <2>0, <2>2, <3>2 DEF BeginMail, TypeOK
  <2>3. QED BY <2>1, <2>2
<1>6. CASE MailAccepted(t)
  <2>0. r.pc = "send" /\ r.kind \in Alerting /\ r.kind \in Kinds
    BY <1>0, <1>6 DEF MailAccepted, At, ShapeOf, IncidentSteps
  <2>1. task' \in [Tasks -> Task] /\ Shape'
    BY <1>6, <2>0, GotoOK DEF MailAccepted, Steps, IncidentSteps, InstallSteps
  <2>2. incident' \in [Kinds -> [Rows -> Incident]]
    BY <1>6, <2>0, SetOK DEF MailAccepted
  <2>3. QED BY <1>6, <2>1, <2>2 DEF MailAccepted, TypeOK, ghosts
<1>7. CASE MarkNotified(t)
  <2>0. r.pc = "notify" /\ r.kind \in Alerting /\ r.kind \in Kinds
    BY <1>0, <1>7 DEF MarkNotified, At, ShapeOf, IncidentSteps
  <2>1. task' \in [Tasks -> Task] /\ Shape'
    BY <1>7, <2>0, SettleOK DEF MarkNotified
  <2>2. incident' \in [Kinds -> [Rows -> Incident]]
    BY <1>7, <2>0, SetOK DEF MarkNotified
  <2>3. QED BY <1>7, <2>1, <2>2 DEF MarkNotified, TypeOK, Settle
<1>8. CASE FindAllOpen(t)
  <2>0. r.pc = "seek" /\ r.kind \in Kinds
    BY <1>0, <1>8 DEF FindAllOpen, At, ShapeOf, IncidentSteps
  <2>1. CASE Open(r.kind) = {}
    BY <1>8, <2>1, SettleOK DEF FindAllOpen, TypeOK, Settle
  <2>2. CASE Open(r.kind) # {}
    <3> DEFINE was == \E n \in Open(r.kind) : incident[r.kind][n].notified
               q == [r EXCEPT !.pc = "close", !.held = Open(r.kind), !.was = was]
    <3>1. task' = [task EXCEPT ![t].pc = "close", ![t].held = Open(r.kind), ![t].was = was]
      BY <1>8, <2>2 DEF FindAllOpen
    <3>2. task' = [task EXCEPT ![t] = q]
      BY <3>1 DEF TypeOK
    <3>3. Open(r.kind) \in SUBSET Rows /\ was \in BOOLEAN
      BY DEF Open
    <3> HIDE DEF was
    <3>4. /\ q \in Task /\ q.pc = "close" /\ q.kind = r.kind /\ q.manual = r.manual /\ q.prev = r.prev
      BY ZenonT(30), <1>0, <3>3 DEF Task, Steps, IncidentSteps
    <3>5. ShapeOf(q)
      BY <1>0, <2>0, <3>4 DEF ShapeOf, IncidentSteps, InstallSteps
    <3>6. QED BY <1>8, <2>2, <3>2, <3>4, <3>5, PutOK DEF FindAllOpen, TypeOK
  <2>3. QED BY <2>1, <2>2
<1>9. ASSUME NEW n \in Rows, CloseIncident(t, n) PROVE TypeOK' /\ Shape'
  <2>0. r.kind \in Kinds
    BY <1>0, <1>9 DEF CloseIncident, At, ShapeOf, IncidentSteps
  <2>1. [incident[r.kind][n] EXCEPT !.state = "resolved"] \in Incident
    <3>1. incident[r.kind][n] \in Incident
      BY <2>0, ZenonT(60) DEF TypeOK
    <3>2. QED BY <3>1 DEF Incident
  <2>2. incident' \in [Kinds -> [Rows -> Incident]]
    BY <1>9, <2>0, <2>1 DEF CloseIncident, TypeOK
  <2>3. QED BY <1>9, <2>2 DEF CloseIncident, TypeOK, Shape, ghosts
<1>10. CASE AllClosed(t)
  <2>0. r.pc = "close" /\ r.kind \in Kinds
    BY <1>0, <1>10 DEF AllClosed, At, ShapeOf, IncidentSteps
  <2>1. CASE r.kind \in Alerting /\ r.was
    <3>1. task' \in [Tasks -> Task] /\ Shape'
      BY <1>10, <2>0, <2>1, GotoOK DEF AllClosed, Steps, IncidentSteps, InstallSteps
    <3>2. incident' \in [Kinds -> [Rows -> Incident]]
      BY <1>10, <2>0, <2>1, SetOK DEF AllClosed
    <3>3. QED BY <1>10, <2>1, <3>1, <3>2 DEF AllClosed, TypeOK
  <2>2. CASE ~(r.kind \in Alerting /\ r.was)
    <3>1. incident' = Forget(t) /\ Settle(t)
      BY <1>10, <2>2 DEF AllClosed
    <3>2. QED BY <1>10, <2>0, <3>1, ForgetOK, SettleOK DEF AllClosed, TypeOK, Settle
  <2>3. QED BY <2>1, <2>2
<1>11. CASE MailRecovery(t)
  <2>0. r.pc = "recover" /\ r.kind \in Kinds
    BY <1>0, <1>11 DEF MailRecovery, At, ShapeOf, IncidentSteps
  <2>1. QED BY <1>11, <2>0, ForgetOK, SettleOK DEF MailRecovery, TypeOK, Settle
<1>12. CASE MailFails(t)
  <2>1. task' \in [Tasks -> Task] /\ Shape'
    BY <1>12, SettleOK DEF MailFails
  <2>2. faults' \in 0 .. MaxFaults
    BY <1>12 DEF MailFails, Fault, TypeOK
  <2>3. QED BY <1>12, <2>1, <2>2 DEF MailFails, TypeOK, Settle
<1>13. QED BY <1>1, <1>2, <1>3, <1>4, <1>5, <1>6, <1>7, <1>8, <1>9, <1>10, <1>11, <1>12 DEF CheckStep

Others(t) == \A o \in Tasks : o # t => task'[o] = task[o]

\* The end of a renewal: what it writes and what comes next.
LEMMA EndRenewalOK ==
    ASSUME TypeOK, Shape, NEW t \in Tasks, NEW status \in {"online", "error"}, NEW ops \in Rests,
           NEW rescue \in BOOLEAN, EndRenewal(t, status, ops, rescue)
    PROVE  \E after \in Server, q \in Task :
               /\ after.status =
                     IF task[t].manual \/ task[t].prev = "renewing_ssl" THEN status ELSE task[t].prev
               /\ after.status \in {"online", "error"} /\ after.health = task[t].inst.health
               /\ q.rest = ops /\ q.inst = after /\ q.alone = task[t].alone
               /\ ~q.manual /\ q.prev = "online"
               /\ Save(task[t].inst, after)
               /\ task'[t] = Advance(q) /\ Others(t)
<1> DEFINE r == task[t]
           s == IF r.manual \/ r.prev = "renewing_ssl" THEN status ELSE r.prev
           after == [r.inst EXCEPT !.status = s]
           q == [r EXCEPT !.inst = after, !.rest = ops, !.rescue = rescue,
                          !.prev = "online", !.manual = FALSE]
<1>0. r \in Task /\ ShapeOf(r)
  BY DEF TypeOK, Shape
<1>1. s \in {"online", "error"}
  BY <1>0 DEF ShapeOf, Task, Busy
<1>2. after \in Server /\ after.status = s /\ after.health = r.inst.health
  BY <1>0, <1>1 DEF Task, Server
<1> HIDE DEF after
<1>3. q \in Task /\ q.rest = ops /\ q.inst = after /\ q.alone = r.alone /\ ~q.manual /\ q.prev = "online"
  BY ZenonT(30), <1>0, <1>2 DEF Task, Rests
<1>4. Save(r.inst, after) /\ task' = [task EXCEPT ![t] = Advance(q)]
  BY DEF EndRenewal, after
<1> HIDE DEF q
<1>5. task'[t] = Advance(q) /\ Others(t)
  BY <1>4 DEF TypeOK, Others
<1>6. QED BY <1>1, <1>2, <1>3, <1>4, <1>5

LEMMA EndRenewalType ==
    ASSUME TypeOK, Shape, NEW t \in Tasks, NEW status \in {"online", "error"}, NEW ops \in Rests,
           NEW rescue \in BOOLEAN, EndRenewal(t, status, ops, rescue)
    PROVE  task' \in [Tasks -> Task] /\ Shape' /\ server' \in Server
<1>0. task[t] \in Task /\ ShapeOf(task[t]) /\ server \in Server
  BY DEF TypeOK, Shape
<1>1. PICK after \in Server, q \in Task :
          /\ ~q.manual /\ q.prev = "online"
          /\ Save(task[t].inst, after)
          /\ task'[t] = Advance(q) /\ Others(t)
  BY EndRenewalOK
<1>2. Advance(q) \in Task /\ ShapeOf(Advance(q))
  BY <1>0, <1>1, AdvanceShape DEF ShapeOf, Busy
<1>3. \E r : task' = [task EXCEPT ![t] = r]
  BY DEF EndRenewal
<1>4. task' = [task EXCEPT ![t] = Advance(q)]
  BY <1>1, <1>3 DEF TypeOK
<1>5. task' \in [Tasks -> Task] /\ Shape'
  BY <1>2, <1>4, PutOK
<1>6. server' \in Server
  BY <1>0, <1>1, SaveOK DEF Task
<1>7. QED BY <1>5, <1>6

LEMMA RenewalOpsOK ==
    /\ Due(Resolving("cert")) \o <<Checking>> \in Rests
    /\ Due(Opening("cert")) \o <<Checking>> \in Rests
    /\ Due(Opening("cert")) \o <<>> \in Rests
    /\ \A i \in DOMAIN (Due(Resolving("cert")) \o <<Checking>>) :
          (Due(Resolving("cert")) \o <<Checking>>)[i] \in {Resolving("cert"), Checking}
    /\ \A i \in DOMAIN (Due(Opening("cert")) \o <<Checking>>) :
          (Due(Opening("cert")) \o <<Checking>>)[i] \in {Opening("cert"), Checking}
    /\ \A i \in DOMAIN (Due(Opening("cert")) \o <<>>) :
          (Due(Opening("cert")) \o <<>>)[i] = Opening("cert")
    /\ \E i \in DOMAIN (Due(Resolving("cert")) \o <<Checking>>) :
          (Due(Resolving("cert")) \o <<Checking>>)[i] = Checking
    /\ \E i \in DOMAIN (Due(Opening("cert")) \o <<Checking>>) :
          (Due(Opening("cert")) \o <<Checking>>)[i] = Checking
    /\ "cert" \in Kinds =>
          /\ 1 \in DOMAIN (Due(Resolving("cert")) \o <<Checking>>)
          /\ (Due(Resolving("cert")) \o <<Checking>>)[1] = Resolving("cert")
          /\ 1 \in DOMAIN (Due(Opening("cert")) \o <<Checking>>)
          /\ (Due(Opening("cert")) \o <<Checking>>)[1] = Opening("cert")
          /\ 1 \in DOMAIN (Due(Opening("cert")) \o <<>>)
          /\ (Due(Opening("cert")) \o <<>>)[1] = Opening("cert")
<1>1. Due(Checking) = <<Checking>> /\ Checking.kind = "server"
  BY DEF Due, Checking
<1>2. ASSUME NEW a \in {Opening("cert"), Resolving("cert")}
      PROVE  /\ Due(a) \o <<Checking>> \in Rests /\ Due(a) \in Rests
             /\ \A i \in DOMAIN (Due(a) \o <<Checking>>) : (Due(a) \o <<Checking>>)[i] \in {a, Checking}
             /\ \A i \in DOMAIN Due(a) : Due(a)[i] = a
             /\ \E i \in DOMAIN (Due(a) \o <<Checking>>) : (Due(a) \o <<Checking>>)[i] = Checking
             /\ "cert" \in Kinds =>
                   /\ 1 \in DOMAIN (Due(a) \o <<Checking>>) /\ (Due(a) \o <<Checking>>)[1] = a
                   /\ Due(a) = <<a>>
  <2>1. a.kind = "cert"
    BY DEF Opening, Resolving
  <2>2. /\ a.kind \in Kinds \cup {"server"} => a \in Op
        /\ Checking.kind \in Kinds \cup {"server"} => Checking \in Op
    BY <2>1, OpOK
  <2>3. /\ Due(a) \o Due(Checking) \in Rests /\ Due(a) \in Rests
        /\ \A i \in DOMAIN (Due(a) \o Due(Checking)) : (Due(a) \o Due(Checking))[i] \in {a, Checking} \cap Op
        /\ \A i \in DOMAIN Due(a) : Due(a)[i] = a
        /\ a.kind \in Kinds \cup {"server"} =>
              /\ 1 \in DOMAIN (Due(a) \o Due(Checking)) /\ (Due(a) \o Due(Checking))[1] = a
              /\ Due(a) = <<a>>
        /\ Checking.kind \in Kinds \cup {"server"} =>
              LET r == Due(a) \o Due(Checking)
              IN  Len(r) \in DOMAIN r /\ r[Len(r)] = Checking
    BY <2>2, DueOK
  <2>4. QED BY <1>1, <2>1, <2>3
<1>3. Due(Opening("cert")) \o <<>> = Due(Opening("cert"))
  <2>1. CASE "cert" \in Kinds
    <3>1. Due(Opening("cert")) = <<Opening("cert")>>
      BY <1>2, <2>1
    <3>2. QED BY <3>1, Short
  <2>2. CASE "cert" \notin Kinds
    <3>1. Due(Opening("cert")) = <<>>
      BY <2>2 DEF Due, Opening
    <3>2. QED BY <3>1, Short
  <2>3. QED BY <2>1, <2>2
<1>4. DOMAIN <<Opening("cert")>> = 1 .. 1 /\ <<Opening("cert")>>[1] = Opening("cert")
  OBVIOUS
<1>5. /\ Due(Opening("cert")) \o <<>> \in Rests
      /\ \A i \in DOMAIN (Due(Opening("cert")) \o <<>>) :
            (Due(Opening("cert")) \o <<>>)[i] = Opening("cert")
      /\ "cert" \in Kinds => /\ 1 \in DOMAIN (Due(Opening("cert")) \o <<>>)
                             /\ (Due(Opening("cert")) \o <<>>)[1] = Opening("cert")
  BY <1>2, <1>3, <1>4
<1>6. QED BY <1>2, <1>5

\* The steps of a renewal and of a test.
LEMMA TypeRenewal ==
    ASSUME TypeOK, Shape, NEW t \in Tasks, RenewalStep(t) \/ RecordResult(t)
    PROVE  TypeOK' /\ Shape'
<1> DEFINE r == task[t]
<1>0. r \in Task /\ ShapeOf(r)
  BY DEF TypeOK, Shape
<1>1. CASE MarkRenewing(t)
  <2> DEFINE after == [r.inst EXCEPT !.status = "renewing_ssl"]
             q == [r EXCEPT !.pc = "renew", !.inst = after]
  <2>1. r.pc = "mark" /\ Save(r.inst, after) /\ task' = [task EXCEPT ![t].pc = "renew", ![t].inst = after]
    BY <1>1 DEF MarkRenewing, At
  <2>2. task' = [task EXCEPT ![t] = q]
    BY <2>1 DEF TypeOK
  <2>3. after \in Server
    BY <1>0 DEF Task, Server, Busy
  <2> HIDE DEF after
  <2>4. /\ q \in Task /\ q.pc = "renew" /\ q.kind = r.kind /\ q.held = r.held
        /\ q.manual = r.manual /\ q.prev = r.prev
    BY <1>0, <2>3 DEF Task, Steps, RenewSteps
  <2>5. ShapeOf(q)
    BY <1>0, <2>1, <2>4 DEF ShapeOf, IncidentSteps, InstallSteps
  <2>6. server' \in Server
    BY <1>0, <2>1, <2>3, SaveOK DEF TypeOK, Task
  <2>7. QED BY <1>1, <2>2, <2>4, <2>5, <2>6, PutOK DEF MarkRenewing, TypeOK, ghosts
<1>2. CASE Renew(t)
  <2>1. r.pc = "renew" /\ (Goto(t, "renewed") \/ Goto(t, "failed")) /\ renewal' \in {"ok", "bad", renewal}
    BY <1>2 DEF Renew, At
  <2>2. r.held = {}
    BY <1>0, <2>1 DEF ShapeOf
  <2>3. task' \in [Tasks -> Task] /\ Shape'
    BY <2>1, <2>2, GotoOK DEF Steps, RenewSteps, IncidentSteps, InstallSteps
  <2>4. QED BY <1>2, <2>1, <2>3 DEF Renew, TypeOK, Results
<1>3. CASE Renewed(t)
  <2>1. EndRenewal(t, "online", Due(Resolving("cert")) \o <<Checking>>, TRUE)
    BY <1>3 DEF Renewed
  <2>2. task' \in [Tasks -> Task] /\ Shape' /\ server' \in Server
    BY <2>1, RenewalOpsOK, EndRenewalType
  <2>3. QED BY <2>1, <2>2 DEF EndRenewal, TypeOK, ghosts
<1>4. CASE RenewalFailed(t)
  <2> DEFINE ops == Due(Opening("cert")) \o (IF task[t].manual THEN <<>> ELSE <<Checking>>)
  <2>1. EndRenewal(t, "error", ops, FALSE)
    BY <1>4 DEF RenewalFailed
  <2>2. ops \in Rests
    BY RenewalOpsOK
  <2> HIDE DEF ops
  <2>3. task' \in [Tasks -> Task] /\ Shape' /\ server' \in Server
    BY <2>1, <2>2, EndRenewalType
  <2>4. QED BY <2>1, <2>3 DEF EndRenewal, TypeOK, ghosts
<1>5. CASE RecordResult(t)
  <2>1. PICK result \in {"ok", "bad"} :
          /\ tested' = IF result = task[t].seen THEN tested ELSE result
          /\ task' = [task EXCEPT ![t] = Advance([@ EXCEPT !.rest =
                Due(IF result = "ok" THEN Resolving("config") ELSE Opening("config"))])]
    BY <1>5 DEF RecordResult
  <2> DEFINE a == IF result = "ok" THEN Resolving("config") ELSE Opening("config")
             q == [r EXCEPT !.rest = Due(a)]
  <2>2. a.kind \in Kinds \cup {"server"} => a \in Op
    BY OpOK DEF Opening, Resolving
  <2> HIDE DEF a
  <2>3. Due(a) \in Rests
    BY <2>2, DueOK
  <2>4. q \in Task /\ q.manual = r.manual /\ q.prev = r.prev
    BY <1>0, <2>3 DEF Task, Rests
  <2>5. Advance(q) \in Task /\ ShapeOf(Advance(q))
    BY <1>0, <2>4, AdvanceShape DEF ShapeOf
  <2>6. task' = [task EXCEPT ![t] = Advance(q)]
    BY <2>1 DEF a
  <2> HIDE DEF q
  <2>7. task' \in [Tasks -> Task] /\ Shape'
    BY <2>5, <2>6, PutOK
  <2>8. tested' \in Results
    BY <2>1 DEF TypeOK, Results
  <2>9. QED BY <1>5, <2>7, <2>8 DEF RecordResult, TypeOK, ghosts
<1>6. QED BY <1>1, <1>2, <1>3, <1>4, <1>5 DEF RenewalStep

LEMMA SetStepOK ==
    ASSUME job \in Job, NEW state \in {"running", "success", "error"}, SetStep(state)
    PROVE  /\ job' \in Job /\ job'.status = job.status /\ job'.current = job.current
           /\ \A m \in 1 .. LastStep : job'.step[m] = IF m = job.current THEN state ELSE job.step[m]
BY DEF SetStep, Job

\* The steps of an installation.
LEMMA TypeInstall ==
    ASSUME TypeOK, Shape, NEW t \in Tasks, InstallStep(t),
           At(t, "i_begin") => job.current < LastStep
    PROVE  TypeOK' /\ Shape'
<1> DEFINE r == task[t]
<1>0. /\ r \in Task /\ ShapeOf(r) /\ job \in Job
      /\ task[t].pc \in InstallSteps => task[t].held = {}
  BY DEF TypeOK, Shape, ShapeOf, InstallSteps
<1>a. ASSUME NEW step \in InstallSteps, Goto(t, step), r.pc \in InstallSteps \ {"i_broken", "i_done"}
      PROVE  task' \in [Tasks -> Task] /\ Shape'
  BY <1>0, <1>a, GotoOK DEF ShapeOf, Steps, IncidentSteps, InstallSteps
<1>b. ASSUME task' = [task EXCEPT ![t] = Idle] PROVE task' \in [Tasks -> Task] /\ Shape'
  BY <1>b, IdleOK, PutOK
<1>1. CASE CreateJob(t)
  <2>1. job' \in Job
    BY <1>1, IdleOK DEF CreateJob, Job, NoJob
  <2>2. QED BY <1>1, <1>a, <2>1 DEF CreateJob, TypeOK, ghosts, InstallSteps, At
<1>2. CASE BeginStep(t)
  <2>1. job.current + 1 \in 0 .. LastStep
    BY <1>0, <1>2 DEF BeginStep, Job
  <2>2. job' \in Job
    BY <1>0, <1>2, <2>1 DEF BeginStep, Job
  <2>3. QED BY <1>2, <1>a, <2>2 DEF BeginStep, TypeOK, ghosts, InstallSteps, At
<1>3. CASE MarkStep(t)
  BY <1>0, <1>3, <1>a, SetStepOK DEF MarkStep, TypeOK, ghosts, InstallSteps, At
<1>4. CASE RunStep(t)
  BY <1>4, <1>a DEF RunStep, TypeOK, ghosts, InstallSteps, At
<1>5. CASE EndStep(t)
  BY <1>0, <1>5, <1>a, SetStepOK DEF EndStep, TypeOK, ghosts, InstallSteps, At
<1>6. CASE FailStep(t)
  BY <1>0, <1>6, <1>a, SetStepOK DEF FailStep, TypeOK, ghosts, InstallSteps, At
<1>7. CASE FailJob(t)
  <2>1. job' \in Job
    BY <1>0, <1>7 DEF FailJob, Job
  <2>2. QED BY <1>7, <1>a, <2>1 DEF FailJob, TypeOK, ghosts, InstallSteps, At
<1>8. CASE FailServer(t)
  <2>1. [r.inst EXCEPT !.status = "error"] \in Server
    BY <1>0 DEF Task, Server
  <2>2. server' \in Server
    BY <1>0, <1>8, <2>1, SaveOK DEF FailServer, TypeOK, Task
  <2>3. QED BY <1>8, <1>b, <2>2 DEF FailServer, TypeOK, ghosts
<1>9. CASE SetOnline(t)
  <2> DEFINE after == [r.inst EXCEPT !.status = "online"]
             q == [r EXCEPT !.pc = "i_done", !.inst = after]
  <2>1. /\ r.pc = "i_online" /\ Save(r.inst, after)
        /\ task' = [task EXCEPT ![t].pc = "i_done", ![t].inst = after]
    BY <1>9 DEF SetOnline, At
  <2>2. task' = [task EXCEPT ![t] = q]
    BY <2>1 DEF TypeOK
  <2>3. after \in Server
    BY <1>0 DEF Task, Server
  <2> HIDE DEF after
  <2>4. /\ q \in Task /\ q.pc = "i_done" /\ q.kind = r.kind /\ q.held = r.held
        /\ q.manual = r.manual /\ q.prev = r.prev /\ q.rescue = r.rescue
    BY <1>0, <2>3 DEF Task, Steps, InstallSteps
  <2>5. ShapeOf(q)
    BY <1>0, <2>1, <2>4 DEF ShapeOf, IncidentSteps, InstallSteps
  <2>6. server' \in Server
    BY <1>0, <2>1, <2>3, SaveOK DEF TypeOK, Task
  <2>7. QED BY <1>9, <2>2, <2>4, <2>5, <2>6, PutOK DEF SetOnline, TypeOK, ghosts
<1>10. CASE FinishJob(t)
  <2>1. job' \in Job
    BY <1>0, <1>10 DEF FinishJob, Job
  <2>2. QED BY <1>10, <1>b, <2>1 DEF FinishJob, TypeOK, ghosts
<1>11. QED
  BY <1>1, <1>2, <1>3, <1>4, <1>5, <1>6, <1>7, <1>8, <1>9, <1>10 DEF InstallStep

\* Where a failing query leaves a task.
LEMMA ThrownOK ==
    ASSUME TypeOK, Shape, NEW t \in Tasks, task[t].pc \notin {"idle", "i_run", "renew"}
    PROVE  LET r == task[t]
               q == Thrown(t)
           IN  /\ q \in Task /\ ShapeOf(q)
               /\ \/ q = Idle
                  \/ /\ ~q.alone /\ q.kind = r.kind /\ q.rest = r.rest /\ q.inst = r.inst
                     /\ q.manual = r.manual /\ q.prev = r.prev /\ q.held = {}
                     /\ \/ /\ q.pc = "i_broken"
                           /\ r.pc \in {"i_begin", "i_mark", "i_bad", "i_jobbad", "i_online", "i_done"}
                        \/ q.pc = "i_bad" /\ r.pc = "i_ok"
                        \/ q.pc = "renew" /\ r.pc = "mark" /\ r.manual
                        \/ /\ q.pc = "failed" /\ r.rescue /\ r.pc # "failed"
                           /\ ~(r.pc = "mark" /\ r.manual)
               /\ q = Idle => r.pc \notin {"i_begin", "i_mark", "i_bad", "i_jobbad", "i_online", "i_done", "i_ok"}
<1> DEFINE r == task[t]
           Q(q) ==
               \/ q = Idle
               \/ /\ ~q.alone /\ q.kind = r.kind /\ q.rest = r.rest /\ q.inst = r.inst
                  /\ q.manual = r.manual /\ q.prev = r.prev /\ q.held = {}
                  /\ \/ /\ q.pc = "i_broken"
                        /\ r.pc \in {"i_begin", "i_mark", "i_bad", "i_jobbad", "i_online", "i_done"}
                     \/ q.pc = "i_bad" /\ r.pc = "i_ok"
                     \/ q.pc = "renew" /\ r.pc = "mark" /\ r.manual
                     \/ /\ q.pc = "failed" /\ r.rescue /\ r.pc # "failed"
                        /\ ~(r.pc = "mark" /\ r.manual)
<1>0. r \in Task /\ ShapeOf(r)
  BY DEF TypeOK, Shape
<1>a. ASSUME NEW step \in {"i_broken", "i_bad", "renew", "failed"}, NEW q,
             q = [r EXCEPT !.pc = step, !.alone = FALSE, !.held = {}],
             step = "i_bad" => r.inst.status = "installing",
             step \in {"i_bad", "i_broken"} => ~r.rescue
      PROVE  /\ q \in Task /\ ShapeOf(q) /\ q.pc = step
             /\ ~q.alone /\ q.kind = r.kind /\ q.rest = r.rest /\ q.inst = r.inst
             /\ q.manual = r.manual /\ q.prev = r.prev /\ q.held = {} /\ q # Idle
  <2>1. /\ q.pc = step /\ q.kind = r.kind /\ q.held = {} /\ q.inst = r.inst /\ q.rest = r.rest
        /\ q.manual = r.manual /\ q.prev = r.prev /\ q.rescue = r.rescue /\ ~q.alone
    BY <1>0, <1>a DEF Task
  <2>2. q \in Task
    BY ZenonT(30), <1>0, <1>a DEF Task, Steps, InstallSteps, RenewSteps
  <2>3. ShapeOf(q)
    BY <1>0, <1>a, <2>1 DEF ShapeOf, IncidentSteps, InstallSteps
  <2>4. q # Idle
    BY <2>1 DEF Idle
  <2>5. QED BY <2>1, <2>2, <2>3, <2>4
<1>b. r.held = {} => \A step \in {"i_broken", "i_bad", "renew"} :
          [r EXCEPT !.pc = step, !.alone = FALSE] = [r EXCEPT !.pc = step, !.alone = FALSE, !.held = {}]
  BY <1>0, ZenonT(60) DEF Task
<1>1. CASE r.pc \in {"i_begin", "i_mark", "i_bad", "i_jobbad", "i_online", "i_done"}
  <2>1. r.held = {} /\ ~r.rescue
    BY <1>0, <1>1 DEF ShapeOf, InstallSteps
  <2>2. Thrown(t) = [r EXCEPT !.pc = "i_broken", !.alone = FALSE]
    BY <1>1, <2>1 DEF Thrown
  <2>3. Thrown(t) = [r EXCEPT !.pc = "i_broken", !.alone = FALSE, !.held = {}]
    BY <1>b, <2>1, <2>2
  <2>4. QED BY <1>1, <1>a, <2>1, <2>3
<1>2. CASE r.pc = "i_ok"
  <2>1. r.held = {} /\ r.inst.status = "installing" /\ ~r.rescue
    BY <1>0, <1>2 DEF ShapeOf, InstallSteps
  <2>2. Thrown(t) = [r EXCEPT !.pc = "i_bad", !.alone = FALSE]
    BY <1>2, <2>1 DEF Thrown
  <2>3. Thrown(t) = [r EXCEPT !.pc = "i_bad", !.alone = FALSE, !.held = {}]
    BY <1>b, <2>1, <2>2
  <2>4. QED BY <1>2, <1>a, <2>1, <2>3
<1>3. CASE r.pc = "mark" /\ r.manual
  <2>1. r.held = {}
    BY <1>0, <1>3 DEF ShapeOf
  <2>2. Thrown(t) = [r EXCEPT !.pc = "renew", !.alone = FALSE]
    BY <1>3 DEF Thrown
  <2>3. Thrown(t) = [r EXCEPT !.pc = "renew", !.alone = FALSE, !.held = {}]
    BY <1>b, <2>1, <2>2
  <2>4. QED BY ZenonT(30), <1>3, <1>a, <2>3
<1>4. CASE /\ r.pc \notin {"i_begin", "i_mark", "i_bad", "i_jobbad", "i_online", "i_done", "i_ok"}
           /\ ~(r.pc = "mark" /\ r.manual) /\ r.rescue /\ r.pc # "failed"
  <2>1. Thrown(t) = [r EXCEPT !.pc = "failed", !.alone = FALSE, !.held = {}]
    BY <1>4 DEF Thrown
  <2>2. QED BY <1>4, <1>a, <2>1
<1>5. CASE /\ r.pc \notin {"i_begin", "i_mark", "i_bad", "i_jobbad", "i_online", "i_done", "i_ok"}
           /\ ~(r.pc = "mark" /\ r.manual) /\ ~(r.rescue /\ r.pc # "failed")
  <2>1. Thrown(t) = Idle
    BY <1>5 DEF Thrown
  <2>2. QED BY <1>5, <2>1, IdleOK
<1>6. QED BY <1>1, <1>2, <1>3, <1>4, <1>5

\* Faults and the box.
LEMMA TypeFault ==
    ASSUME TypeOK, Shape,
           \/ \E t \in Tasks : QueryFails(t)
           \/ Crash \/ BoxChanges \/ \E k \in Alerting : GapPasses(k)
    PROVE  TypeOK' /\ Shape'
<1>1. ASSUME NEW t \in Tasks, QueryFails(t) PROVE TypeOK' /\ Shape'
  <2>1. task' = [task EXCEPT ![t] = Thrown(t)] /\ task[t].pc \notin {"idle", "i_run", "renew"}
    BY <1>1 DEF QueryFails
  <2>2. task' \in [Tasks -> Task] /\ Shape'
    BY <2>1, ThrownOK, PutOK
  <2>3. incident' \in [Kinds -> [Rows -> Incident]] /\ blurred' \subseteq Kinds \cup {"status"}
    BY <1>1, DisturbOK DEF QueryFails
  <2>4. faults' \in 0 .. MaxFaults
    BY <1>1 DEF QueryFails, Fault, TypeOK
  <2>5. orphaned' \in BOOLEAN
    BY <1>1 DEF QueryFails, TypeOK
  <2>6. QED BY <1>1, <2>2, <2>3, <2>4, <2>5 DEF QueryFails, TypeOK
<1>2. CASE Crash
  <2>1. task' \in [Tasks -> Task] /\ Shape'
    BY <1>2, IdleOK DEF Crash, Shape
  <2>2. incident' \in [Kinds -> [Rows -> Incident]] /\ blurred' \subseteq Kinds \cup {"status"}
    BY <1>2, DisturbOK DEF Crash
  <2>3. faults' \in 0 .. MaxFaults
    BY <1>2 DEF Crash, Fault, TypeOK
  <2>4. orphaned' \in BOOLEAN
    BY <1>2 DEF Crash, TypeOK
  <2>5. QED BY <1>2, <2>1, <2>2, <2>3, <2>4 DEF Crash, TypeOK
<1>3. CASE BoxChanges
  BY <1>3 DEF BoxChanges, TypeOK, Shape, ghosts
<1>4. ASSUME NEW k \in Alerting, GapPasses(k) PROVE TypeOK' /\ Shape'
  BY <1>4 DEF GapPasses, TypeOK, Shape, ghosts
<1>5. QED BY <1>1, <1>2, <1>3, <1>4

-----------------------------------------------------------------------------
(* Whose steps change what *)

LEMMA AdvanceMoves ==
    ASSUME NEW r \in Task
    PROVE  LET q == Advance(r)
           IN  /\ q.pc \in {"idle", "find", "seek", "check"} /\ q.held = {}
               /\ q = Idle \/ (q.pc # "idle" /\ q.alone = r.alone)
               /\ r.rest = <<>> <=> q = Idle
<1>1. Idle.pc = "idle" /\ Idle.held = {}
  BY DEF Idle
<1>2. QED BY <1>1, AdvanceOK

\* A step of a check, a renewal or a test changes its own task and stays out of
\* the installation.
LEMMA Moves ==
    ASSUME TypeOK, Shape, NEW t \in Tasks,
           CheckStep(t) \/ MailFails(t) \/ RenewalStep(t) \/ RecordResult(t)
    PROVE  /\ task[t].pc \in {"check", "patch", "record"} \cup RenewSteps \cup IncidentSteps
           /\ task'[t].pc \in {"idle", "check", "patch"} \cup RenewSteps \cup IncidentSteps
           /\ task'[t] = Idle \/ (task'[t].pc # "idle" /\ task'[t].alone = task[t].alone)
           /\ Others(t)
           /\ UNCHANGED <<up, job, orphaned>>
           /\ faults' = faults \/ faults' # 0
<1> DEFINE Frame ==
             /\ task'[t].pc \in {"idle", "check", "patch"} \cup RenewSteps \cup IncidentSteps
             /\ task'[t] = Idle \/ (task'[t].pc # "idle" /\ task'[t].alone = task[t].alone)
             /\ Others(t)
<1>0. task \in [Tasks -> Task] /\ task[t] \in Task /\ faults \in Nat
  BY DEF TypeOK
<1>a. ASSUME NEW step \in {"create", "send", "notify", "recover", "renewed", "failed"}, Goto(t, step)
      PROVE  Frame
  <2>1. /\ task'[t] = [task[t] EXCEPT !.pc = step] /\ Others(t)
    BY <1>0, <1>a DEF Goto, Others
  <2>2. task'[t].pc = step /\ task'[t].alone = task[t].alone
    BY <1>0, <2>1 DEF Task
  <2>3. QED BY <2>1, <2>2 DEF IncidentSteps, RenewSteps
<1>b. ASSUME NEW r \in Task, r.alone = task[t].alone, task'[t] = Advance(r), Others(t)
      PROVE  Frame
  BY <1>0, <1>b, AdvanceMoves DEF IncidentSteps
<1>c. ASSUME Settle(t) PROVE Frame
  BY <1>0, <1>b, <1>c DEF Settle, Others
<1>d. ASSUME NEW r \in Task, r.alone = task[t].alone, r.pc \in {"patch", "mail", "close", "renew"},
             task' = [task EXCEPT ![t] = r]
      PROVE  Frame
  BY <1>0, <1>d DEF Others, IncidentSteps, RenewSteps
<1>e. ASSUME NEW status \in {"online", "error"}, NEW ops \in Rests, NEW rescue \in BOOLEAN,
             EndRenewal(t, status, ops, rescue)
      PROVE  Frame
  <2>1. PICK after \in Server, q \in Task :
            q.alone = task[t].alone /\ Save(task[t].inst, after) /\ task'[t] = Advance(q) /\ Others(t)
    BY <1>e, EndRenewalOK
  <2>2. QED BY <1>b, <2>1
<1>1. CASE CheckStep(t) \/ MailFails(t)
  <2>1. CASE Probe(t)
    <3>1. PICK ssh \in BOOLEAN :
            task' = [task EXCEPT ![t] = [@ EXCEPT !.pc = "patch", !.found = Outcome(ssh),
                                                  !.rest = CheckOps(ssh)]]
      BY ZenonT(30), <2>1 DEF Probe
    <3> DEFINE q == [task[t] EXCEPT !.pc = "patch", !.found = Outcome(ssh), !.rest = CheckOps(ssh)]
    <3>2. Outcome(ssh) \in Server /\ CheckOps(ssh) \in Rests
      BY CheckOpsOK DEF TypeOK
    <3>3. q \in Task /\ q.pc = "patch" /\ q.alone = task[t].alone
      BY <1>0, <3>2 DEF Task, Steps, Rests
    <3> HIDE DEF q
    <3>4. Frame
      BY <1>d, <3>1, <3>3 DEF q
    <3>5. QED BY <2>1, <3>4 DEF Probe, At, ghosts
  <2>2. CASE Patch(t)
    <3> DEFINE q == [task[t] EXCEPT !.inst = Absent, !.found = Absent]
    <3>1. task' = [task EXCEPT ![t] = Advance(q)]
      BY <2>2 DEF Patch
    <3>2. q \in Task /\ q.alone = task[t].alone
      BY <1>0, IdleOK DEF Task
    <3> HIDE DEF q
    <3>3. task'[t] = Advance(q) /\ Others(t)
      BY <1>0, <3>1 DEF Others
    <3>4. QED BY <1>b, <2>2, <3>2, <3>3 DEF Patch, At
  <2>3. CASE FindOpen(t)
    BY <1>a, <1>c, <2>3 DEF FindOpen, At, IncidentSteps
  <2>4. CASE CreateIncident(t)
    <3>1. task[t].kind \in Kinds
      BY SMTT(30), <2>4 DEF CreateIncident, At, Shape, ShapeOf, IncidentSteps
    <3>2. PICK m \in Rows : IF task[t].kind \in Alerting
            THEN task' = [task EXCEPT ![t] = [@ EXCEPT !.pc = "mail", !.held = {m}]]
            ELSE Settle(t)
      BY ZenonT(30), <2>4, <3>1, CreateOK
    <3> DEFINE q == [task[t] EXCEPT !.pc = "mail", !.held = {m}]
    <3>3. q \in Task /\ q.pc = "mail" /\ q.alone = task[t].alone
      BY ZenonT(30), <1>0 DEF Task, Steps, IncidentSteps
    <3>4. task' = [task EXCEPT ![t] = q] \/ Settle(t)
      BY <3>2
    <3> HIDE DEF q
    <3>5. Frame
      BY <1>c, <1>d, <3>3, <3>4
    <3>6. QED BY SMTT(30), <2>4, <3>5 DEF CreateIncident, At, IncidentSteps
  <2>5. CASE BeginMail(t)
    BY <1>a, <1>c, <2>5 DEF BeginMail, At, IncidentSteps
  <2>6. CASE MailAccepted(t)
    BY <1>a, <2>6 DEF MailAccepted, At, IncidentSteps, ghosts
  <2>7. CASE MarkNotified(t)
    BY <1>c, <2>7 DEF MarkNotified, At, IncidentSteps
  <2>8. CASE FindAllOpen(t)
    <3> DEFINE was == \E n \in Open(task[t].kind) : incident[task[t].kind][n].notified
               q == [task[t] EXCEPT !.pc = "close", !.held = Open(task[t].kind), !.was = was]
    <3>1. Settle(t) \/ task' = [task EXCEPT ![t].pc = "close", ![t].held = Open(task[t].kind), ![t].was = was]
      BY <2>8 DEF FindAllOpen
    <3>2. Settle(t) \/ task' = [task EXCEPT ![t] = q]
      BY <1>0, <3>1
    <3>3. was \in BOOLEAN /\ Open(task[t].kind) \in SUBSET Rows
      BY DEF Open
    <3> HIDE DEF was
    <3>4. q \in Task /\ q.pc = "close" /\ q.alone = task[t].alone
      BY ZenonT(30), <1>0, <3>3 DEF Task, Steps, IncidentSteps
    <3> HIDE DEF q
    <3>5. Frame
      BY <1>c, <1>d, <3>2, <3>4
    <3>6. QED BY <2>8, <3>5 DEF FindAllOpen, At, IncidentSteps
  <2>9. CASE \E n \in Rows : CloseIncident(t, n)
    BY <1>0, <2>9 DEF CloseIncident, At, IncidentSteps, ghosts, Others
  <2>10. CASE AllClosed(t)
    BY <1>a, <1>c, <2>10 DEF AllClosed, At, IncidentSteps
  <2>11. CASE MailRecovery(t)
    BY <1>c, <2>11 DEF MailRecovery, At, IncidentSteps
  <2>12. CASE MailFails(t)
    BY <1>0, <1>c, <2>12 DEF MailFails, Fault, At, IncidentSteps
  <2>13. QED BY <1>1, <2>1, <2>2, <2>3, <2>4, <2>5, <2>6, <2>7, <2>8, <2>9, <2>10, <2>11, <2>12 DEF CheckStep
<1>2. CASE MarkRenewing(t)
  <2> DEFINE after == [task[t].inst EXCEPT !.status = "renewing_ssl"]
             q == [task[t] EXCEPT !.pc = "renew", !.inst = after]
  <2>1. task' = [task EXCEPT ![t].pc = "renew", ![t].inst = after]
    BY <1>2 DEF MarkRenewing
  <2>2. task' = [task EXCEPT ![t] = q]
    BY <1>0, <2>1
  <2>3. after \in Server
    BY <1>0 DEF Task, Server, Busy
  <2> HIDE DEF after
  <2>4. q \in Task /\ q.pc = "renew" /\ q.alone = task[t].alone
    BY <1>0, <2>3 DEF Task, Steps, RenewSteps
  <2> HIDE DEF q
  <2>5. QED BY <1>2, <1>d, <2>2, <2>4 DEF MarkRenewing, At, RenewSteps, ghosts
<1>3. CASE Renew(t)
  BY <1>3, <1>a DEF Renew, At, RenewSteps
<1>4. CASE Renewed(t)
  <2>1. EndRenewal(t, "online", Due(Resolving("cert")) \o <<Checking>>, TRUE)
    BY <1>4 DEF Renewed
  <2>2. Frame
    BY <1>e, <2>1, RenewalOpsOK
  <2>3. QED BY <1>4, <2>1, <2>2 DEF EndRenewal, Renewed, At, RenewSteps, ghosts
<1>5. CASE RenewalFailed(t)
  <2> DEFINE ops == Due(Opening("cert")) \o (IF task[t].manual THEN <<>> ELSE <<Checking>>)
  <2>1. EndRenewal(t, "error", ops, FALSE)
    BY <1>5 DEF RenewalFailed
  <2>2. ops \in Rests
    BY RenewalOpsOK
  <2> HIDE DEF ops
  <2>3. Frame
    BY <1>e, <2>1, <2>2
  <2>4. QED BY <1>5, <2>1, <2>3 DEF EndRenewal, RenewalFailed, At, RenewSteps, ghosts
<1>6. CASE RecordResult(t)
  <2>1. PICK result \in {"ok", "bad"} :
          task' = [task EXCEPT ![t] = Advance([@ EXCEPT !.rest =
                Due(IF result = "ok" THEN Resolving("config") ELSE Opening("config"))])]
    BY <1>6 DEF RecordResult
  <2> DEFINE a == IF result = "ok" THEN Resolving("config") ELSE Opening("config")
             q == [task[t] EXCEPT !.rest = Due(a)]
  <2>2. a.kind \in Kinds \cup {"server"} => a \in Op
    BY OpOK DEF Opening, Resolving
  <2> HIDE DEF a
  <2>3. Due(a) \in Rests
    BY <2>2, DueOK
  <2>4. q \in Task /\ q.alone = task[t].alone
    BY <1>0, <2>3 DEF Task, Rests
  <2>5. task' = [task EXCEPT ![t] = Advance(q)]
    BY <2>1 DEF a
  <2> HIDE DEF q
  <2>6. task'[t] = Advance(q) /\ Others(t)
    BY <1>0, <2>5 DEF Others
  <2>7. QED BY <1>6, <1>b, <2>4, <2>6 DEF RecordResult, At, ghosts
<1>7. QED BY <1>1, <1>2, <1>3, <1>4, <1>5, <1>6 DEF RenewalStep

\* The first step of a task.
LEMMA Begins ==
    ASSUME TypeOK, Shape, NEW t \in Tasks, NEW r \in Task, r.pc # "idle", Begin(t, r)
    PROVE  /\ task[t] = Idle
           /\ task'[t] = IF Quiet THEN r ELSE [r EXCEPT !.alone = FALSE]
           /\ task'[t].pc = r.pc /\ task'[t].kind = r.kind /\ task'[t].held = r.held
           /\ task'[t].inst = r.inst /\ task'[t].rest = r.rest /\ task'[t].seen = r.seen
           /\ \A o \in Tasks : o # t =>
                 /\ task'[o].pc = task[o].pc /\ task'[o].kind = task[o].kind
                 /\ task'[o].held = task[o].held /\ task'[o].inst = task[o].inst
                 /\ task'[o].was = task[o].was
                 /\ task'[o] = IF At(o, "idle") THEN Idle ELSE [task[o] EXCEPT !.alone = FALSE]
                 /\ task'[o].pc # "idle" => ~task'[o].alone
           /\ IF Quiet THEN /\ \A o \in Tasks : o # t => task'[o] = Idle
                            /\ UNCHANGED <<blurred, incident>>
                       ELSE /\ \A o \in Tasks : task'[o].pc # "idle" => ~task'[o].alone
                            /\ Disturb({})
<1>0. /\ task \in [Tasks -> Task]
      /\ \A o \in Tasks : task[o] \in Task /\ (task[o].pc = "idle" => task[o] = Idle)
      /\ Idle.pc = "idle"
  BY DEF TypeOK, Shape, ShapeOf, Idle
<1>1. task[t] = Idle
  BY <1>0 DEF Begin, At
<1>2. ASSUME NEW q \in Task
      PROVE  LET p == [q EXCEPT !.alone = FALSE]
             IN  /\ p.pc = q.pc /\ p.kind = q.kind /\ p.held = q.held /\ p.inst = q.inst
                 /\ p.rest = q.rest /\ p.was = q.was /\ p.seen = q.seen /\ ~p.alone
  BY DEF Task
<1>3. CASE Quiet
  <2>1. task' = [task EXCEPT ![t] = r] /\ UNCHANGED <<blurred, incident>>
    BY <1>3 DEF Begin
  <2>2. \A o \in Tasks : o # t => task'[o] = task[o] /\ task[o] = Idle
    BY <1>0, <1>3, <2>1 DEF Quiet, At
  <2>3. QED BY <1>0, <1>1, <1>3, <2>1, <2>2 DEF Quiet, At
<1>4. CASE ~Quiet
  <2>1. /\ task' = [o \in Tasks |-> IF o = t THEN [r EXCEPT !.alone = FALSE]
                                    ELSE IF At(o, "idle") THEN Idle
                                    ELSE [task[o] EXCEPT !.alone = FALSE]]
        /\ Disturb({})
    BY <1>4 DEF Begin
  <2>2. ASSUME NEW o \in Tasks, o # t
        PROVE  /\ task'[o] = IF At(o, "idle") THEN Idle ELSE [task[o] EXCEPT !.alone = FALSE]
               /\ task'[o].pc = task[o].pc /\ task'[o].kind = task[o].kind
               /\ task'[o].held = task[o].held /\ task'[o].inst = task[o].inst
               /\ task'[o].was = task[o].was
               /\ task'[o].pc # "idle" => ~task'[o].alone
    BY <1>0, <1>2, <2>1, <2>2 DEF At
  <2>3. task'[t] = [r EXCEPT !.alone = FALSE]
    BY <2>1
  <2>4. QED BY ZenonT(30), <1>1, <1>2, <1>4, <2>1, <2>2, <2>3
<1>5. QED BY <1>3, <1>4

LEMMA BeginPcs ==
    ASSUME TypeOK, Shape, NEW t \in Tasks, NEW r \in Task, r.pc # "idle", Begin(t, r)
    PROVE  /\ task[t].pc = "idle" /\ task'[t].pc = r.pc
           /\ \A o \in Tasks : o # t => task'[o].pc = task[o].pc
<1>1. Idle.pc = "idle"
  BY DEF Idle
<1>2. task[t] = Idle /\ task'[t].pc = r.pc
  BY Begins
<1>3. \A o \in Tasks : o # t => task'[o].pc = task[o].pc
  BY ZenonT(30), Begins
<1>4. QED BY <1>1, <1>2, <1>3

-----------------------------------------------------------------------------
(* The job *)

LEMMA JobFrame ==
    ASSUME JobInv, job' = job, faults' = faults \/ faults' # 0,
           server'.status = "absent" => server.status = "absent" /\ task' = task,
           \A o \in Tasks : task'[o].pc \in InstallSteps \/ task[o].pc \in InstallSteps
                               => task'[o].pc = task[o].pc
    PROVE  JobInv'
<1>1. \A o \in Tasks : JobOf(o)'
  BY DEF JobInv, JobOf, At, Done, InstallSteps
<1>2. QED BY <1>1 DEF JobInv, Installs

\* An installation that goes on alone settles the job's invariant.
LEMMA JobAlone ==
    ASSUME JobInv, NEW t \in Tasks, Installs(t), Others(t), JobOf(t)',
           server'.status # "absent",
           job'.status = "success" => \A n \in 1 .. LastStep : job'.step[n] = "success",
           job'.status = "error" =>
              \A n \in 1 .. LastStep : job'.step[n] = IF n < job'.current THEN "success"
                                                      ELSE IF n = job'.current THEN "error" ELSE "pending",
           faults' = 0 /\ task'[t].pc \notin InstallSteps => job'.status \in {"none", "success", "error"}
    PROVE  JobInv'
<1>1. \A o \in Tasks : o # t => task[o].pc \notin InstallSteps /\ task'[o].pc \notin InstallSteps
  BY DEF JobInv, Installs, Others
<1>2. \A o \in Tasks : JobOf(o)'
  <2>1. \A o \in Tasks : o # t => JobOf(o)'
    BY <1>1 DEF JobOf, At, InstallSteps
  <2>2. QED BY <2>1
<1>3. QED BY <1>1, <1>2 DEF JobInv, Installs

LEMMA Present ==
    ASSUME TypeOK, Shape, JobInv, NEW t \in Tasks, task[t].pc # "idle"
    PROVE  server.status # "absent"
BY DEF JobInv, Idle

\* No step of a task makes the server absent.
LEMMA StaysPresent ==
    ASSUME TypeOK, Shape, JobInv, NEW t \in Tasks,
           CheckStep(t) \/ MailFails(t) \/ RenewalStep(t) \/ RecordResult(t)
    PROVE  server'.status # "absent"
<1>0. server.status # "absent" /\ server \in Server /\ task[t] \in Task /\ ShapeOf(task[t])
  <2>1. task[t].pc # "idle"
    BY Moves DEF RenewSteps, IncidentSteps
  <2>2. QED BY <2>1, Present DEF TypeOK, Shape
<1>1. CASE Patch(t)
  <2>1. Save(task[t].inst, task[t].found) /\ task[t].found \in Findings
    BY <1>0, <1>1 DEF Patch, At, ShapeOf
  <2>2. task[t].found.status # "absent" /\ task[t].inst \in Server /\ task[t].found \in Server
    BY <1>0, <2>1 DEF Findings, Task
  <2>3. QED BY <1>0, <2>1, <2>2, SaveOK
<1>2. CASE MarkRenewing(t)
  <2> DEFINE after == [task[t].inst EXCEPT !.status = "renewing_ssl"]
  <2>1. Save(task[t].inst, after)
    BY <1>2 DEF MarkRenewing
  <2>2. after \in Server /\ task[t].inst \in Server /\ after.status # "absent"
    BY <1>0 DEF Task, Server, Busy
  <2> HIDE DEF after
  <2>3. QED BY <1>0, <2>1, <2>2, SaveOK
<1>3. ASSUME NEW status \in {"online", "error"}, NEW ops \in Rests, NEW rescue \in BOOLEAN,
             EndRenewal(t, status, ops, rescue)
      PROVE  server'.status # "absent"
  <2>1. PICK after \in Server, q \in Task :
            after.status \in {"online", "error"} /\ q.alone = task[t].alone
            /\ Save(task[t].inst, after)
    BY <1>3, EndRenewalOK
  <2>2. task[t].inst \in Server
    BY <1>0 DEF Task
  <2>3. QED BY <1>0, <2>1, <2>2, SaveOK
<1>4. CASE Renewed(t)
  BY <1>3, <1>4, RenewalOpsOK DEF Renewed
<1>5. CASE RenewalFailed(t)
  <2> DEFINE ops == Due(Opening("cert")) \o (IF task[t].manual THEN <<>> ELSE <<Checking>>)
  <2>1. EndRenewal(t, "error", ops, FALSE)
    BY <1>5 DEF RenewalFailed
  <2>2. ops \in Rests
    BY RenewalOpsOK
  <2> HIDE DEF ops
  <2>3. QED BY <1>3, <2>1, <2>2
<1>6. CASE Renew(t) \/ RecordResult(t) \/ MailFails(t)
  BY <1>0, <1>6 DEF Renew, RecordResult, MailFails
<1>7. CASE CheckStep(t) /\ ~Patch(t)
  BY ZenonT(30), <1>0, <1>7 DEF CheckStep, Probe, FindOpen, CreateIncident, BeginMail, MailAccepted, MarkNotified,
                    FindAllOpen, CloseIncident, AllClosed, MailRecovery
<1>8. QED BY <1>1, <1>2, <1>4, <1>5, <1>6, <1>7 DEF RenewalStep

LEMMA JobInstall ==
    ASSUME TypeOK, Shape, JobInv, NEW t \in Tasks, InstallStep(t)
    PROVE  JobInv'
<1>0. /\ task \in [Tasks -> Task] /\ task[t] \in Task /\ ShapeOf(task[t]) /\ job \in Job /\ server \in Server
      /\ JobOf(t)
  BY DEF TypeOK, Shape, JobInv
<1>1. Installs(t)
  BY DEF InstallStep, CreateJob, BeginStep, MarkStep, RunStep, EndStep, FailStep, FailJob,
         FailServer, SetOnline, FinishJob, At, Installs, InstallSteps
<1>2. server.status # "absent"
  BY <1>1, Present DEF Installs, InstallSteps
<1>a. ASSUME NEW step \in Steps, Goto(t, step) PROVE task'[t].pc = step /\ Others(t)
  BY <1>0, <1>a DEF Goto, Task, Others
<1>b. ASSUME task' = [task EXCEPT ![t] = Idle] PROVE task'[t].pc = "idle" /\ Others(t)
  BY <1>0, <1>b DEF Idle, Others
<1>3. CASE CreateJob(t)
  <2>1. /\ task'[t].pc = "i_begin" /\ Others(t)
        /\ server' = server /\ faults' = faults
        /\ job' = [NoJob EXCEPT !.status = "queued"]
    BY <1>3, <1>a DEF CreateJob, ghosts, Steps, InstallSteps
  <2>2. job'.status = "queued" /\ job'.current = 0 /\ \A m \in 1 .. LastStep : job'.step[m] = "pending"
    BY <2>1 DEF NoJob
  <2>3. JobOf(t)'
    BY <2>1, <2>2 DEF JobOf, At
  <2>4. QED BY <1>1, <1>2, <2>1, <2>2, <2>3, JobAlone DEF InstallSteps
<1>4. CASE BeginStep(t)
  <2>1. /\ task'[t].pc = "i_mark" /\ Others(t) /\ At(t, "i_begin")
        /\ server' = server /\ faults' = faults
        /\ job' = [job EXCEPT !.status = "running", !.current = @ + 1]
    BY <1>4, <1>a DEF BeginStep, ghosts, Steps, InstallSteps
  <2>2. job'.status = "running" /\ job'.current = job.current + 1 /\ job'.step = job.step
    BY <1>0, <2>1 DEF Job
  <2>3. job.current \in Nat /\ job.current < LastStep
    BY <1>0, <2>1 DEF JobOf, Job
  <2>4. \A m \in 1 .. LastStep : job.step[m] = IF m <= job.current THEN "success" ELSE "pending"
    BY <1>0, <2>1 DEF JobOf
  <2>5. JobOf(t)'
    BY <2>1, <2>2, <2>3, <2>4 DEF JobOf, At, Done
  <2>6. QED BY <1>1, <1>2, <2>1, <2>2, <2>5, JobAlone DEF InstallSteps
<1>5. CASE MarkStep(t)
  <2>1. /\ task'[t].pc = "i_run" /\ Others(t) /\ At(t, "i_mark")
        /\ server' = server /\ faults' = faults /\ SetStep("running")
    BY <1>5, <1>a DEF MarkStep, ghosts, Steps, InstallSteps
  <2>2. /\ job'.status = job.status /\ job'.current = job.current
        /\ \A m \in 1 .. LastStep : job'.step[m] = IF m = job.current THEN "running" ELSE job.step[m]
    BY <1>0, <2>1, SetStepOK
  <2>3. JobOf(t)' /\ job.status = "running"
    BY <1>0, <2>1, <2>2 DEF JobOf, At, Done, Job
  <2>4. QED BY <1>1, <1>2, <2>1, <2>2, <2>3, JobAlone DEF InstallSteps
<1>6. CASE RunStep(t)
  <2>1. /\ task'[t].pc \in {"i_ok", "i_bad"} /\ Others(t) /\ At(t, "i_run")
        /\ server' = server /\ faults' = faults /\ job' = job
    BY <1>6, <1>a DEF RunStep, ghosts, Steps, InstallSteps
  <2>2. JobOf(t)' /\ job.status = "running"
    BY <1>0, <2>1 DEF JobOf, At, Done
  <2>3. QED BY <1>1, <1>2, <2>1, <2>2, JobAlone DEF InstallSteps
<1>7. CASE EndStep(t)
  <2>1. /\ task'[t].pc = (IF job.current = LastStep THEN "i_online" ELSE "i_begin")
        /\ Others(t) /\ At(t, "i_ok")
        /\ server' = server /\ faults' = faults /\ SetStep("success")
    BY <1>7, <1>a DEF EndStep, ghosts, Steps, InstallSteps
  <2>2. /\ job'.status = job.status /\ job'.current = job.current
        /\ \A m \in 1 .. LastStep : job'.step[m] = IF m = job.current THEN "success" ELSE job.step[m]
    BY <1>0, <2>1, SetStepOK
  <2>3. job.current \in 1 .. LastStep /\ job.status = "running" /\ Done(job.current)
    BY <1>0, <2>1 DEF JobOf, At
  <2>4. \A m \in 1 .. LastStep : job'.step[m] = IF m <= job.current THEN "success" ELSE "pending"
    BY <2>2, <2>3 DEF Done
  <2>5. JobOf(t)'
    BY <2>1, <2>2, <2>3, <2>4 DEF JobOf, At, Done
  <2>6. QED BY <1>1, <1>2, <2>1, <2>2, <2>3, <2>5, JobAlone DEF InstallSteps
<1>8. CASE FailStep(t)
  <2>1. /\ task'[t].pc = "i_jobbad" /\ Others(t) /\ At(t, "i_bad")
        /\ server' = server /\ faults' = faults /\ SetStep("error")
    BY <1>8, <1>a DEF FailStep, ghosts, Steps, InstallSteps
  <2>2. /\ job'.status = job.status /\ job'.current = job.current
        /\ \A m \in 1 .. LastStep : job'.step[m] = IF m = job.current THEN "error" ELSE job.step[m]
    BY <1>0, <2>1, SetStepOK
  <2>3. JobOf(t)' /\ job.status = "running"
    BY <1>0, <2>1, <2>2 DEF JobOf, At, Done, Job
  <2>4. QED BY <1>1, <1>2, <2>1, <2>2, <2>3, JobAlone DEF InstallSteps
<1>9. CASE FailJob(t)
  <2>1. /\ task'[t].pc = "i_broken" /\ Others(t) /\ At(t, "i_jobbad")
        /\ server' = server /\ faults' = faults /\ job' = [job EXCEPT !.status = "error"]
    BY <1>9, <1>a DEF FailJob, ghosts, Steps, InstallSteps
  <2>2. job'.status = "error" /\ job'.current = job.current /\ job'.step = job.step
    BY <1>0, <2>1 DEF Job
  <2>3. JobOf(t)'
    BY <2>1, <2>2 DEF JobOf, At
  <2>4. job.current \in 1 .. LastStep /\ Done(job.current) /\ job.step[job.current] = "error"
    BY <1>0, <2>1 DEF JobOf, At
  <2>5. \A n \in 1 .. LastStep : job.step[n] = IF n < job.current THEN "success"
                                              ELSE IF n = job.current THEN "error" ELSE "pending"
    BY <2>4 DEF Done
  <2>6. QED BY <1>1, <1>2, <2>1, <2>2, <2>3, <2>5, JobAlone DEF InstallSteps
<1>10. CASE FailServer(t)
  <2>1. /\ task'[t].pc = "idle" /\ Others(t) /\ At(t, "i_broken")
        /\ faults' = faults /\ job' = job
    BY <1>10, <1>b DEF FailServer, ghosts
  <2>2. [task[t].inst EXCEPT !.status = "error"] \in Server /\ task[t].inst \in Server
        /\ [task[t].inst EXCEPT !.status = "error"].status = "error"
    BY <1>0 DEF Task, Server
  <2>3. server'.status # "absent"
    BY <1>0, <1>2, <1>10, <2>2, SaveOK DEF FailServer
  <2>4. JobOf(t)'
    BY <2>1 DEF JobOf, At
  <2>5. faults = 0 => job.status = "error"
    BY <1>0, <2>1 DEF JobOf
  <2>6. QED BY <1>1, <2>1, <2>3, <2>4, <2>5, JobAlone DEF JobInv
<1>11. CASE SetOnline(t)
  <2> DEFINE after == [task[t].inst EXCEPT !.status = "online"]
  <2>1. /\ At(t, "i_online") /\ Save(task[t].inst, after)
        /\ task' = [task EXCEPT ![t].pc = "i_done", ![t].inst = after]
        /\ faults' = faults /\ job' = job
    BY <1>11 DEF SetOnline, ghosts
  <2>2. after \in Server /\ task[t].inst \in Server /\ after.status = "online"
    BY <1>0 DEF Task, Server
  <2>3. task'[t].pc = "i_done" /\ Others(t)
    BY <1>0, <2>1 DEF Task, Others
  <2> HIDE DEF after
  <2>4. server'.status # "absent"
    BY <1>0, <1>2, <2>1, <2>2, SaveOK
  <2>5. JobOf(t)' /\ job.status = "running"
    BY <1>0, <2>1, <2>3 DEF JobOf, At, Done
  <2>6. QED BY <1>1, <2>1, <2>3, <2>4, <2>5, JobAlone DEF InstallSteps
<1>12. CASE FinishJob(t)
  <2>1. /\ task'[t].pc = "idle" /\ Others(t) /\ At(t, "i_done")
        /\ faults' = faults /\ server' = server /\ job' = [job EXCEPT !.status = "success"]
    BY <1>12, <1>b DEF FinishJob, ghosts
  <2>2. job'.status = "success" /\ job'.step = job.step
    BY <1>0, <2>1 DEF Job
  <2>3. job.current = LastStep /\ job.step[LastStep] = "success" /\ Done(job.current)
    BY <1>0, <2>1 DEF JobOf, At
  <2>4. \A n \in 1 .. LastStep : job.step[n] = "success"
    BY <2>3 DEF Done
  <2>5. JobOf(t)'
    BY <2>1 DEF JobOf, At
  <2>6. QED BY <1>1, <1>2, <2>1, <2>2, <2>4, <2>5, JobAlone DEF InstallSteps
<1>13. QED BY <1>3, <1>4, <1>5, <1>6, <1>7, <1>8, <1>9, <1>10, <1>11, <1>12 DEF InstallStep

LEMMA JobInit == Init => JobInv
<1> SUFFICES ASSUME Init PROVE JobInv
  OBVIOUS
<1>1. \A t \in Tasks : task[t] = Idle /\ task[t].pc = "idle"
  BY DEF Init, Idle
<1>2. job = NoJob /\ job.status = "none"
  BY DEF Init, NoJob
<1>3. QED BY <1>1, <1>2 DEF JobInv, JobOf, At, Installs, InstallSteps

LEMMA JobStart ==
    ASSUME TypeOK, Shape, JobInv, NEW t \in Tasks,
           \/ StartCheck(t) \/ (\E manual \in BOOLEAN : StartRenewal(t, manual))
           \/ StartTest(t) \/ Install(t)
    PROVE  JobInv'
<1>a. ASSUME NEW r \in Task, r.pc \notin InstallSteps \cup {"idle"}, Begin(t, r),
             server.status # "absent", UNCHANGED <<server, job, faults>>
      PROVE  JobInv'
  <2>1. \A o \in Tasks : task'[o].pc \in InstallSteps \/ task[o].pc \in InstallSteps
                            => task'[o].pc = task[o].pc
    BY <1>a, BeginPcs DEF InstallSteps
  <2>2. QED BY <1>a, <2>1, JobFrame
<1>1. CASE StartCheck(t)
  <2> DEFINE r == [Idle EXCEPT !.pc = "check", !.inst = server]
  <2>1. r \in Task /\ r.pc = "check"
    BY IdleOK DEF TypeOK, Task, Steps
  <2> HIDE DEF r
  <2>2. Begin(t, r)
    BY <1>1 DEF StartCheck, r
  <2>3. QED BY <1>a, <1>1, <2>1, <2>2 DEF StartCheck, InstallSteps
<1>2. ASSUME NEW manual \in BOOLEAN, StartRenewal(t, manual) PROVE JobInv'
  <2> DEFINE r == [Idle EXCEPT !.pc = "mark", !.inst = server, !.manual = manual, !.rescue = TRUE,
                               !.prev = IF manual THEN "online" ELSE server.status]
  <2>1. server.status # "absent" /\ server \in Server
    BY ZenonT(30), <1>2 DEF StartRenewal, TypeOK
  <2>2. r \in Task /\ r.pc = "mark"
    BY <2>1, IdleOK, ZenonT(60) DEF Task, Steps, RenewSteps, Server
  <2> HIDE DEF r
  <2>3. Begin(t, r)
    BY ZenonT(30), <1>2 DEF StartRenewal, r
  <2>4. QED BY ZenonT(30), <1>a, <1>2, <2>1, <2>2, <2>3 DEF StartRenewal, InstallSteps
<1>3. CASE StartTest(t)
  <2> DEFINE r == [Idle EXCEPT !.pc = "record", !.seen = tested]
  <2>1. r \in Task /\ r.pc = "record"
    BY IdleOK DEF TypeOK, Task, Steps
  <2> HIDE DEF r
  <2>2. Begin(t, r)
    BY <1>3 DEF StartTest, r
  <2>3. QED BY <1>a, <1>3, <2>1, <2>2 DEF StartTest, InstallSteps
<1>4. CASE Install(t)
  <2> DEFINE inst == [Absent EXCEPT !.status = "installing"]
             r == [Idle EXCEPT !.pc = "i_job", !.inst = inst]
  <2>1. inst \in Server /\ inst.status = "installing"
    BY DEF Absent, NewServer, Server, Busy
  <2> HIDE DEF inst
  <2>2. r \in Task /\ r.pc = "i_job"
    BY <2>1, IdleOK DEF Task, Steps, InstallSteps
  <2> HIDE DEF r
  <2>3. Begin(t, r)
    BY <1>4 DEF Install, r, inst
  <2>4. job = NoJob /\ \A o \in Tasks : task[o] = Idle
    BY <1>4 DEF Install, JobInv
  <2>5. server'.status = "installing" /\ job' = job /\ faults' = faults
    BY <1>4, <2>1 DEF Install, inst
  <2>6. task'[t].pc = "i_job" /\ \A o \in Tasks : o # t => task'[o].pc = "idle"
    BY <2>2, <2>3, <2>4, BeginPcs DEF Idle
  <2>7. \A o \in Tasks : JobOf(o)'
    BY <2>4, <2>5, <2>6 DEF JobOf, At, InstallSteps
  <2>8. NoJob.status = "none"
    BY DEF NoJob
  <2>9. QED BY <2>4, <2>5, <2>6, <2>7, <2>8 DEF JobInv, Installs, InstallSteps
<1>5. QED BY <1>1, <1>2, <1>3, <1>4

LEMMA JobFault ==
    ASSUME TypeOK, Shape, JobInv,
           \/ \E t \in Tasks : QueryFails(t)
           \/ Crash \/ BoxChanges \/ \E k \in Alerting : GapPasses(k)
    PROVE  JobInv'
<1>0. faults \in Nat /\ task \in [Tasks -> Task]
  BY DEF TypeOK
<1>1. ASSUME NEW t \in Tasks, QueryFails(t) PROVE JobInv'
  <2>1. /\ task[t].pc \notin {"idle", "i_run", "renew"} /\ task'[t] = Thrown(t) /\ Others(t)
        /\ server' = server /\ job' = job /\ faults' # 0
    BY <1>0, <1>1 DEF QueryFails, Fault, Others
  <2>2. server.status # "absent"
    BY <2>1, Present
  <2>3. Idle.pc = "idle"
    BY DEF Idle
  <2>4. CASE Installs(t)
    <3>1. task[t].pc = "i_ok" => task'[t].pc = "i_bad" /\ task'[t].pc # "idle"
      BY <2>1, <2>3, <2>4, ThrownOK DEF Shape, ShapeOf, InstallSteps, Installs
    <3>2. task'[t].pc \in {"idle", "i_bad", "i_broken"}
      BY <2>1, <2>3, <2>4, ThrownOK DEF Shape, ShapeOf, InstallSteps, Installs
    <3>3. task'[t].pc = "i_bad" => task[t].pc = "i_ok"
      BY <2>1, <2>3, ThrownOK
    <3>4. task'[t].pc = "i_broken" => task[t].pc \in {"i_begin", "i_mark", "i_bad", "i_jobbad", "i_online", "i_done"}
      BY <2>1, <2>3, ThrownOK
    <3>5. JobOf(t) /\ job \in Job
      BY DEF JobInv, TypeOK
    <3>6. JobOf(t)'
      BY <2>1, <3>2, <3>3, <3>4, <3>5 DEF JobOf, At, Done
    <3>7. job.status = "success" => \A n \in 1 .. LastStep : job.step[n] = "success"
      BY DEF JobInv
    <3>8. job.status = "error" =>
              \A n \in 1 .. LastStep : job.step[n] = IF n < job.current THEN "success"
                                                     ELSE IF n = job.current THEN "error" ELSE "pending"
      BY DEF JobInv
    <3>9. QED BY <2>1, <2>2, <2>4, <3>6, <3>7, <3>8, JobAlone
  <2>5. CASE ~Installs(t)
    <3>1. task'[t].pc \notin InstallSteps
      BY <2>1, <2>3, <2>5, ThrownOK DEF Installs, InstallSteps
    <3>2. QED BY <2>1, <2>2, <2>5, <3>1, JobFrame DEF Installs, Others
  <2>6. QED BY <2>4, <2>5
<1>2. CASE Crash
  <2>1. \A o \in Tasks : task'[o] = Idle /\ task'[o].pc = "idle"
    BY <1>2 DEF Crash, Idle
  <2>2. job' = job /\ faults' # 0 /\ server' = server
    BY <1>0, <1>2 DEF Crash, Fault
  <2>3. QED BY <2>1, <2>2 DEF JobInv, JobOf, At, Installs, InstallSteps
<1>3. CASE BoxChanges \/ \E k \in Alerting : GapPasses(k)
  <2>1. task' = task /\ job' = job /\ server' = server /\ faults' = faults
    BY <1>3 DEF BoxChanges, GapPasses, ghosts
  <2>2. QED BY <2>1, JobFrame
<1>4. QED BY <1>1, <1>2, <1>3

LEMMA JobNext ==
    ASSUME TypeOK, Shape, JobInv, [Next]_vars
    PROVE  TypeOK' /\ Shape' /\ JobInv'
<1>1. ASSUME NEW t \in Tasks,
             CheckStep(t) \/ MailFails(t) \/ RenewalStep(t) \/ RecordResult(t)
      PROVE  TypeOK' /\ Shape' /\ JobInv'
  <2>1. TypeOK' /\ Shape'
    BY <1>1, TypeCheck, TypeRenewal
  <2>2. server'.status # "absent"
    BY <1>1, StaysPresent
  <2>3. \A o \in Tasks : task'[o].pc \in InstallSteps \/ task[o].pc \in InstallSteps
                            => task'[o].pc = task[o].pc
    BY <1>1, Moves DEF Others, InstallSteps, RenewSteps, IncidentSteps
  <2>4. job' = job /\ (faults' = faults \/ faults' # 0)
    BY <1>1, Moves
  <2>5. QED BY <2>1, <2>2, <2>3, <2>4, JobFrame
<1>2. ASSUME NEW t \in Tasks, InstallStep(t) PROVE TypeOK' /\ Shape' /\ JobInv'
  <2>1. At(t, "i_begin") => job.current < LastStep
    BY DEF JobInv, JobOf
  <2>2. QED BY <1>2, <2>1, TypeInstall, JobInstall
<1>3. ASSUME NEW t \in Tasks,
             \/ StartCheck(t) \/ (\E manual \in BOOLEAN : StartRenewal(t, manual))
             \/ StartTest(t) \/ Install(t)
      PROVE  TypeOK' /\ Shape' /\ JobInv'
  BY <1>3, TypeStart, JobStart
<1>4. CASE \/ \E t \in Tasks : QueryFails(t)
           \/ Crash \/ BoxChanges \/ \E k \in Alerting : GapPasses(k)
  BY <1>4, TypeFault, JobFault
<1>5. CASE UNCHANGED vars
  <2>1. TypeOK' /\ Shape'
    BY <1>5 DEF vars, ghosts, TypeOK, Shape
  <2>2. JobInv'
    BY <1>5, JobFrame DEF vars, ghosts
  <2>3. QED BY <2>1, <2>2
<1>6. QED BY <1>1, <1>2, <1>3, <1>4, <1>5 DEF Next

\* Every variable keeps its type: a task is never at a step, and never holds a
\* row, an instance or a plan, that its code could not have there.
THEOREM TypeCorrect == Spec => []TypeOK
<1>1. Init => TypeOK /\ Shape /\ JobInv
  BY TypeInit, JobInit
<1>2. TypeOK /\ Shape /\ JobInv /\ [Next]_vars => TypeOK' /\ Shape' /\ JobInv'
  BY JobNext
<1>3. QED BY <1>1, <1>2, PTL DEF Spec

\* A job ends where its steps ended (setStep and the try/catch of runInstall),
\* whatever else touches the server and whichever query fails.
THEOREM JobMatchesStepsHolds == Spec => []JobMatchesSteps
<1>1. Init => TypeOK /\ Shape /\ JobInv
  BY TypeInit, JobInit
<1>2. TypeOK /\ Shape /\ JobInv /\ [Next]_vars => TypeOK' /\ Shape' /\ JobInv'
  BY JobNext
<1>3. JobInv => JobMatchesSteps
  BY DEF JobInv, JobMatchesSteps, Quiet, At, Installs, InstallSteps
<1>4. QED BY <1>1, <1>2, <1>3, PTL DEF Spec

-----------------------------------------------------------------------------
(* The busy status *)

LEMMA OwnFrame ==
    ASSUME Owned, orphaned => orphaned',
           server'.status \in Busy => server'.status = server.status,
           \A o \in Tasks : (Owns(o) /\ server'.status \in Busy /\ ~orphaned') =>
                 /\ task'[o].inst.status = task[o].inst.status
                 /\ \/ task'[o].pc = task[o].pc
                    \/ task'[o].pc \in InstallSteps \ {"i_done"} /\ task[o].pc \in InstallSteps
                    \/ task'[o].pc \in {"renewed", "failed"} /\ task[o].pc \in {"renew", "renewed", "failed"}
    PROVE  Owned'
<1> SUFFICES ASSUME server'.status \in Busy, ~orphaned' PROVE \E o \in Tasks : Owns(o)'
  BY DEF Owned
<1>1. PICK o \in Tasks : Owns(o)
  BY DEF Owned
<1>2. Owns(o)'
  BY <1>1 DEF Owns, InstallSteps
<1>3. QED BY <1>2

LEMMA OwnedStart ==
    ASSUME TypeOK, Shape, Owned, NEW t \in Tasks,
           \/ StartCheck(t) \/ (\E manual \in BOOLEAN : StartRenewal(t, manual))
           \/ StartTest(t) \/ Install(t)
    PROVE  Owned'
<1>a. ASSUME NEW r \in Task, r.pc # "idle", Begin(t, r), UNCHANGED <<server, orphaned>>
      PROVE  Owned'
  <2>1. \A o \in Tasks : o # t => task'[o].pc = task[o].pc /\ task'[o].inst = task[o].inst
    BY <1>a, Begins, ZenonT(60)
  <2>2. ~Owns(t)
    BY <1>a, BeginPcs DEF Owns, InstallSteps
  <2>3. QED BY <1>a, <2>1, <2>2, OwnFrame
<1>1. CASE StartCheck(t)
  <2> DEFINE r == [Idle EXCEPT !.pc = "check", !.inst = server]
  <2>1. r \in Task /\ r.pc = "check"
    BY IdleOK DEF TypeOK, Task, Steps
  <2> HIDE DEF r
  <2>2. Begin(t, r)
    BY <1>1 DEF StartCheck, r
  <2>3. QED BY <1>a, <1>1, <2>1, <2>2 DEF StartCheck
<1>2. ASSUME NEW manual \in BOOLEAN, StartRenewal(t, manual) PROVE Owned'
  <2> DEFINE r == [Idle EXCEPT !.pc = "mark", !.inst = server, !.manual = manual, !.rescue = TRUE,
                               !.prev = IF manual THEN "online" ELSE server.status]
  <2>1. server.status # "absent" /\ server \in Server
    BY ZenonT(30), <1>2 DEF StartRenewal, TypeOK
  <2>2. r \in Task /\ r.pc = "mark"
    BY <2>1, IdleOK, ZenonT(60) DEF Task, Steps, RenewSteps, Server
  <2> HIDE DEF r
  <2>3. Begin(t, r)
    BY ZenonT(30), <1>2 DEF StartRenewal, r
  <2>4. QED BY ZenonT(30), <1>a, <1>2, <2>2, <2>3 DEF StartRenewal
<1>3. CASE StartTest(t)
  <2> DEFINE r == [Idle EXCEPT !.pc = "record", !.seen = tested]
  <2>1. r \in Task /\ r.pc = "record"
    BY IdleOK DEF TypeOK, Task, Steps
  <2> HIDE DEF r
  <2>2. Begin(t, r)
    BY <1>3 DEF StartTest, r
  <2>3. QED BY <1>a, <1>3, <2>1, <2>2 DEF StartTest
<1>4. CASE Install(t)
  <2> DEFINE inst == [Absent EXCEPT !.status = "installing"]
             r == [Idle EXCEPT !.pc = "i_job", !.inst = inst]
  <2>1. inst \in Server /\ inst.status = "installing"
    BY DEF Absent, NewServer, Server, Busy
  <2> HIDE DEF inst
  <2>2. r \in Task /\ r.pc = "i_job" /\ r.inst = inst
    BY <2>1, IdleOK DEF Task, Steps, InstallSteps
  <2> HIDE DEF r
  <2>3. Begin(t, r)
    BY <1>4 DEF Install, r, inst
  <2>4. task'[t].pc = "i_job" /\ task'[t].inst = inst
    <3>1. r.pc # "idle"
      BY <2>2
    <3>2. task'[t].pc = r.pc
      BY <2>2, <2>3, <3>1, BeginPcs
    <3>3. task'[t].inst = r.inst
      BY ZenonT(30), <2>2, <2>3, <3>1, Begins
    <3>4. QED BY <2>2, <3>2, <3>3
  <2>5. server'.status = "installing"
    BY <1>4, <2>1 DEF Install, inst
  <2>6. Owns(t)'
    BY <2>1, <2>4, <2>5 DEF Owns, InstallSteps
  <2>7. QED BY <2>6 DEF Owned
<1>5. QED BY <1>1, <1>2, <1>3, <1>4

LEMMA OwnedMove ==
    ASSUME TypeOK, Shape, Owned, NEW t \in Tasks,
           CheckStep(t) \/ MailFails(t) \/ RenewalStep(t) \/ RecordResult(t)
    PROVE  Owned'
<1>0. /\ task \in [Tasks -> Task] /\ task[t] \in Task /\ ShapeOf(task[t]) /\ server \in Server
      /\ Others(t) /\ orphaned' = orphaned
  BY Moves DEF TypeOK, Shape
<1>1. CASE Patch(t)
  <2>1. Save(task[t].inst, task[t].found) /\ task[t].found \in Findings /\ task[t].pc = "patch"
    BY <1>0, <1>1 DEF Patch, At, ShapeOf
  <2>2. task[t].found.status \notin Busy /\ task[t].inst \in Server /\ task[t].found \in Server
    BY <1>0, <2>1 DEF Findings, Task, Busy
  <2>3. server'.status \in Busy => server'.status = server.status
    BY <1>0, <2>1, <2>2, SaveOK
  <2>4. ~Owns(t)
    BY <2>1 DEF Owns, InstallSteps
  <2>5. QED BY <1>0, <2>3, <2>4, OwnFrame DEF Others
<1>2. CASE MarkRenewing(t)
  <2> DEFINE after == [task[t].inst EXCEPT !.status = "renewing_ssl"]
  <2>1. /\ Save(task[t].inst, after) /\ task[t].pc = "mark"
        /\ task' = [task EXCEPT ![t].pc = "renew", ![t].inst = after]
    BY <1>2 DEF MarkRenewing, At
  <2>2. after \in Server /\ task[t].inst \in Server /\ after.status = "renewing_ssl"
    BY <1>0 DEF Task, Server, Busy
  <2> HIDE DEF after
  <2>3. task'[t].pc = "renew" /\ task'[t].inst = after
    BY <1>0, <2>1 DEF Task
  <2>4. CASE server'.status = "renewing_ssl"
    <3>1. Owns(t)'
      BY <2>2, <2>3, <2>4 DEF Owns
    <3>2. QED BY <3>1 DEF Owned
  <2>5. CASE server'.status # "renewing_ssl"
    <3>1. server'.status = server.status
      BY <1>0, <2>1, <2>2, <2>5, SaveOK
    <3>2. ~Owns(t)
      BY <2>1 DEF Owns, InstallSteps
    <3>3. QED BY <1>0, <3>1, <3>2, OwnFrame DEF Others
  <2>6. QED BY <2>4, <2>5
<1>3. CASE Renew(t)
  <2>1. task'[t].pc \in {"renewed", "failed"} /\ task[t].pc = "renew" /\ task'[t].inst = task[t].inst
        /\ server' = server
    BY <1>0, <1>3 DEF Renew, Goto, Task, At
  <2>2. QED BY <1>0, <2>1, OwnFrame DEF Others
<1>4. ASSUME NEW status \in {"online", "error"}, NEW ops \in Rests, NEW rescue \in BOOLEAN,
             EndRenewal(t, status, ops, rescue), task[t].pc \in {"renewed", "failed"}
      PROVE  Owned'
  <2>1. PICK after \in Server, q \in Task :
            after.status \in {"online", "error"} /\ q.alone = task[t].alone
            /\ Save(task[t].inst, after)
    BY <1>4, EndRenewalOK
  <2>2. task[t].inst \in Server
    BY <1>0 DEF Task
  <2>3. server'.status \in Busy => server'.status = server.status
    BY <1>0, <2>1, <2>2, SaveOK DEF Busy
  <2>4. Owns(t) => server'.status \notin Busy
    <3>1. Owns(t) => task[t].inst.status \in Busy
      BY DEF Owns, Busy
    <3>2. QED BY <1>0, <2>1, <2>2, <3>1, SaveOK DEF Busy
  <2>5. QED BY <1>0, <2>3, <2>4, OwnFrame DEF Others
<1>5. CASE Renewed(t)
  BY <1>4, <1>5, RenewalOpsOK DEF Renewed, At
<1>6. CASE RenewalFailed(t)
  <2> DEFINE ops == Due(Opening("cert")) \o (IF task[t].manual THEN <<>> ELSE <<Checking>>)
  <2>1. EndRenewal(t, "error", ops, FALSE) /\ task[t].pc = "failed"
    BY ZenonT(30), <1>6 DEF RenewalFailed, At
  <2>2. ops \in Rests
    BY RenewalOpsOK
  <2> HIDE DEF ops
  <2>3. QED BY <1>4, <2>1, <2>2
<1>7. CASE (CheckStep(t) /\ ~Patch(t)) \/ MailFails(t) \/ RecordResult(t)
  <2>1. server' = server
    BY ZenonT(30), <1>7 DEF CheckStep, Probe, FindOpen, CreateIncident, BeginMail, MailAccepted, MarkNotified,
                FindAllOpen, CloseIncident, AllClosed, MailRecovery, MailFails, RecordResult
  <2>2. task[t].pc \in {"check", "record"} \cup IncidentSteps
    BY ZenonT(30), <1>7 DEF CheckStep, Probe, FindOpen, CreateIncident, BeginMail, MailAccepted, MarkNotified,
                FindAllOpen, CloseIncident, AllClosed, MailRecovery, MailFails, RecordResult, At, IncidentSteps
  <2>3. ~Owns(t)
    BY <2>2 DEF Owns, InstallSteps, IncidentSteps
  <2>4. QED BY <1>0, <2>1, <2>3, OwnFrame DEF Others
<1>8. QED BY <1>1, <1>2, <1>3, <1>5, <1>6, <1>7 DEF RenewalStep

LEMMA OwnedInstall ==
    ASSUME TypeOK, Shape, Owned, NEW t \in Tasks, InstallStep(t)
    PROVE  Owned'
<1>0. /\ task \in [Tasks -> Task] /\ task[t] \in Task /\ ShapeOf(task[t]) /\ server \in Server
  BY DEF TypeOK, Shape
<1>1. CASE FailServer(t)
  <2> DEFINE after == [task[t].inst EXCEPT !.status = "error"]
  <2>1. Save(task[t].inst, after) /\ Others(t) /\ orphaned' = orphaned
    BY <1>0, <1>1 DEF FailServer, Others, ghosts
  <2>2. after \in Server /\ task[t].inst \in Server /\ after.status = "error"
    BY <1>0 DEF Task, Server
  <2> HIDE DEF after
  <2>3. server'.status \in Busy => server'.status = server.status /\ task[t].inst.status = "error"
    BY <1>0, <2>1, <2>2, SaveOK DEF Busy
  <2>4. Owns(t) => task[t].inst.status # "error"
    BY DEF Owns
  <2>5. QED BY <2>1, <2>3, <2>4, OwnFrame DEF Others
<1>2. CASE SetOnline(t)
  <2> DEFINE after == [task[t].inst EXCEPT !.status = "online"]
  <2>1. Save(task[t].inst, after) /\ Others(t) /\ orphaned' = orphaned
    BY <1>0, <1>2 DEF SetOnline, Others, ghosts
  <2>2. after \in Server /\ task[t].inst \in Server /\ after.status = "online"
    BY <1>0 DEF Task, Server
  <2> HIDE DEF after
  <2>3. server'.status \in Busy => server'.status = server.status /\ task[t].inst.status = "online"
    BY <1>0, <2>1, <2>2, SaveOK DEF Busy
  <2>4. Owns(t) => task[t].inst.status # "online"
    BY DEF Owns
  <2>5. QED BY <2>1, <2>3, <2>4, OwnFrame DEF Others
<1>3. CASE FinishJob(t)
  <2>1. Others(t) /\ task[t].pc = "i_done" /\ server' = server /\ orphaned' = orphaned
    BY <1>0, <1>3 DEF FinishJob, Others, ghosts, At
  <2>2. ~Owns(t)
    BY <2>1 DEF Owns
  <2>3. QED BY <2>1, <2>2, OwnFrame DEF Others
<1>4. CASE \/ CreateJob(t) \/ BeginStep(t) \/ MarkStep(t) \/ RunStep(t) \/ EndStep(t)
           \/ FailStep(t) \/ FailJob(t)
  <2>1. /\ task[t].pc \in InstallSteps /\ server' = server /\ orphaned' = orphaned
        /\ \E step \in InstallSteps \ {"i_done"} : Goto(t, step)
    BY <1>4 DEF CreateJob, BeginStep, MarkStep, RunStep, EndStep, FailStep, FailJob, At, ghosts, InstallSteps
  <2>2. /\ Others(t) /\ task'[t].pc \in InstallSteps \ {"i_done"}
        /\ task'[t].inst = task[t].inst
    BY <1>0, <2>1 DEF Goto, Others, Task
  <2>3. QED BY <2>1, <2>2, OwnFrame DEF Others
<1>5. QED BY <1>1, <1>2, <1>3, <1>4 DEF InstallStep

LEMMA OwnedFault ==
    ASSUME TypeOK, Shape, Owned,
           \/ \E t \in Tasks : QueryFails(t)
           \/ Crash \/ BoxChanges \/ \E k \in Alerting : GapPasses(k)
    PROVE  Owned'
<1>0. \A t \in Tasks : Owns(t) => Working(t)
  BY DEF Owns, Working
<1>1. ASSUME NEW t \in Tasks, QueryFails(t) PROVE Owned'
  <2>1. /\ task[t].pc \notin {"idle", "i_run", "renew"} /\ task'[t] = Thrown(t) /\ Others(t)
        /\ server' = server
        /\ orphaned' = (orphaned \/ (Working(t) /\ Thrown(t) = Idle))
    BY <1>1 DEF QueryFails, TypeOK, Others
  <2>2. Thrown(t) # Idle /\ Owns(t) =>
            /\ Thrown(t).inst = task[t].inst
            /\ \/ Thrown(t).pc \in {"i_broken", "i_bad"} /\ task[t].pc \in InstallSteps
               \/ Thrown(t).pc = "failed" /\ task[t].pc \in {"renew", "renewed", "failed"}
    BY <2>1, ThrownOK DEF Owns, InstallSteps, Shape, ShapeOf
  <2>3. ASSUME Owns(t), ~orphaned'
        PROVE  /\ task'[t].inst.status = task[t].inst.status
               /\ \/ task'[t].pc \in InstallSteps \ {"i_done"} /\ task[t].pc \in InstallSteps
                  \/ task'[t].pc \in {"renewed", "failed"} /\ task[t].pc \in {"renew", "renewed", "failed"}
    BY <1>0, <2>1, <2>2, <2>3 DEF InstallSteps
  <2>4. QED BY <2>1, <2>3, OwnFrame DEF Others
<1>2. CASE Crash
  BY <1>0, <1>2 DEF Crash, Owned
<1>3. CASE BoxChanges \/ \E k \in Alerting : GapPasses(k)
  <2>1. task' = task /\ server' = server /\ orphaned' = orphaned
    BY <1>3 DEF BoxChanges, GapPasses, ghosts
  <2>2. QED BY <2>1, OwnFrame
<1>4. QED BY <1>1, <1>2, <1>3

\* Every pass skips a busy server for good (BUSY_STATES), so some task must still
\* have the box in hand whenever the status says so, unless a crash or a query
\* that failed has taken that task away.
THEOREM BusyMeansWorkHolds == Spec => []BusyMeansWork
<1> DEFINE Inv == TypeOK /\ Shape /\ JobInv /\ Owned
<1>1. Init => Inv
  <2>1. Init => Owned
    BY DEF Init, Owned, NewServer, Absent, Busy
  <2>2. QED BY <2>1, TypeInit, JobInit
<1>2. Inv /\ [Next]_vars => Inv'
  <2> SUFFICES ASSUME Inv, [Next]_vars PROVE Owned'
    BY JobNext
  <2>1. CASE UNCHANGED vars
    BY <2>1, OwnFrame DEF vars, ghosts
  <2>2. QED BY <2>1, OwnedStart, OwnedMove, OwnedInstall, OwnedFault DEF Next
<1>3. Inv => BusyMeansWork
  BY DEF Owned, Owns, BusyMeansWork, Working
<1> HIDE DEF Inv
<1>4. QED BY <1>1, <1>2, <1>3, PTL DEF Spec

-----------------------------------------------------------------------------
(* Overlaps and mails *)

Stays(t) == task'[t] = Idle \/ (task'[t].pc # "idle" /\ task'[t].alone = task[t].alone)

\* What a step of t must see to, the rest follows.
LEMMA IncStep ==
    ASSUME TypeOK, Shape, IncidentInv, TypeOK', Shape', NEW t \in Tasks, Active(t), Others(t), Stays(t),
           RowsOK', OneOpenIncident',
           \A k \in Kinds, n \in Rows :
              (incident'[k][n].state = "open" /\ incident'[k][n].calm)
              => (incident[k][n].state = "open" /\ incident[k][n].calm) \/ task[t].alone,
           \A o \in Tasks, k \in Kinds, n \in Rows :
              (o # t /\ task[o].kind = k /\ n \in task[o].held /\ Calm(k, n)') =>
                 incident'[k][n] = incident[k][n],
           \A o \in Tasks, k \in Kinds, n \in Rows :
              (o # t /\ task[o].kind = k /\ n \in task[o].held
               /\ task'[t].kind = k /\ n \in task'[t].held)
              => ~Calm(k, n)',
           \A k \in Kinds :
              (task'[t].pc = "create" /\ task'[t].alone /\ task'[t].kind = k) => Open(k)' = {},
           Announces(t)' =>
              \E n \in Rows :
                 /\ task'[t].held = {n}
                 /\ task'[t].alone =>
                       LET r == incident'[task'[t].kind][n]
                       IN  r.state = "open" /\ ~r.notified /\ (r.told <=> task'[t].pc = "notify"),
           \A k \in Kinds, n \in Rows :
              (incident'[k][n].state = "open" /\ incident'[k][n].calm) =>
                 \/ /\ incident'[k][n] = incident[k][n]
                    /\ ~(Announces(t) /\ task[t].kind = k /\ n \in task[t].held)
                 \/ incident'[k][n].told <=> incident'[k][n].notified
                 \/ Announces(t)' /\ task'[t].kind = k /\ n \in task'[t].held,
           \A k \in Kinds, n \in Rows :
              (task'[t].kind = k /\ n \in task'[t].held /\ Calm(k, n)') =>
                 /\ task'[t].pc = "close" =>
                       task'[t].was = incident'[k][n].told /\ ~incident'[k][n].recalled
                 /\ task'[t].pc = "recover" =>
                       incident'[k][n].state = "resolved" /\ incident'[k][n].told /\ incident'[k][n].recalled
    PROVE  IncidentInv'
<1>0. Idle.pc = "idle" /\ task[t].pc # "idle"
  BY DEF Idle, Active, At
<1>a. \A o \in Tasks : o # t => task'[o] = task[o]
  BY DEF Others
<1>b. /\ \A o \in Tasks : \A n \in task[o].held : task[o].kind \in Kinds /\ n \in Rows
      /\ \A o \in Tasks : \A n \in task'[o].held : task'[o].kind \in Kinds /\ n \in Rows
      /\ \A o \in Tasks : task[o].pc = "create" => task[o].kind \in Kinds
      /\ \A o \in Tasks : task'[o].pc = "create" => task'[o].kind \in Kinds
  BY DEF TypeOK, Task, Shape, ShapeOf, IncidentSteps, Alerting
<1>c. \A o \in Tasks : (o # t /\ task[o].pc # "idle") => ~task[o].alone /\ ~task[t].alone
  BY <1>0 DEF IncidentInv, AloneOnly, Active, At
<1>1. AloneOnly'
  <2> SUFFICES ASSUME NEW u \in Tasks, NEW o \in Tasks, u # o, task'[u].pc # "idle", task'[u].alone,
                      task'[o].pc # "idle"
               PROVE  FALSE
    BY DEF AloneOnly, Active, At
  <2>1. task[u].alone /\ task[u].pc # "idle" /\ task[o].pc # "idle"
    BY <1>0, <1>a DEF Stays
  <2>2. QED BY <2>1 DEF IncidentInv, AloneOnly, Active, At
<1>2. CalmAlone'
  <2> SUFFICES ASSUME NEW k \in Kinds, NEW n \in Rows, NEW o \in Tasks,
                      incident'[k][n].state = "open", incident'[k][n].calm, task'[o].pc # "idle"
               PROVE  task'[o].alone
    BY DEF CalmAlone, Open, Active, At
  <2>1. task[t].alone
    BY <1>0 DEF IncidentInv, CalmAlone, Open, Active, At
  <2>2. o = t
    BY <1>a, <1>c, <2>1
  <2>3. QED BY <1>0, <2>1, <2>2 DEF Stays
<1>3. Vacant'
  <2>1. ASSUME NEW o \in Tasks, task'[o].pc = "create", task'[o].alone, NEW k \in Kinds, task'[o].kind = k
        PROVE  Open(k)' = {}
    <3>1. o = t
      BY <1>a, <1>c, <2>1
    <3>2. QED BY <2>1, <3>1
  <2>2. ASSUME NEW o \in Tasks, task'[o].pc = "create", task'[o].alone, NEW n \in Rows
        PROVE  incident'[task'[o].kind][n].state # "open"
    <3>1. PICK k \in Kinds : task'[o].kind = k
      BY <1>b, <2>2
    <3>2. Open(k)' = {}
      BY <2>1, <2>2, <3>1
    <3>3. QED BY <3>1, <3>2 DEF Open
  <2>3. QED BY <2>2 DEF Vacant, At, Open
<1>d. ASSUME NEW o \in Tasks, o # t, NEW k \in Kinds, NEW n \in Rows,
             task'[o].kind = k, n \in task'[o].held, Calm(k, n)'
      PROVE  task'[o] = task[o] /\ incident'[k][n] = incident[k][n] /\ Calm(k, n)
  <2>1. task'[o] = task[o]
    BY <1>a, <1>d
  <2>2. incident'[k][n] = incident[k][n]
    BY <1>d, <2>1
  <2>3. QED BY <1>d, <2>1, <2>2 DEF Calm
<1>4. Sole'
  <2>1. ASSUME NEW u \in Tasks, NEW o \in Tasks, NEW n \in Rows, NEW k \in Kinds, u # o,
               task'[u].kind = k, task'[o].kind = k, n \in task'[u].held, n \in task'[o].held
        PROVE  ~Calm(k, n)'
    <3>1. CASE u # t /\ o # t
      <4>1. task'[u] = task[u] /\ task'[o] = task[o]
        BY <1>a, <3>1
      <4>2. ~Calm(k, n)
        BY <2>1, <4>1 DEF IncidentInv, Sole
      <4>3. Calm(k, n)' => incident'[k][n] = incident[k][n]
        BY <1>d, <2>1, <3>1
      <4>4. QED BY <4>2, <4>3 DEF Calm
    <3>2. CASE u = t \/ o = t
      BY <1>a, <2>1, <3>2
    <3>3. QED BY <3>1, <3>2
  <2>2. ASSUME NEW u \in Tasks, NEW o \in Tasks, NEW n \in Rows, u # o,
               task'[u].kind = task'[o].kind, n \in task'[u].held, n \in task'[o].held
        PROVE  ~(incident'[task'[u].kind][n].calm /\ incident'[task'[u].kind][n].state # "none")
    <3>1. PICK k \in Kinds : task'[u].kind = k
      BY <1>b, <2>2
    <3>2. ~Calm(k, n)'
      BY <2>1, <2>2, <3>1
    <3>3. QED BY <3>1, <3>2 DEF Calm
  <2>3. QED BY <2>2 DEF Sole, Calm
<1>5. Announcing'
  <2> SUFFICES ASSUME NEW o \in Tasks, o # t, Announces(o)'
               PROVE  \E n \in Rows :
                        /\ task'[o].held = {n}
                        /\ task'[o].alone =>
                              LET r == incident'[task'[o].kind][n]
                              IN  r.state = "open" /\ ~r.notified /\ (r.told <=> At(o, "notify")')
    BY DEF Announcing, At
  <2>1. task'[o] = task[o] /\ Announces(o)
    BY <1>a DEF Announces
  <2>2. PICK n \in Rows : task[o].held = {n}
    BY <2>1 DEF IncidentInv, Announcing
  <2>3. ~task[o].alone
    BY <1>c, <2>1 DEF Announces
  <2>4. QED BY <2>1, <2>2, <2>3
<1>6. Announced'
  <2> SUFFICES ASSUME NEW k \in Kinds, NEW n \in Rows, incident'[k][n].state = "open", incident'[k][n].calm,
                      \A o \in Tasks : ~(Announces(o)' /\ task'[o].kind = k /\ n \in task'[o].held)
               PROVE  incident'[k][n].told <=> incident'[k][n].notified
    BY DEF Announced, Open
  <2>1. CASE /\ incident'[k][n] = incident[k][n]
             /\ ~(Announces(t) /\ task[t].kind = k /\ n \in task[t].held)
    <3>1. \A o \in Tasks : ~(Announces(o) /\ task[o].kind = k /\ n \in task[o].held)
      BY <1>a, <2>1 DEF Announces
    <3>2. QED BY <2>1, <3>1, ZenonT(60) DEF IncidentInv, Announced, Open
  <2>2. QED BY <2>1
<1>7. Closing'
  <2>1. ASSUME NEW o \in Tasks, NEW k \in Kinds, NEW n \in Rows, task'[o].kind = k, n \in task'[o].held,
               task'[o].pc = "close", Calm(k, n)'
        PROVE  task'[o].was = incident'[k][n].told /\ ~incident'[k][n].recalled
    <3>1. CASE o = t
      BY <2>1, <3>1
    <3>2. CASE o # t
      <4>1. task'[o] = task[o] /\ incident'[k][n] = incident[k][n] /\ Calm(k, n)
        BY <1>d, <2>1, <3>2
      <4>2. QED BY <2>1, <4>1 DEF IncidentInv, Closing, At
    <3>3. QED BY <3>1, <3>2
  <2>2. QED BY <1>b, <2>1 DEF Closing, Calm, At
<1>8. Recovering'
  <2>1. ASSUME NEW o \in Tasks, NEW k \in Kinds, NEW n \in Rows, task'[o].kind = k, n \in task'[o].held,
               task'[o].pc = "recover", Calm(k, n)'
        PROVE  incident'[k][n].state = "resolved" /\ incident'[k][n].told /\ incident'[k][n].recalled
    <3>1. CASE o = t
      BY <2>1, <3>1
    <3>2. CASE o # t
      <4>1. task'[o] = task[o] /\ incident'[k][n] = incident[k][n] /\ Calm(k, n)
        BY <1>d, <2>1, <3>2
      <4>2. QED BY <2>1, <4>1 DEF IncidentInv, Recovering, At
    <3>3. QED BY <3>1, <3>2
  <2>2. QED BY <1>b, <2>1 DEF Recovering, Calm, At
<1>9. QED BY <1>1, <1>2, <1>3, <1>4, <1>5, <1>6, <1>7, <1>8 DEF IncidentInv

\* A step that touches no incident and leaves its task with none in hand.
LEMMA IncLeave ==
    ASSUME TypeOK, Shape, IncidentInv, TypeOK', Shape', NEW t \in Tasks, Active(t), Others(t), Stays(t),
           incident' = incident, task'[t].held = {}, task'[t].pc # "create", ~Announces(t)',
           \A n \in Rows :
              (Announces(t) /\ n \in task[t].held /\ incident[task[t].kind][n].state = "open"
               /\ incident[task[t].kind][n].calm)
              => (incident[task[t].kind][n].told <=> incident[task[t].kind][n].notified)
    PROVE  IncidentInv'
<1>1. RowsOK' /\ OneOpenIncident'
  BY DEF IncidentInv, RowsOK, OneOpenIncident, Open
<1>2. \A k \in Kinds, n \in Rows :
         (incident[k][n].state = "open" /\ incident[k][n].calm) =>
            \/ /\ incident'[k][n] = incident[k][n]
               /\ ~(Announces(t) /\ task[t].kind = k /\ n \in task[t].held)
            \/ incident'[k][n].told <=> incident'[k][n].notified
  OBVIOUS
<1>3. QED BY <1>1, <1>2, IncStep

\* What a mail changes in the rows its task holds disturbs nobody else.
LEMMA SetInc ==
    ASSUME TypeOK, IncidentInv, NEW t \in Tasks, task[t].kind \in Kinds,
           NEW field \in {"notified", "told", "recalled"}, incident' = Set(t, field),
           field = "recalled" => task[t].held \cap Open(task[t].kind) = {}
    PROVE  /\ RowsOK' /\ OneOpenIncident'
           /\ \A o \in Tasks, k \in Kinds, n \in Rows :
                 (o # t /\ task[o].kind = k /\ n \in task[o].held /\ Calm(k, n)') =>
                    incident'[k][n] = incident[k][n]
           /\ \A o \in Tasks, k \in Kinds, n \in Rows :
                 (o # t /\ task[o].kind = k /\ n \in task[o].held
                  /\ task[t].kind = k /\ n \in task[t].held) => ~Calm(k, n)'
           /\ \A k \in Kinds, n \in Rows :
                 /\ incident'[k][n].state = incident[k][n].state /\ incident'[k][n].calm = incident[k][n].calm
                 /\ (task[t].kind # k \/ n \notin task[t].held) => incident'[k][n] = incident[k][n]
<1>1. \A k \in Kinds, n \in Rows :
         /\ incident'[k][n].state = incident[k][n].state /\ incident'[k][n].calm = incident[k][n].calm
         /\ (task[t].kind # k \/ n \notin task[t].held) => incident'[k][n] = incident[k][n]
         /\ incident[k][n].state = "none" => incident'[k][n] = incident[k][n]
         /\ incident[k][n].state = "open" => incident'[k][n].recalled = incident[k][n].recalled
  <2> SUFFICES ASSUME NEW k \in Kinds, NEW n \in Rows
               PROVE  /\ incident'[k][n].state = incident[k][n].state /\ incident'[k][n].calm = incident[k][n].calm
                      /\ (task[t].kind # k \/ n \notin task[t].held) => incident'[k][n] = incident[k][n]
                      /\ incident[k][n].state = "none" => incident'[k][n] = incident[k][n]
                      /\ incident[k][n].state = "open" => incident'[k][n].recalled = incident[k][n].recalled
    OBVIOUS
  <2>1. incident[k][n] \in Incident /\ incident'[k][n] \in Incident
    BY SetOK DEF TypeOK
  <2>2. /\ incident'[k][n].state = incident[k][n].state /\ incident'[k][n].calm = incident[k][n].calm
        /\ (task[t].kind # k \/ n \notin task[t].held) => incident'[k][n] = incident[k][n]
        /\ incident[k][n].state = "none" => incident'[k][n] = incident[k][n]
    BY SetOK
  <2>3. (incident[k][n].state = "open" /\ k = task[t].kind /\ n \in task[t].held) => field # "recalled"
    BY DEF Open
  <2>4. field # "recalled" => (incident'[k][n].recalled <=> incident[k][n].recalled)
    BY ZenonT(30), SetOK
  <2>5. QED BY <2>1, <2>2, <2>3, <2>4 DEF Incident
<1>2. \A k \in Kinds : Open(k)' = Open(k)
  BY <1>1 DEF Open
<1>3. RowsOK'
  BY <1>1 DEF IncidentInv, RowsOK
<1>4. OneOpenIncident'
  BY <1>1, <1>2 DEF IncidentInv, OneOpenIncident, Open
<1>5. \A o \in Tasks, k \in Kinds, n \in Rows :
         (o # t /\ task[o].kind = k /\ n \in task[o].held
          /\ task[t].kind = k /\ n \in task[t].held) => ~Calm(k, n)'
  BY <1>1 DEF IncidentInv, Sole, Calm
<1>6. QED BY <1>1, <1>3, <1>4, <1>5

\* An open incident that is still calm has one task at most to do with it.
LEMMA CalmRow ==
    ASSUME TypeOK, Shape, IncidentInv, NEW t \in Tasks, Active(t), NEW k \in Kinds, NEW n \in Rows,
           incident[k][n].state = "open", incident[k][n].calm
    PROVE  /\ task[t].alone /\ \A o \in Tasks : o # t => task[o].pc = "idle" /\ task[o].held = {}
           /\ Open(k) = {n} /\ ~incident[k][n].recalled
           /\ (Announces(t) /\ task[t].kind = k /\ n \in task[t].held) =>
                 ~incident[k][n].notified /\ (incident[k][n].told <=> At(t, "notify"))
           /\ ~(Announces(t) /\ task[t].kind = k /\ n \in task[t].held) =>
                 (incident[k][n].told <=> incident[k][n].notified)
<1>1. task[t].alone
  BY DEF IncidentInv, CalmAlone, Open
<1>2. \A o \in Tasks : o # t => task[o].pc = "idle" /\ task[o].held = {}
  BY <1>1 DEF IncidentInv, AloneOnly, Active, At, Shape, ShapeOf
<1>3. Open(k) = {n} /\ ~incident[k][n].recalled
  BY DEF IncidentInv, OneOpenIncident, RowsOK, Open
<1>4. ASSUME Announces(t), task[t].kind = k, n \in task[t].held
      PROVE  ~incident[k][n].notified /\ (incident[k][n].told <=> At(t, "notify"))
  BY <1>1, <1>4 DEF IncidentInv, Announcing
<1>5. ASSUME ~(Announces(t) /\ task[t].kind = k /\ n \in task[t].held)
      PROVE  incident[k][n].told <=> incident[k][n].notified
  BY <1>2, <1>5 DEF IncidentInv, Announced, Open
<1>6. QED BY <1>1, <1>2, <1>3, <1>4, <1>5

\* The steps that find, open, announce, resolve and recall incidents.
LEMMA IncCheck ==
    ASSUME TypeOK, Shape, IncidentInv, NEW t \in Tasks, CheckStep(t) \/ MailFails(t)
    PROVE  IncidentInv'
<1>0. /\ TypeOK' /\ Shape' /\ Others(t) /\ Stays(t) /\ Active(t)
      /\ task \in [Tasks -> Task] /\ task[t] \in Task /\ ShapeOf(task[t])
  BY TypeCheck, Moves DEF Stays, Active, At, RenewSteps, IncidentSteps, TypeOK, Shape
<1>a. ASSUME Settle(t)
      PROVE  task'[t].held = {} /\ task'[t].pc \in {"idle", "find", "seek", "check"}
  BY <1>0, <1>a, AdvanceMoves DEF Settle
<1>b. ASSUME NEW step \in Steps, Goto(t, step)
      PROVE  /\ task'[t].pc = step /\ task'[t].held = task[t].held /\ task'[t].kind = task[t].kind
             /\ task'[t].alone = task[t].alone /\ task'[t].was = task[t].was
  BY <1>0, <1>b DEF Goto, Task
<1>e. ASSUME incident' = incident PROVE RowsOK' /\ OneOpenIncident'
  <2>1. RowsOK'
    BY <1>e DEF IncidentInv, RowsOK
  <2>2. OneOpenIncident'
    BY <1>e DEF IncidentInv, OneOpenIncident, Open
  <2>3. QED BY <2>1, <2>2
<1>f. \A o \in Tasks, k \in Kinds, j \in Rows :
         (o # t /\ task[o].kind = k /\ j \in task[o].held /\ task[t].kind = k /\ j \in task[t].held)
         => ~Calm(k, j)
  BY DEF IncidentInv, Sole
<1>g. ASSUME NEW field \in {"notified", "told", "recalled"}, incident' = Set(t, field),
             NEW k \in Kinds, task[t].kind = k, NEW n \in Rows, n \in task[t].held
      PROVE  /\ incident'[k][n].state = incident[k][n].state
             /\ incident[k][n] \in Incident /\ incident'[k][n] \in Incident
             /\ field # "notified" => (incident'[k][n].notified <=> incident[k][n].notified)
             /\ incident[k][n].told => incident'[k][n].told
             /\ (field = "told" /\ incident[k][n].state # "none") => incident'[k][n].told
             /\ (field = "recalled" /\ incident[k][n].state # "none") => incident'[k][n].recalled
  <2>0. incident' \in [Kinds -> [Rows -> Incident]]
    BY <1>g, SetOK
  <2>1. incident[k][n] \in Incident /\ incident'[k][n] \in Incident
    <3>1. incident \in [Kinds -> [Rows -> Incident]]
      BY DEF TypeOK
    <3>2. QED BY <2>0, <3>1
  <2>2. /\ incident'[k][n].state = incident[k][n].state
        /\ field # "notified" => (incident'[k][n].notified <=> incident[k][n].notified)
        /\ incident[k][n].told => incident'[k][n].told
    <3>1. incident'[k][n].state = incident[k][n].state
      BY <1>g, SetOK
    <3>2. field # "notified" => (incident'[k][n].notified <=> incident[k][n].notified)
      BY <1>g, SetOK
    <3>3. incident[k][n].told => incident'[k][n].told
      BY <1>g, SetOK
    <3>4. QED BY <3>1, <3>2, <3>3
  <2>3. ASSUME field = "told", incident[k][n].state # "none" PROVE incident'[k][n].told
    BY <1>g, <2>3, SetOK
  <2>4. ASSUME field = "recalled", incident[k][n].state # "none" PROVE incident'[k][n].recalled
    BY <1>g, <2>4, SetOK
  <2>5. QED BY <2>1, <2>2, <2>3, <2>4
<1>c. ASSUME incident' = incident, task'[t].held = {}, task'[t].pc \in {"idle", "find", "seek", "check", "patch"},
             ~At(t, "notify")
      PROVE  IncidentInv'
  <2>1. task'[t].pc # "create" /\ ~Announces(t)'
    BY <1>c DEF Announces
  <2>2. ASSUME NEW n \in Rows, Announces(t), n \in task[t].held, incident[task[t].kind][n].state = "open",
               incident[task[t].kind][n].calm
        PROVE  incident[task[t].kind][n].told <=> incident[task[t].kind][n].notified
    <3>1. task[t].kind \in Kinds
      BY <1>0, <2>2 DEF Announces, ShapeOf, Alerting
    <3>2. QED BY <1>0, <1>c, <2>2, <3>1, CalmRow
  <2>3. QED BY <1>0, <1>c, <2>1, <2>2, IncLeave
<1>1. CASE Probe(t)
  <2>1. PICK ssh \in BOOLEAN :
          task' = [task EXCEPT ![t] = [@ EXCEPT !.pc = "patch", !.found = Outcome(ssh),
                                                !.rest = CheckOps(ssh)]]
    BY ZenonT(30), <1>1 DEF Probe
  <2>2. task'[t].pc = "patch" /\ task'[t].held = task[t].held /\ task[t].pc = "check"
    BY <1>0, <1>1, <2>1 DEF Task, Probe, At
  <2>3. QED BY <1>0, <1>1, <1>c, <2>2 DEF Probe, At, ShapeOf
<1>2. CASE Patch(t)
  <2> DEFINE q == [task[t] EXCEPT !.inst = Absent, !.found = Absent]
  <2>1. task' = [task EXCEPT ![t] = Advance(q)] /\ incident' = incident /\ task[t].pc = "patch"
    BY <1>2 DEF Patch, At
  <2>2. q \in Task
    BY <1>0, IdleOK DEF Task
  <2> HIDE DEF q
  <2>3. task'[t].held = {} /\ task'[t].pc \in {"idle", "find", "seek", "check"}
    BY <1>0, <2>1, <2>2, AdvanceMoves
  <2>4. QED BY <1>c, <2>1, <2>3 DEF At
<1>3. CASE FindOpen(t)
  <2>0. task[t].pc = "find" /\ task[t].held = {} /\ incident' = incident
    BY <1>0, <1>3 DEF FindOpen, At, ShapeOf
  <2>1. CASE Open(task[t].kind) = {}
    <3>1. task'[t].pc = "create" /\ task'[t].held = {} /\ task'[t].kind = task[t].kind
      BY <1>3, <1>b, <2>0, <2>1 DEF FindOpen, Steps, IncidentSteps
    <3>2. RowsOK' /\ OneOpenIncident'
      BY <1>e, <2>0
    <3>3. ~Announces(t) /\ ~Announces(t)'
      BY <2>0, <3>1 DEF Announces
    <3>4. \A k \in Kinds : task'[t].kind = k => Open(k)' = {}
      BY <2>0, <2>1, <3>1 DEF Open
    <3>5. QED BY <1>0, <2>0, <3>1, <3>2, <3>3, <3>4, IncStep
  <2>2. CASE Open(task[t].kind) # {}
    BY <1>3, <1>a, <1>c, <2>0, <2>2 DEF FindOpen, At
  <2>3. QED BY <2>1, <2>2
<1>4. CASE CreateIncident(t)
  <2> DEFINE kind == task[t].kind
             new == [NoRow EXCEPT !.state = "open", !.calm = task[t].alone]
  <2>0. kind \in Kinds /\ task[t].pc = "create"
    BY <1>0, <1>4 DEF CreateIncident, At, ShapeOf, IncidentSteps
  <2>1. PICK m \in Rows :
           /\ incident[kind][m].state = "none"
           /\ \A o \in Tasks : task[o].kind = kind => m \notin task[o].held
           /\ \A j \in Kinds, n \in Rows :
                 incident'[j][n] = IF j = kind /\ n = m THEN new ELSE incident[j][n]
           /\ IF kind \in Alerting
              THEN /\ task' = [task EXCEPT ![t] = [@ EXCEPT !.pc = "mail", !.held = {m}]]
                   /\ UNCHANGED blurred
              ELSE Settle(t)
    BY ZenonT(30), <1>4, <2>0, CreateOK
  <2>2. new.state = "open" /\ new.calm = task[t].alone /\ ~new.told /\ ~new.notified /\ ~new.recalled
    BY DEF NoRow
  <2> HIDE DEF new
  <2>3. \/ task'[t].held = {} /\ task'[t].pc \in {"idle", "find", "seek", "check"}
        \/ task'[t].held = {m} /\ task'[t].pc = "mail" /\ task'[t].kind = kind
    <3>1. CASE kind \in Alerting
      <4> DEFINE q == [task[t] EXCEPT !.pc = "mail", !.held = {m}]
      <4>1. task' = [task EXCEPT ![t] = q]
        BY <2>1, <3>1
      <4>2. task'[t] = q
        BY <1>0, <4>1
      <4>3. q.held = {m} /\ q.pc = "mail" /\ q.kind = kind
        BY <1>0 DEF Task
      <4> HIDE DEF q
      <4>4. QED BY <4>2, <4>3
    <3>2. CASE kind \notin Alerting
      BY <1>a, <2>1, <3>2
    <3>3. QED BY <3>1, <3>2
  <2>4. \A n \in Rows : incident[kind][n].state = "open" => ~incident[kind][n].calm
    <3> SUFFICES ASSUME NEW n \in Rows, incident[kind][n].state = "open", incident[kind][n].calm PROVE FALSE
      OBVIOUS
    <3>1. task[t].alone
      BY <1>0, <2>0, CalmRow
    <3>2. Open(kind) = {}
      BY <2>0, <3>1 DEF IncidentInv, Vacant, At
    <3>3. QED BY <3>2 DEF Open
  <2>5. task[t].alone => Open(kind) = {}
    BY <2>0 DEF IncidentInv, Vacant, At
  <2>6. RowsOK'
    BY <2>0, <2>1, <2>2 DEF IncidentInv, RowsOK
  <2>7. OneOpenIncident'
    <3> SUFFICES ASSUME NEW k \in Kinds, NEW n \in Rows, incident'[k][n].state = "open", incident'[k][n].calm,
                        NEW n2 \in Rows, incident'[k][n2].state = "open"
                 PROVE  n2 = n
      BY DEF OneOpenIncident, Open
    <3>1. CASE k = kind
      BY <2>1, <2>2, <2>4, <2>5, <3>1 DEF Open
    <3>2. CASE k # kind
      BY <2>1, <3>2 DEF IncidentInv, OneOpenIncident, Open
    <3>3. QED BY <3>1, <3>2
  <2>8. ~Announces(t) /\ (Announces(t)' => task'[t].held = {m} /\ task'[t].kind = kind /\ task'[t].pc = "mail")
    BY <2>0, <2>3 DEF Announces
  <2>9. Announces(t)' =>
              \E n \in Rows :
                 /\ task'[t].held = {n}
                 /\ task'[t].alone =>
                       LET r == incident'[task'[t].kind][n]
                       IN  r.state = "open" /\ ~r.notified /\ (r.told <=> task'[t].pc = "notify")
    BY <2>0, <2>1, <2>2, <2>8
  <2>10. \A k \in Kinds, n \in Rows :
           (incident'[k][n].state = "open" /\ incident'[k][n].calm)
           => (incident[k][n].state = "open" /\ incident[k][n].calm) \/ task[t].alone
    BY <2>1, <2>2
  <2>11. \A k \in Kinds, n \in Rows :
           \/ incident'[k][n] = incident[k][n]
           \/ incident'[k][n].told <=> incident'[k][n].notified
    BY <2>1, <2>2
  <2>12. \A o \in Tasks, k \in Kinds, n \in Rows :
           (task[o].kind = k /\ n \in task[o].held) => incident'[k][n] = incident[k][n]
    BY <2>1
  <2>13. \A o \in Tasks, k \in Kinds, n \in Rows :
           ~(task[o].kind = k /\ n \in task[o].held /\ task'[t].kind = k /\ n \in task'[t].held)
    BY <2>1, <2>3
  <2>14. task'[t].pc \notin {"create", "close", "recover"}
    BY <2>3
  <2>15. QED BY SMTT(30), <1>0, <2>6, <2>7, <2>8, <2>9, <2>10, <2>11, <2>12, <2>13, <2>14, IncStep
<1>5. CASE BeginMail(t)
  <2>0. task[t].pc = "mail" /\ incident' = incident
    BY <1>5 DEF BeginMail, At
  <2>1. CASE task[t].kind \in lastSent
    BY <1>5, <1>a, <1>c, <2>0, <2>1 DEF BeginMail, At
  <2>2. CASE task[t].kind \notin lastSent
    <3>1. /\ task'[t].pc = "send" /\ task'[t].held = task[t].held /\ task'[t].kind = task[t].kind
          /\ task'[t].alone = task[t].alone
      BY <1>5, <1>b, <2>2 DEF BeginMail, Steps, IncidentSteps
    <3>2. RowsOK' /\ OneOpenIncident'
      BY <1>e, <2>0
    <3>3. PICK n \in Rows : /\ task[t].held = {n}
                            /\ task[t].alone =>
                                  LET r == incident[task[t].kind][n]
                                  IN  r.state = "open" /\ ~r.notified /\ (r.told <=> At(t, "notify"))
      BY <2>0 DEF IncidentInv, Announcing, Announces
    <3>4. Announces(t)' =>
              \E j \in Rows :
                 /\ task'[t].held = {j}
                 /\ task'[t].alone =>
                       LET r == incident'[task'[t].kind][j]
                       IN  r.state = "open" /\ ~r.notified /\ (r.told <=> task'[t].pc = "notify")
      BY <2>0, <3>1, <3>3 DEF At
    <3>5. \A o \in Tasks, k \in Kinds, j \in Rows :
              (o # t /\ task[o].kind = k /\ j \in task[o].held
               /\ task'[t].kind = k /\ j \in task'[t].held)
              => ~Calm(k, j)'
      <4> SUFFICES ASSUME NEW o \in Tasks, NEW k \in Kinds, NEW j \in Rows,
                          o # t, task[o].kind = k, j \in task[o].held,
                          task'[t].kind = k, j \in task'[t].held
                   PROVE  ~Calm(k, j)'
        OBVIOUS
      <4>1. task[t].kind = k /\ j \in task[t].held
        BY <3>1, Zenon
      <4>2. ~Calm(k, j)
        BY <1>f, <4>1, ZenonT(30) DEF Calm
      <4>3. QED BY <2>0, <4>2, Zenon DEF Calm
    <3>6. Announces(t)'
      BY <3>1 DEF Announces
    <3>7. QED BY <1>0, <2>0, <3>1, <3>2, <3>4, <3>5, <3>6, IncStep
  <2>3. QED BY <2>1, <2>2
<1>6. CASE MailFails(t)
  BY <1>6, <1>a, <1>c DEF MailFails, At
<1>7. CASE MailAccepted(t)
  <2>0. /\ task[t].pc = "send" /\ task[t].kind \in Kinds /\ incident' = Set(t, "told")
        /\ task'[t].pc = "notify" /\ task'[t].held = task[t].held /\ task'[t].kind = task[t].kind
        /\ task'[t].alone = task[t].alone
    BY <1>0, <1>7, <1>b DEF MailAccepted, At, ShapeOf, Steps, IncidentSteps
  <2>1. PICK n \in Rows : /\ task[t].held = {n}
                          /\ task[t].alone =>
                                LET r == incident[task[t].kind][n]
                                IN  r.state = "open" /\ ~r.notified /\ (r.told <=> At(t, "notify"))
    BY <2>0 DEF IncidentInv, Announcing, Announces
  <2>2. /\ RowsOK' /\ OneOpenIncident'
        /\ \A o \in Tasks, k \in Kinds, j \in Rows :
              (o # t /\ task[o].kind = k /\ j \in task[o].held /\ Calm(k, j)') =>
                 incident'[k][j] = incident[k][j]
        /\ \A o \in Tasks, k \in Kinds, j \in Rows :
              (o # t /\ task[o].kind = k /\ j \in task[o].held
               /\ task[t].kind = k /\ j \in task[t].held) => ~Calm(k, j)'
        /\ \A k \in Kinds, j \in Rows :
              /\ incident'[k][j].state = incident[k][j].state /\ incident'[k][j].calm = incident[k][j].calm
              /\ (task[t].kind # k \/ j \notin task[t].held) => incident'[k][j] = incident[k][j]
    BY <2>0, SetInc
  <2>3. task[t].alone =>
           LET r == incident'[task[t].kind][n]
           IN  r.state = "open" /\ ~r.notified /\ r.told
    <3>1. PICK kind \in Kinds : kind = task[t].kind
      BY <2>0
    <3>2. /\ incident'[kind][n].state = incident[kind][n].state
          /\ incident'[kind][n].notified <=> incident[kind][n].notified
          /\ incident[kind][n].state # "none" => incident'[kind][n].told
      BY <1>g, <2>0, <2>1, <3>1
    <3>3. QED BY <2>1, <3>1, <3>2
  <2>4. Announces(t)' =>
              \E j \in Rows :
                 /\ task'[t].held = {j}
                 /\ task'[t].alone =>
                       LET r == incident'[task'[t].kind][j]
                       IN  r.state = "open" /\ ~r.notified /\ (r.told <=> task'[t].pc = "notify")
    BY <2>0, <2>1, <2>3
  <2>5. Announces(t)'
    BY <2>0 DEF Announces
  <2>6. QED BY <1>0, <2>0, <2>2, <2>4, <2>5, IncStep
<1>8. CASE MarkNotified(t)
  <2>0. /\ task[t].pc = "notify" /\ task[t].kind \in Kinds /\ incident' = Set(t, "notified")
        /\ task'[t].pc \in {"idle", "find", "seek", "check"} /\ task'[t].held = {}
    BY <1>0, <1>8, <1>a DEF MarkNotified, At, ShapeOf, IncidentSteps
  <2>1. /\ RowsOK' /\ OneOpenIncident'
        /\ \A o \in Tasks, k \in Kinds, j \in Rows :
              (o # t /\ task[o].kind = k /\ j \in task[o].held /\ Calm(k, j)') =>
                 incident'[k][j] = incident[k][j]
        /\ \A k \in Kinds, j \in Rows :
              /\ incident'[k][j].state = incident[k][j].state /\ incident'[k][j].calm = incident[k][j].calm
              /\ (task[t].kind # k \/ j \notin task[t].held) => incident'[k][j] = incident[k][j]
    BY <2>0, SetInc
  <2>2. ~Announces(t)'
    BY <2>0 DEF Announces
  <2>3. ASSUME NEW k \in Kinds, NEW n \in Rows, incident'[k][n].state = "open", incident'[k][n].calm
        PROVE  \/ /\ incident'[k][n] = incident[k][n]
                  /\ ~(Announces(t) /\ task[t].kind = k /\ n \in task[t].held)
               \/ incident'[k][n].told <=> incident'[k][n].notified
    <3>1. CASE task[t].kind = k /\ n \in task[t].held
      <4>1. incident[k][n].state = "open" /\ incident[k][n].calm
        BY <2>1, <2>3
      <4>2. incident[k][n].told
        BY <1>0, <2>0, <3>1, <4>1, CalmRow DEF Announces, At
      <4>3. incident'[k][n].told /\ incident'[k][n].notified
        BY <2>0, <3>1, <4>1, <4>2, SetOK
      <4>4. QED BY <4>3
    <3>2. CASE ~(task[t].kind = k /\ n \in task[t].held)
      BY <2>1, <3>2
    <3>3. QED BY <3>1, <3>2
  <2>4. QED BY <1>0, <2>0, <2>1, <2>2, <2>3, IncStep
<1>9. CASE FindAllOpen(t)
  <2>0. task[t].pc = "seek" /\ incident' = incident /\ task[t].kind \in Kinds
    BY <1>0, <1>9 DEF FindAllOpen, At, ShapeOf, IncidentSteps
  <2>1. CASE Open(task[t].kind) = {}
    BY <1>9, <1>a, <1>c, <2>0, <2>1 DEF FindAllOpen, At
  <2>2. CASE Open(task[t].kind) # {}
    <3> DEFINE kind == task[t].kind
               was == \E n \in Open(kind) : incident[kind][n].notified
    <3>1. task' = [task EXCEPT ![t].pc = "close", ![t].held = Open(kind), ![t].was = was]
      BY <1>9, <2>2 DEF FindAllOpen
    <3>2. /\ task'[t].pc = "close" /\ task'[t].held = Open(kind) /\ task'[t].was = was
          /\ task'[t].kind = kind
      BY <1>0, <3>1 DEF Task
    <3>3. RowsOK' /\ OneOpenIncident'
      BY <1>e, <2>0
    <3>4. ~Announces(t) /\ ~Announces(t)'
      BY <2>0, <3>2 DEF Announces
    <3>5. ASSUME NEW n \in Open(kind), incident[kind][n].calm
          PROVE  /\ \A o \in Tasks : o # t => task[o].held = {}
                 /\ was = incident[kind][n].told /\ ~incident[kind][n].recalled
      <4>0. kind \in Kinds
        BY <2>0
      <4>1. n \in Rows /\ incident[kind][n].state = "open" /\ incident[kind][n] \in Incident
        <5>1. n \in Rows /\ incident[kind][n].state = "open"
          BY <3>5 DEF Open
        <5>2. incident \in [Kinds -> [Rows -> Incident]]
          BY DEF TypeOK
        <5>3. QED BY ZenonT(30), <4>0, <5>1, <5>2
      <4>2. /\ \A o \in Tasks : o # t => task[o].held = {}
            /\ Open(kind) = {n} /\ ~incident[kind][n].recalled
            /\ incident[kind][n].told <=> incident[kind][n].notified
        BY <1>0, <2>0, <3>4, <3>5, <4>1, CalmRow
      <4>3. was = incident[kind][n].told
        BY <4>1, <4>2 DEF Incident
      <4>4. QED BY <4>2, <4>3
    <3>6. \A k \in Kinds, n \in Rows :
              (task'[t].kind = k /\ n \in task'[t].held /\ Calm(k, n)') =>
                 task'[t].was = incident'[k][n].told /\ ~incident'[k][n].recalled
      <4> SUFFICES ASSUME NEW n \in Rows, n \in Open(kind), incident'[kind][n].calm
                   PROVE  task'[t].was = incident'[kind][n].told /\ ~incident'[kind][n].recalled
        BY ZenonT(30), <3>2 DEF Calm
      <4>1. incident[kind][n].calm
        BY <2>0
      <4>2. QED BY <2>0, <3>2, <3>5, <4>1
    <3>7. \A o \in Tasks, k \in Kinds, n \in Rows :
              (o # t /\ task[o].kind = k /\ n \in task[o].held
               /\ task'[t].kind = k /\ n \in task'[t].held)
              => ~Calm(k, n)'
      BY ZenonT(30), <2>0, <3>2, <3>5 DEF Calm
    <3> HIDE DEF was
    <3>8. QED BY <1>0, <2>0, <3>2, <3>3, <3>4, <3>6, <3>7, IncStep
  <2>3. QED BY <2>1, <2>2
<1>10. ASSUME NEW m \in Rows, CloseIncident(t, m) PROVE IncidentInv'
  <2> DEFINE kind == task[t].kind
  <2>0. /\ task[t].pc = "close" /\ kind \in Kinds /\ task' = task /\ m \in task[t].held
        /\ incident[kind][m].state = "open"
        /\ incident' = [incident EXCEPT ![kind][m].state = "resolved"]
    BY <1>0, <1>10 DEF CloseIncident, At, ShapeOf, IncidentSteps, Open, ghosts
  <2>1. \A k \in Kinds, n \in Rows :
           /\ (k # kind \/ n # m) => incident'[k][n] = incident[k][n]
           /\ incident'[k][n].calm = incident[k][n].calm /\ incident'[k][n].told = incident[k][n].told
           /\ incident'[k][n].recalled = incident[k][n].recalled
           /\ (k = kind /\ n = m) => incident'[k][n].state = "resolved"
    BY <2>0 DEF TypeOK, Incident
  <2>2. RowsOK'
    BY <2>0, <2>1, SMTT(40) DEF IncidentInv, RowsOK
  <2>3. \A k \in Kinds, n \in Rows : incident'[k][n].state = "open" => incident[k][n].state = "open"
    BY <2>1
  <2>4. OneOpenIncident'
    BY <2>1, <2>3 DEF IncidentInv, OneOpenIncident, Open
  <2>5. ~Announces(t) /\ ~Announces(t)'
    BY <2>0 DEF Announces
  <2>6. \A o \in Tasks, k \in Kinds, n \in Rows :
           (o # t /\ task[o].kind = k /\ n \in task[o].held
            /\ task[t].kind = k /\ n \in task[t].held) => ~Calm(k, n)'
    BY <2>0, <2>1 DEF IncidentInv, Sole, Calm
  <2>7. \A o \in Tasks, k \in Kinds, n \in Rows :
           (o # t /\ task[o].kind = k /\ n \in task[o].held /\ Calm(k, n)') =>
              incident'[k][n] = incident[k][n]
    BY <2>0, <2>1, <2>6, SMTT(40)
  <2>8. \A k \in Kinds, n \in Rows :
           (task[t].kind = k /\ n \in task[t].held /\ Calm(k, n)') =>
              task[t].was = incident'[k][n].told /\ ~incident'[k][n].recalled
    <3> SUFFICES ASSUME NEW n \in task[t].held, n \in Rows, Calm(kind, n)'
                 PROVE  task[t].was = incident'[kind][n].told /\ ~incident'[kind][n].recalled
      BY <2>0
    <3>1. Calm(kind, n)
      BY <2>0, <2>1, SMTT(40) DEF Calm
    <3>2. task[t].was = incident[kind][n].told /\ ~incident[kind][n].recalled
      BY <2>0, <3>1 DEF IncidentInv, Closing, At
    <3>3. QED BY <2>0, <2>1, <3>2, SMTT(40)
  <2>9. \A k \in Kinds, n \in Rows : incident'[k][n].state = "open" => incident'[k][n] = incident[k][n]
    BY <2>1
  <2>10. /\ \A o \in Tasks, k \in Kinds, n \in Rows :
               (o # t /\ task[o].kind = k /\ n \in task[o].held
                /\ task'[t].kind = k /\ n \in task'[t].held) => ~Calm(k, n)'
         /\ \A k \in Kinds, n \in Rows :
               (task'[t].kind = k /\ n \in task'[t].held /\ Calm(k, n)') =>
                  task'[t].was = incident'[k][n].told /\ ~incident'[k][n].recalled
         /\ task'[t].pc = "close"
    BY <2>0, <2>6, <2>8
  <2>11. \A k \in Kinds, n \in Rows :
            (incident'[k][n].state = "open" /\ incident'[k][n].calm)
            => incident[k][n].state = "open" /\ incident[k][n].calm
    BY <2>1, <2>3
  <2>12. QED BY <1>0, <2>2, <2>4, <2>5, <2>7, <2>9, <2>10, <2>11, IncStep
<1>d. ASSUME incident' = Forget(t), Settle(t), task[t].pc \in {"close", "recover"}
      PROVE  IncidentInv'
  <2>0. /\ task'[t].pc \in {"idle", "find", "seek", "check"} /\ task'[t].held = {}
        /\ task[t].kind \in Kinds /\ NoRow.state = "none" /\ ~Announces(t) /\ ~Announces(t)'
    BY <1>0, <1>a, <1>d DEF ShapeOf, IncidentSteps, NoRow, Announces
  <2>1. \A k \in Kinds, n \in Rows : incident'[k][n] =
                 IF k = task[t].kind /\ n \in task[t].held /\ incident[k][n].state = "resolved"
                 THEN NoRow ELSE incident[k][n]
    BY <1>d, <2>0, ForgetOK
  <2>2. \A k \in Kinds, n \in Rows :
           /\ incident'[k][n].state # "none" => incident'[k][n] = incident[k][n]
           /\ incident'[k][n].state = "open" <=> incident[k][n].state = "open"
    BY <2>0, <2>1
  <2>3. RowsOK'
    BY <2>0, <2>1 DEF IncidentInv, RowsOK
  <2>4. OneOpenIncident'
    BY <2>2 DEF IncidentInv, OneOpenIncident, Open
  <2>5. QED BY <1>0, <2>0, <2>2, <2>3, <2>4, IncStep DEF Calm
<1>11. CASE AllClosed(t)
  <2>0. task[t].pc = "close" /\ task[t].kind \in Kinds /\ task[t].held \cap Open(task[t].kind) = {}
    BY <1>0, <1>11 DEF AllClosed, At, ShapeOf, IncidentSteps
  <2>1. CASE task[t].kind \in Alerting /\ task[t].was
    <3> DEFINE kind == task[t].kind
    <3>1. /\ incident' = Set(t, "recalled")
          /\ task'[t].pc = "recover" /\ task'[t].held = task[t].held /\ task'[t].kind = kind
      <4>1. incident' = Set(t, "recalled") /\ Goto(t, "recover")
        BY <1>11, <2>1 DEF AllClosed
      <4>2. QED BY <1>b, <4>1 DEF Steps, IncidentSteps
    <3>2. /\ RowsOK' /\ OneOpenIncident'
          /\ \A o \in Tasks, k \in Kinds, j \in Rows :
                (o # t /\ task[o].kind = k /\ j \in task[o].held /\ Calm(k, j)') =>
                   incident'[k][j] = incident[k][j]
          /\ \A o \in Tasks, k \in Kinds, j \in Rows :
                (o # t /\ task[o].kind = k /\ j \in task[o].held
                 /\ task[t].kind = k /\ j \in task[t].held) => ~Calm(k, j)'
          /\ \A k \in Kinds, j \in Rows :
                /\ incident'[k][j].state = incident[k][j].state /\ incident'[k][j].calm = incident[k][j].calm
                /\ (task[t].kind # k \/ j \notin task[t].held) => incident'[k][j] = incident[k][j]
      BY <2>0, <3>1, SetInc
    <3>3. ~Announces(t) /\ ~Announces(t)'
      BY <2>0, <3>1 DEF Announces
    <3>4. ASSUME NEW n \in Rows, n \in task[t].held, incident'[kind][n].calm, incident'[kind][n].state # "none"
          PROVE  incident'[kind][n].state = "resolved" /\ incident'[kind][n].told /\ incident'[kind][n].recalled
      <4>1. incident[kind][n] \in Incident /\ Calm(kind, n)
        <5>1. incident[kind][n] \in Incident
          BY <1>g, <2>0, <3>1, <3>4
        <5>2. /\ incident'[kind][n].state = incident[kind][n].state
              /\ incident'[kind][n].calm = incident[kind][n].calm
          BY <2>0, <3>2
        <5>3. QED BY <3>4, <5>1, <5>2 DEF Calm
      <4>2. incident[kind][n].state = "resolved"
        BY <2>0, <3>4, <4>1 DEF Incident, Calm, Open
      <4>3. incident[kind][n].told
        BY <2>0, <2>1, <3>4, <4>1 DEF IncidentInv, Closing, At
      <4>4. /\ incident'[kind][n].state = incident[kind][n].state
            /\ incident[kind][n].told => incident'[kind][n].told
            /\ incident[kind][n].state # "none" => incident'[kind][n].recalled
        BY <1>g, <2>0, <3>1, <3>4
      <4>5. QED BY <4>2, <4>3, <4>4
    <3>5. \A k \in Kinds, n \in Rows : incident'[k][n].state = "open" => incident'[k][n] = incident[k][n]
      BY <2>0, <3>2 DEF Open
    <3>6. \A k \in Kinds, n \in Rows :
              (task'[t].kind = k /\ n \in task'[t].held /\ Calm(k, n)') =>
                 incident'[k][n].state = "resolved" /\ incident'[k][n].told /\ incident'[k][n].recalled
      BY <3>1, <3>4 DEF Calm
    <3>7. \A o \in Tasks, k \in Kinds, j \in Rows :
              (o # t /\ task[o].kind = k /\ j \in task[o].held
               /\ task'[t].kind = k /\ j \in task'[t].held) => ~Calm(k, j)'
      BY <3>1, <3>2
    <3>8. \A k \in Kinds, n \in Rows :
              (incident'[k][n].state = "open" /\ incident'[k][n].calm)
              => (incident[k][n].state = "open" /\ incident[k][n].calm) \/ task[t].alone
      BY <3>5
    <3>9. \A k \in Kinds, n \in Rows :
              (task'[t].kind = k /\ n \in task'[t].held /\ Calm(k, n)') =>
                 /\ task'[t].pc = "close" =>
                       task'[t].was = incident'[k][n].told /\ ~incident'[k][n].recalled
                 /\ task'[t].pc = "recover" =>
                       incident'[k][n].state = "resolved" /\ incident'[k][n].told /\ incident'[k][n].recalled
      BY <3>1, <3>6
    <3>10. task'[t].pc # "create"
      BY <3>1
    <3>11. QED BY <1>0, <3>2, <3>3, <3>5, <3>7, <3>8, <3>9, <3>10, IncStep
  <2>2. CASE ~(task[t].kind \in Alerting /\ task[t].was)
    BY <1>11, <1>d, <2>0, <2>2 DEF AllClosed
  <2>3. QED BY <2>1, <2>2
<1>12. CASE MailRecovery(t)
  BY <1>12, <1>d DEF MailRecovery, At
<1>13. QED BY <1>1, <1>2, <1>3, <1>4, <1>5, <1>6, <1>7, <1>8, <1>9, <1>10, <1>11, <1>12 DEF CheckStep

\* What a new task is.
LEMMA Starts ==
    ASSUME TypeOK, Shape, NEW t \in Tasks,
           \/ StartCheck(t) \/ (\E manual \in BOOLEAN : StartRenewal(t, manual))
           \/ StartTest(t) \/ Install(t)
    PROVE  \E r \in Task :
              /\ Begin(t, r) /\ r.pc \in {"check", "mark", "record", "i_job"}
              /\ r.alone /\ r.held = {}
<1>0. Idle \in Task /\ Idle.alone /\ Idle.held = {}
  BY IdleOK DEF Idle
<1>1. CASE StartCheck(t)
  <2> DEFINE r == [Idle EXCEPT !.pc = "check", !.inst = server]
  <2>1. r \in Task /\ r.pc = "check" /\ r.alone /\ r.held = {}
    BY <1>0 DEF TypeOK, Task, Steps
  <2> HIDE DEF r
  <2>2. Begin(t, r)
    BY <1>1 DEF StartCheck, r
  <2>3. QED BY <2>1, <2>2
<1>2. ASSUME NEW manual \in BOOLEAN, StartRenewal(t, manual)
      PROVE  \E r \in Task : Begin(t, r) /\ r.pc = "mark" /\ r.alone /\ r.held = {}
  <2> DEFINE r == [Idle EXCEPT !.pc = "mark", !.inst = server, !.manual = manual, !.rescue = TRUE,
                               !.prev = IF manual THEN "online" ELSE server.status]
  <2>1. server.status # "absent" /\ server \in Server
    BY ZenonT(30), <1>2 DEF StartRenewal, TypeOK
  <2>2. r \in Task /\ r.pc = "mark" /\ r.alone /\ r.held = {}
    BY <1>0, <2>1, ZenonT(60) DEF Task, Steps, RenewSteps, Server
  <2> HIDE DEF r
  <2>3. Begin(t, r)
    BY ZenonT(30), <1>2 DEF StartRenewal, r
  <2>4. QED BY <2>2, <2>3
<1>3. CASE StartTest(t)
  <2> DEFINE r == [Idle EXCEPT !.pc = "record", !.seen = tested]
  <2>1. r \in Task /\ r.pc = "record" /\ r.alone /\ r.held = {}
    BY <1>0 DEF TypeOK, Task, Steps
  <2> HIDE DEF r
  <2>2. Begin(t, r)
    BY <1>3 DEF StartTest, r
  <2>3. QED BY <2>1, <2>2
<1>4. CASE Install(t)
  <2> DEFINE inst == [Absent EXCEPT !.status = "installing"]
             r == [Idle EXCEPT !.pc = "i_job", !.inst = inst]
  <2>1. inst \in Server
    BY DEF Absent, NewServer, Server, Busy
  <2> HIDE DEF inst
  <2>2. r \in Task /\ r.pc = "i_job" /\ r.alone /\ r.held = {}
    BY <1>0, <2>1 DEF Task, Steps, InstallSteps
  <2> HIDE DEF r
  <2>3. Begin(t, r)
    BY <1>4 DEF Install, r, inst
  <2>4. QED BY <2>2, <2>3
<1>5. QED BY <1>1, <1>2, <1>3, <1>4

\* A task that meets another, or loses one, leaves no open incident calm.
LEMMA IncDisturb ==
    ASSUME TypeOK, Shape, IncidentInv, NEW lost, Disturb(lost),
           \A o \in Tasks : task'[o].pc # "idle" => ~task'[o].alone,
           \A o \in Tasks :
              \/ task'[o].held = {} /\ ~Announces(o)'
              \/ /\ task'[o].pc = task[o].pc /\ task'[o].kind = task[o].kind
                 /\ task'[o].held = task[o].held /\ task'[o].was = task[o].was
    PROVE  IncidentInv'
<1>0. /\ NoRow.state = "none" /\ NoRow.recalled = FALSE
      /\ \A o \in Tasks : \A n \in task[o].held : task[o].kind \in Kinds /\ n \in Rows
  BY DEF NoRow, TypeOK, Task, Shape, ShapeOf, IncidentSteps, Alerting
<1>1. ASSUME NEW k \in Kinds, NEW n \in Rows
      PROVE  /\ incident'[k][n].state = "open" =>
                   ~incident'[k][n].calm /\ incident[k][n].state = "open"
                   /\ (incident'[k][n].recalled <=> incident[k][n].recalled)
             /\ incident'[k][n].state = "none" => incident'[k][n] = NoRow \/ incident'[k][n] = incident[k][n]
             /\ (incident'[k][n].calm /\ incident'[k][n].state # "none") =>
                   incident'[k][n] = incident[k][n] /\ incident[k][n].state # "open"
  <2>1. incident[k][n] \in Incident
    BY DEF TypeOK
  <2> DEFINE forget == \E t \in lost : task[t].kind = k /\ n \in task[t].held
  <2>2. incident'[k][n] = IF incident[k][n].state = "resolved" /\ forget
                 THEN NoRow
                 ELSE IF incident[k][n].state = "open" THEN [incident[k][n] EXCEPT !.calm = FALSE]
                 ELSE incident[k][n]
    BY DisturbOK
  <2> HIDE DEF forget
  <2>3. QED BY <1>0, <2>1, <2>2 DEF Incident
<1>2. AloneOnly' /\ Vacant'
  BY DEF AloneOnly, Vacant, Active, At
<1>3. CalmAlone'
  BY <1>1 DEF CalmAlone, Open
<1>4. RowsOK'
  <2> SUFFICES ASSUME NEW k \in Kinds, NEW n \in Rows
               PROVE  /\ incident'[k][n].state = "none" => incident'[k][n] = NoRow
                      /\ incident'[k][n].state = "open" => ~incident'[k][n].recalled
    BY DEF RowsOK
  <2>1. /\ incident[k][n].state = "none" => incident[k][n] = NoRow
        /\ incident[k][n].state = "open" => ~incident[k][n].recalled
    BY DEF IncidentInv, RowsOK
  <2>2. QED BY <1>1, <2>1
<1>5. OneOpenIncident'
  BY <1>1 DEF OneOpenIncident, Open
<1>6. Announced'
  BY <1>1 DEF Announced, Open
<1>7. Announcing'
  <2> SUFFICES ASSUME NEW o \in Tasks, Announces(o)'
               PROVE  (\E n \in Rows : task'[o].held = {n}) /\ ~task'[o].alone
    BY DEF Announcing
  <2>1. task'[o].pc = task[o].pc /\ task'[o].held = task[o].held /\ task'[o].pc # "idle"
    BY DEF Announces
  <2>2. \E n \in Rows : task[o].held = {n}
    BY <2>1 DEF IncidentInv, Announcing, Announces
  <2>3. QED BY <2>1, <2>2
<1>a. ASSUME NEW o \in Tasks, NEW n \in task'[o].held,
             incident'[task'[o].kind][n].calm, incident'[task'[o].kind][n].state # "none"
      PROVE  /\ task'[o].pc = task[o].pc /\ task'[o].kind = task[o].kind
             /\ task'[o].held = task[o].held /\ task'[o].was = task[o].was
             /\ incident'[task[o].kind][n] = incident[task[o].kind][n]
             /\ Calm(task[o].kind, n)
  <2>1. /\ task'[o].pc = task[o].pc /\ task'[o].kind = task[o].kind
        /\ task'[o].held = task[o].held /\ task'[o].was = task[o].was
    BY <1>a
  <2>2. task[o].kind \in Kinds /\ n \in Rows
    BY <1>0, <1>a, <2>1
  <2>3. incident'[task[o].kind][n] = incident[task[o].kind][n]
    <3>1. PICK k \in Kinds : k = task[o].kind
      BY <2>2
    <3>2. incident'[k][n].calm /\ incident'[k][n].state # "none"
      BY <1>a, <2>1, <3>1
    <3>3. incident'[k][n] = incident[k][n]
      BY <1>1, <2>2, <3>2
    <3>4. QED BY <3>1, <3>3
  <2>4. QED BY <1>a, <2>1, <2>3 DEF Calm
<1>8. Sole'
  <2> SUFFICES ASSUME NEW u \in Tasks, NEW o \in Tasks, NEW n \in Rows, u # o,
                      task'[u].kind = task'[o].kind, n \in task'[u].held, n \in task'[o].held,
                      incident'[task'[u].kind][n].calm, incident'[task'[u].kind][n].state # "none"
               PROVE  FALSE
    BY DEF Sole, Calm
  <2>1. task'[u].kind = task[u].kind /\ task'[u].held = task[u].held /\ Calm(task[u].kind, n)
    BY <1>a
  <2>2. task'[o].kind = task[o].kind /\ task'[o].held = task[o].held
    BY <1>a
  <2>3. QED BY ZenonT(30), <2>1, <2>2 DEF IncidentInv, Sole
<1>9. Closing'
  <2> SUFFICES ASSUME NEW o \in Tasks, NEW n \in task'[o].held, task'[o].pc = "close",
                      incident'[task'[o].kind][n].calm, incident'[task'[o].kind][n].state # "none"
               PROVE  task'[o].was = incident'[task'[o].kind][n].told /\ ~incident'[task'[o].kind][n].recalled
    BY DEF Closing, Calm, At
  <2>1. QED BY <1>a DEF IncidentInv, Closing, At
<1>10. Recovering'
  <2> SUFFICES ASSUME NEW o \in Tasks, NEW n \in task'[o].held, task'[o].pc = "recover",
                      incident'[task'[o].kind][n].calm, incident'[task'[o].kind][n].state # "none"
               PROVE  LET r == incident'[task'[o].kind][n]
                      IN  r.state = "resolved" /\ r.told /\ r.recalled
    BY DEF Recovering, Calm, At
  <2>1. QED BY <1>a DEF IncidentInv, Recovering, At
<1>11. QED
  BY <1>2, <1>3, <1>4, <1>5, <1>6, <1>7, <1>8, <1>9, <1>10 DEF IncidentInv

\* A task that begins.
LEMMA IncStart ==
    ASSUME TypeOK, Shape, IncidentInv, TypeOK', Shape', NEW t \in Tasks,
           \/ StartCheck(t) \/ (\E manual \in BOOLEAN : StartRenewal(t, manual))
           \/ StartTest(t) \/ Install(t)
    PROVE  IncidentInv'
<1>1. PICK r \in Task : /\ Begin(t, r) /\ r.pc \in {"check", "mark", "record", "i_job"}
                        /\ r.alone /\ r.held = {}
  BY Starts
<1>2. r.pc # "idle" /\ Idle.pc = "idle" /\ Idle.held = {}
  BY <1>1 DEF Idle
<1>3. /\ task'[t].pc = r.pc /\ task'[t].held = r.held
      /\ \A o \in Tasks : o # t =>
            /\ task'[o].pc = task[o].pc /\ task'[o].kind = task[o].kind
            /\ task'[o].held = task[o].held /\ task'[o].was = task[o].was
  <2>0. r.pc # "idle" /\ Begin(t, r)
    BY <1>1, <1>2
  <2>1. task'[t].pc = r.pc
    BY <2>0, Begins
  <2>2. task'[t].held = r.held
    BY <2>0, Begins
  <2>3. ASSUME NEW o \in Tasks, o # t
        PROVE  /\ task'[o].pc = task[o].pc /\ task'[o].kind = task[o].kind
               /\ task'[o].held = task[o].held /\ task'[o].was = task[o].was
    BY ZenonT(30), <2>0, <2>3, Begins
  <2>4. QED BY <2>1, <2>2, <2>3
<1>4. ~Announces(t)'
  BY <1>1, <1>3 DEF Announces
<1>5. CASE Quiet
  <2>1. /\ task'[t] = r /\ incident' = incident
        /\ \A o \in Tasks : o # t => task'[o] = Idle
    BY <1>1, <1>2, <1>5, Begins
  <2>2. AloneOnly' /\ CalmAlone' /\ Vacant'
    BY <1>1, <1>2, <2>1 DEF AloneOnly, CalmAlone, Vacant, Active, At
  <2>3. RowsOK'
    BY <2>1 DEF IncidentInv, RowsOK
  <2>4. OneOpenIncident'
    BY <2>1 DEF IncidentInv, OneOpenIncident, Open
  <2>5. \A o \in Tasks : task'[o].held = {} /\ ~Announces(o)'
    BY <1>1, <1>2, <1>3, <1>4, <2>1 DEF Announces
  <2>6. Sole' /\ Announcing' /\ Closing' /\ Recovering'
    BY <2>5 DEF Sole, Announcing, Closing, Recovering
  <2>7. \A o \in Tasks : ~Announces(o)
    BY <1>5 DEF Quiet, At, Announces
  <2>8. Announced'
    BY <2>1, <2>7 DEF IncidentInv, Announced, Open
  <2>9. QED BY <2>2, <2>3, <2>4, <2>6, <2>8 DEF IncidentInv
<1>6. CASE ~Quiet
  <2>1. (\A o \in Tasks : task'[o].pc # "idle" => ~task'[o].alone) /\ Disturb({})
    BY <1>1, <1>2, <1>6, Begins
  <2>2. \A o \in Tasks :
          \/ task'[o].held = {} /\ ~Announces(o)'
          \/ /\ task'[o].pc = task[o].pc /\ task'[o].kind = task[o].kind
             /\ task'[o].held = task[o].held /\ task'[o].was = task[o].was
    BY <1>1, <1>3, <1>4
  <2>3. QED BY <2>1, <2>2, IncDisturb
<1>7. QED BY <1>5, <1>6

\* A step of an installation changes its own task and no incident.
LEMMA InstallMoves ==
    ASSUME TypeOK, NEW t \in Tasks, InstallStep(t)
    PROVE  /\ task[t].pc \in InstallSteps /\ Stays(t) /\ Others(t) /\ incident' = incident
           /\ task'[t].pc \in InstallSteps \cup {"idle"}
<1>0. task \in [Tasks -> Task] /\ task[t] \in Task /\ Idle.pc = "idle"
  BY DEF TypeOK, Idle
<1>a. ASSUME NEW step \in Steps, Goto(t, step), step # "idle"
      PROVE  task'[t].pc = step /\ Stays(t) /\ Others(t)
  BY <1>0, <1>a DEF Goto, Task, Stays, Others
<1>1. ASSUME NEW step \in InstallSteps, Goto(t, step)
      PROVE  task'[t].pc \in InstallSteps \cup {"idle"} /\ Stays(t) /\ Others(t)
  BY <1>a, <1>1 DEF Steps, InstallSteps
<1>2. ASSUME task' = [task EXCEPT ![t] = Idle]
      PROVE  task'[t].pc \in InstallSteps \cup {"idle"} /\ Stays(t) /\ Others(t)
  BY <1>0, <1>2 DEF Stays, Others
<1>3. CASE SetOnline(t)
  <2> DEFINE after == [task[t].inst EXCEPT !.status = "online"]
             q == [task[t] EXCEPT !.pc = "i_done", !.inst = after]
  <2>1. /\ task[t].pc = "i_online" /\ incident' = incident
        /\ task' = [task EXCEPT ![t].pc = "i_done", ![t].inst = after]
    BY <1>3 DEF SetOnline, At
  <2>2. task' = [task EXCEPT ![t] = q]
    BY <1>0, <2>1
  <2>3. q.pc = "i_done" /\ q.alone = task[t].alone
    BY <1>0 DEF Task
  <2> HIDE DEF q
  <2>4. QED BY <1>0, <2>1, <2>2, <2>3 DEF InstallSteps, Stays, Others
<1>4. CASE CreateJob(t) \/ BeginStep(t) \/ MarkStep(t) \/ RunStep(t) \/ EndStep(t) \/ FailStep(t) \/ FailJob(t)
  BY <1>1, <1>4 DEF CreateJob, BeginStep, MarkStep, RunStep, EndStep, FailStep, FailJob, At, InstallSteps
<1>5. CASE FailServer(t) \/ FinishJob(t)
  BY <1>2, <1>5 DEF FailServer, FinishJob, At, InstallSteps
<1>6. QED BY <1>3, <1>4, <1>5 DEF InstallStep

\* What a renewal, a test and an installation do between their first step and
\* their incidents.
LEMMA IncAside ==
    ASSUME TypeOK, Shape, IncidentInv, TypeOK', Shape', NEW t \in Tasks,
           RenewalStep(t) \/ RecordResult(t) \/ InstallStep(t)
    PROVE  IncidentInv'
<1>0. /\ task \in [Tasks -> Task] /\ task[t] \in Task /\ ShapeOf(task[t]) /\ ShapeOf(task'[t])
      /\ Idle.pc = "idle"
  BY DEF TypeOK, Shape, Idle
<1>a. ASSUME NEW step \in Steps, Goto(t, step), step # "idle"
      PROVE  task'[t].pc = step /\ Stays(t) /\ Others(t)
  BY <1>0, <1>a DEF Goto, Task, Stays, Others
<1>b. ASSUME NEW q \in Task, task' = [task EXCEPT ![t] = q]
      PROVE  task'[t] = q /\ Others(t)
  BY <1>0, <1>b DEF Others
<1>1. ASSUME RenewalStep(t) \/ RecordResult(t)
      PROVE  /\ task[t].pc \in RenewSteps \cup {"record"} /\ Stays(t) /\ Others(t) /\ incident' = incident
             /\ task'[t].pc \in {"renew", "renewed", "failed", "idle", "find", "seek", "check"}
  <2>0. /\ Stays(t) /\ Others(t)
    BY <1>1, Moves DEF Stays
  <2>1. CASE MarkRenewing(t)
    <3> DEFINE after == [task[t].inst EXCEPT !.status = "renewing_ssl"]
               q == [task[t] EXCEPT !.pc = "renew", !.inst = after]
    <3>1. task' = [task EXCEPT ![t].pc = "renew", ![t].inst = after] /\ task[t].pc = "mark" /\ incident' = incident
      BY <2>1 DEF MarkRenewing, At
    <3>2. task' = [task EXCEPT ![t] = q]
      BY <1>0, <3>1
    <3>3. q.pc = "renew"
      BY <1>0 DEF Task
    <3> HIDE DEF q
    <3>4. QED BY <1>0, <2>0, <3>1, <3>2, <3>3 DEF RenewSteps
  <2>2. CASE Renew(t)
    BY <1>a, <2>0, <2>2 DEF Renew, At, RenewSteps, Steps
  <2>3. ASSUME NEW status \in {"online", "error"}, NEW ops \in Rests, NEW rescue \in BOOLEAN,
               EndRenewal(t, status, ops, rescue)
        PROVE  incident' = incident /\ task'[t].pc \in {"idle", "find", "seek", "check"}
    <3>1. PICK after \in Server, q \in Task :
              q.alone = task[t].alone /\ Save(task[t].inst, after) /\ task'[t] = Advance(q) /\ Others(t)
      BY <2>3, EndRenewalOK
    <3>2. QED BY <2>3, <3>1, AdvanceMoves DEF EndRenewal
  <2>4. CASE Renewed(t)
    BY <2>0, <2>3, <2>4, RenewalOpsOK DEF Renewed, At, RenewSteps
  <2>5. CASE RenewalFailed(t)
    <3> DEFINE ops == Due(Opening("cert")) \o (IF task[t].manual THEN <<>> ELSE <<Checking>>)
    <3>1. EndRenewal(t, "error", ops, FALSE) /\ task[t].pc = "failed"
      BY <2>5 DEF RenewalFailed, At
    <3>2. ops \in Rests
      BY RenewalOpsOK
    <3> HIDE DEF ops
    <3>3. QED BY <2>0, <2>3, <3>1, <3>2 DEF RenewSteps
  <2>6. CASE RecordResult(t)
    <3>1. PICK result \in {"ok", "bad"} :
          task' = [task EXCEPT ![t] = Advance([@ EXCEPT !.rest =
                Due(IF result = "ok" THEN Resolving("config") ELSE Opening("config"))])]
      BY <2>6 DEF RecordResult
    <3> DEFINE a == IF result = "ok" THEN Resolving("config") ELSE Opening("config")
               q == [task[t] EXCEPT !.rest = Due(a)]
    <3>2. a.kind \in Kinds \cup {"server"} => a \in Op
      BY OpOK DEF Opening, Resolving
    <3> HIDE DEF a
    <3>3. Due(a) \in Rests
      BY <3>2, DueOK
    <3>4. q \in Task
      BY <1>0, <3>3 DEF Task, Rests
    <3>5. task' = [task EXCEPT ![t] = Advance(q)]
      BY <3>1 DEF a
    <3> HIDE DEF q
    <3>6. task'[t] = Advance(q)
      BY <1>0, <3>5
    <3>7. incident' = incident /\ task[t].pc = "record"
      BY <2>6 DEF RecordResult, At
    <3>8. QED BY <2>0, <3>4, <3>6, <3>7, AdvanceMoves
  <2>7. QED BY <1>1, <2>1, <2>2, <2>4, <2>5, <2>6 DEF RenewalStep
<1>2. ASSUME InstallStep(t)
      PROVE  /\ task[t].pc \in InstallSteps /\ Stays(t) /\ Others(t) /\ incident' = incident
             /\ task'[t].pc \in InstallSteps \cup {"idle"}
  BY <1>2, InstallMoves
<1>3. /\ task[t].pc \in RenewSteps \cup {"record"} \cup InstallSteps /\ Stays(t) /\ Others(t)
      /\ incident' = incident
      /\ task'[t].pc \in {"renew", "renewed", "failed", "idle", "find", "seek", "check"} \cup InstallSteps
  BY <1>1, <1>2
<1>4. task'[t].held = {} /\ task'[t].pc # "create" /\ ~Announces(t)'
  BY <1>0, <1>3 DEF ShapeOf, Announces, InstallSteps
<1>5. ~Announces(t) /\ Active(t)
  BY <1>3 DEF Announces, Active, At, RenewSteps, InstallSteps
<1>6. QED BY <1>3, <1>4, <1>5, IncLeave

\* A query that fails, the end of the process, and what no task does.
LEMMA IncFault ==
    ASSUME TypeOK, Shape, IncidentInv,
           \/ \E t \in Tasks : QueryFails(t)
           \/ Crash
           \/ task' = task /\ incident' = incident
    PROVE  IncidentInv'
<1>0. Idle.pc = "idle" /\ Idle.held = {}
  BY DEF Idle
<1>1. ASSUME NEW t \in Tasks, QueryFails(t) PROVE IncidentInv'
  <2>1. /\ task[t].pc \notin {"idle", "i_run", "renew"} /\ task'[t] = Thrown(t) /\ Others(t) /\ Disturb({t})
    BY <1>1 DEF QueryFails, Others, TypeOK
  <2>2. \/ task'[t] = Idle
        \/ task'[t].held = {} /\ ~task'[t].alone /\ task'[t].pc \in {"i_broken", "i_bad", "renew", "failed"}
    BY <2>1, ThrownOK
  <2>3. ASSUME NEW o \in Tasks, task'[o].pc # "idle" PROVE ~task'[o].alone
    <3>1. CASE o = t
      BY <1>0, <2>2, <2>3, <3>1
    <3>2. CASE o # t
      BY <2>1, <2>3, <3>2 DEF IncidentInv, AloneOnly, Active, At, Others
    <3>3. QED BY <3>1, <3>2
  <2>4. ~Announces(t)' /\ task'[t].held = {}
    BY <1>0, <2>2 DEF Announces
  <2>5. \A o \in Tasks :
          \/ task'[o].held = {} /\ ~Announces(o)'
          \/ /\ task'[o].pc = task[o].pc /\ task'[o].kind = task[o].kind
             /\ task'[o].held = task[o].held /\ task'[o].was = task[o].was
    BY <2>1, <2>4 DEF Others
  <2>6. QED BY <2>1, <2>3, <2>5, IncDisturb
<1>2. CASE Crash
  <2>1. \A o \in Tasks : task'[o].pc = "idle" /\ task'[o].held = {}
    BY <1>0, <1>2 DEF Crash
  <2>2. \A o \in Tasks : task'[o].held = {} /\ ~Announces(o)'
    BY <2>1 DEF Announces
  <2>3. Disturb(Tasks)
    BY <1>2 DEF Crash
  <2>4. QED BY <2>1, <2>2, <2>3, IncDisturb
<1>3. CASE task' = task /\ incident' = incident
  <2>1. AloneOnly' /\ CalmAlone' /\ RowsOK' /\ Vacant' /\ Sole'
    BY <1>3 DEF IncidentInv, AloneOnly, CalmAlone, RowsOK, Vacant, Sole, Active, At, Open, Calm
  <2>2. OneOpenIncident' /\ Announcing' /\ Announced'
    BY <1>3 DEF IncidentInv, OneOpenIncident, Announcing, Announced, Announces, At, Open
  <2>3. Closing' /\ Recovering'
    BY <1>3 DEF IncidentInv, Closing, Recovering, At, Calm
  <2>4. QED BY <2>1, <2>2, <2>3 DEF IncidentInv
<1>4. QED BY <1>1, <1>2, <1>3

LEMMA IncInit == Init => IncidentInv
<1> SUFFICES ASSUME Init PROVE IncidentInv
  OBVIOUS
<1>1. /\ \A t \in Tasks : task[t] = Idle
      /\ \A k \in Kinds, n \in Rows : incident[k][n] = NoRow
      /\ Idle.pc = "idle" /\ Idle.held = {} /\ NoRow.state = "none"
  BY DEF Init, Idle, NoRow
<1>2. AloneOnly /\ CalmAlone /\ RowsOK /\ Vacant /\ Sole
  BY <1>1 DEF AloneOnly, CalmAlone, RowsOK, Vacant, Sole, Active, At, Open, Calm
<1>3. OneOpenIncident /\ Announcing /\ Announced /\ Closing /\ Recovering
  BY <1>1 DEF OneOpenIncident, Announcing, Announced, Closing, Recovering, Announces, At, Open, Calm
<1>4. QED BY <1>2, <1>3 DEF IncidentInv

LEMMA IncNext ==
    ASSUME TypeOK, Shape, JobInv, IncidentInv, [Next]_vars
    PROVE  TypeOK' /\ Shape' /\ JobInv' /\ IncidentInv'
<1>1. TypeOK' /\ Shape' /\ JobInv'
  BY JobNext
<1>2. ASSUME NEW t \in Tasks, CheckStep(t) \/ MailFails(t) PROVE IncidentInv'
  BY <1>2, IncCheck
<1>3. ASSUME NEW t \in Tasks,
             \/ StartCheck(t) \/ (\E manual \in BOOLEAN : StartRenewal(t, manual))
             \/ StartTest(t) \/ Install(t)
      PROVE  IncidentInv'
  BY <1>1, <1>3, IncStart
<1>4. ASSUME NEW t \in Tasks, RenewalStep(t) \/ RecordResult(t) \/ InstallStep(t) PROVE IncidentInv'
  BY <1>1, <1>4, IncAside
<1>5. ASSUME \/ \E t \in Tasks : QueryFails(t)
             \/ Crash \/ BoxChanges \/ (\E k \in Alerting : GapPasses(k)) \/ UNCHANGED vars
      PROVE  IncidentInv'
  <2>1. CASE \E t \in Tasks : QueryFails(t)
    BY <2>1, IncFault
  <2>2. CASE Crash
    BY <2>2, IncFault
  <2>3. CASE BoxChanges \/ (\E k \in Alerting : GapPasses(k)) \/ UNCHANGED vars
    <3>1. task' = task /\ incident' = incident
      BY <2>3 DEF BoxChanges, GapPasses, vars, ghosts
    <3>2. QED BY <3>1, IncFault
  <2>4. QED BY <1>5, <2>1, <2>2, <2>3
<1>6. IncidentInv'
  BY <1>2, <1>3, <1>4, <1>5 DEF Next
<1>7. QED BY <1>1, <1>6

\* openIncident looks for an open row of the kind before it inserts one, and two
\* awaits lie between: only an overlap or a fault can make two of one outage.
THEOREM OneOpenIncidentHolds == Spec => []OneOpenIncident
<1>1. Init => TypeOK /\ Shape /\ JobInv /\ IncidentInv
  BY TypeInit, JobInit, IncInit
<1>2. TypeOK /\ Shape /\ JobInv /\ IncidentInv /\ [Next]_vars
      => TypeOK' /\ Shape' /\ JobInv' /\ IncidentInv'
  BY IncNext
<1>3. IncidentInv => OneOpenIncident
  BY DEF IncidentInv
<1>4. QED BY <1>1, <1>2, <1>3, PTL DEF Spec

\* A resolved row is forgotten by the task that resolved it, when it is through.
LEMMA Recalls ==
    ASSUME TypeOK, Shape, IncidentInv, Next, faults' = faults,
           NEW k \in Alerting, NEW n \in Rows,
           incident[k][n].state = "resolved", incident[k][n].calm, incident'[k][n].state = "none"
    PROVE  incident[k][n].told <=> incident[k][n].recalled
<1>0. k \in Kinds /\ incident[k][n] \in Incident /\ faults \in Nat /\ Calm(k, n)
  BY DEF Alerting, TypeOK, Calm
<1>a. incident'[k][n] # incident[k][n]
  OBVIOUS
<1>1. ASSUME NEW t \in Tasks, Forget(t) = incident', task[t].kind \in Kinds, At(t, "close") \/ At(t, "recover"),
             At(t, "close") => ~(task[t].kind \in Alerting /\ task[t].was)
      PROVE  incident[k][n].told <=> incident[k][n].recalled
  <2>1. k = task[t].kind /\ n \in task[t].held
    BY <1>0, <1>a, <1>1, ForgetOK
  <2>2. CASE At(t, "close")
    <3>1. task[t].was = incident[k][n].told /\ ~incident[k][n].recalled
      BY <1>0, <2>1, <2>2 DEF IncidentInv, Closing
    <3>2. QED BY <1>1, <2>1, <2>2, <3>1
  <2>3. CASE At(t, "recover")
    <3>1. incident[k][n].told /\ incident[k][n].recalled
      BY <1>0, <2>1, <2>3 DEF IncidentInv, Recovering
    <3>2. QED BY <3>1
  <2>4. QED BY <1>1, <2>2, <2>3
<1>2. ASSUME NEW t \in Tasks, NEW field \in {"notified", "told", "recalled"}, task[t].kind \in Kinds,
             incident' = Set(t, field)
      PROVE  FALSE
  <2>1. incident'[k][n].state = incident[k][n].state
    BY <1>0, <1>2, SetOK
  <2>2. QED BY <2>1
<1>3. ASSUME NEW t \in Tasks, CheckStep(t)
      PROVE  incident[k][n].told <=> incident[k][n].recalled
  <2>0. task[t].pc \in IncidentSteps => task[t].kind \in Kinds
    BY SMTT(30) DEF Shape, ShapeOf
  <2>1. CASE Probe(t) \/ Patch(t) \/ FindOpen(t) \/ BeginMail(t) \/ FindAllOpen(t)
    BY ZenonT(30), <1>a, <2>1 DEF Probe, Patch, FindOpen, BeginMail, FindAllOpen
  <2>2. CASE CreateIncident(t)
    <3>1. task[t].kind \in Kinds
      BY <2>0, <2>2 DEF CreateIncident, At, IncidentSteps
    <3>2. PICK m \in Rows :
             /\ incident[task[t].kind][m].state = "none"
             /\ \A o \in Tasks : task[o].kind = task[t].kind => m \notin task[o].held
             /\ \A j \in Kinds, i \in Rows :
                   incident'[j][i] = IF j = task[t].kind /\ i = m
                                     THEN [NoRow EXCEPT !.state = "open", !.calm = task[t].alone]
                                     ELSE incident[j][i]
             /\ IF task[t].kind \in Alerting
                THEN /\ task' = [task EXCEPT ![t] = [@ EXCEPT !.pc = "mail", !.held = {m}]]
                     /\ UNCHANGED blurred
                ELSE Settle(t)
      BY ZenonT(30), <2>2, <3>1, CreateOK
    <3>3. QED BY SMTT(30), <1>0, <1>a, <3>2
  <2>3. CASE MailAccepted(t) \/ MarkNotified(t)
    BY <1>2, <2>0, <2>3 DEF MailAccepted, MarkNotified, At, IncidentSteps
  <2>4. ASSUME NEW m \in Rows, CloseIncident(t, m) PROVE FALSE
    <3>1. incident' = [incident EXCEPT ![task[t].kind][m].state = "resolved"]
      BY <2>4 DEF CloseIncident
    <3>2. incident'[k][n].state = incident[k][n].state \/ incident'[k][n].state = "resolved"
      BY <1>0, <3>1 DEF TypeOK, Incident
    <3>3. QED BY <3>2
  <2>5. CASE AllClosed(t)
    <3>1. At(t, "close") /\ task[t].kind \in Kinds
      BY <2>0, <2>5 DEF AllClosed, At, IncidentSteps
    <3>2. CASE task[t].kind \in Alerting /\ task[t].was
      BY <1>2, <2>5, <3>1, <3>2 DEF AllClosed
    <3>3. CASE ~(task[t].kind \in Alerting /\ task[t].was)
      BY <1>1, <2>5, <3>1, <3>3 DEF AllClosed
    <3>4. QED BY <3>2, <3>3
  <2>6. CASE MailRecovery(t)
    <3>1. At(t, "recover") /\ task[t].kind \in Kinds /\ incident' = Forget(t)
      BY <2>0, <2>6 DEF MailRecovery, At, IncidentSteps
    <3>2. ~At(t, "close")
      BY <3>1 DEF At
    <3>3. QED BY <1>1, <3>1, <3>2
  <2>7. QED BY <1>3, <2>1, <2>2, <2>3, <2>4, <2>5, <2>6 DEF CheckStep
<1>4. ASSUME NEW t \in Tasks,
             \/ StartCheck(t) \/ (\E manual \in BOOLEAN : StartRenewal(t, manual))
             \/ StartTest(t) \/ Install(t)
      PROVE  FALSE
  <2>1. PICK r \in Task : Begin(t, r)
    BY <1>4, Starts
  <2>2. incident' = incident \/ Disturb({})
    BY <2>1 DEF Begin
  <2>3. ASSUME Disturb({}) PROVE FALSE
    <3>1. incident'[k] = Ruffled(k, {})
      BY <1>0, <2>3 DEF Disturb
    <3>2. Ruffled(k, {})[n] = incident[k][n]
      BY DEF Ruffled, Open
    <3>3. QED BY <1>a, <3>1, <3>2
  <2>4. QED BY <1>a, <2>2, <2>3
<1>5. ASSUME NEW t \in Tasks, RenewalStep(t) \/ RecordResult(t) \/ InstallStep(t) PROVE incident' = incident
  BY <1>5 DEF RenewalStep, MarkRenewing, Renew, Renewed, RenewalFailed, EndRenewal, RecordResult,
              InstallStep, CreateJob, BeginStep, MarkStep, RunStep, EndStep, FailStep, FailJob, FailServer,
              SetOnline, FinishJob
<1>6. ASSUME Crash \/ \E t \in Tasks : QueryFails(t) \/ MailFails(t) PROVE FALSE
  <2>1. Fault
    BY <1>6 DEF Crash, QueryFails, MailFails
  <2>2. faults' = faults + 1
    BY <2>1 DEF Fault
  <2>3. QED BY <1>0, <2>2
<1>7. CASE BoxChanges \/ \E j \in Alerting : GapPasses(j)
  BY <1>a, <1>7 DEF BoxChanges, GapPasses
<1>8. QED BY <1>a, <1>3, <1>4, <1>5, <1>6, <1>7 DEF Next

\* resolveIncidents mails a recovery when one of the rows it closes was marked
\* notified, and openIncident marks a row only when its outage mail was accepted:
\* undisturbed, an outage is called off exactly if it was announced.
THEOREM RecoveryMatchesOutageHolds == Spec => RecoveryMatchesOutage
<1> DEFINE Inv == TypeOK /\ Shape /\ JobInv /\ IncidentInv
           Match == \A k \in Alerting, n \in Rows :
              (/\ incident[k][n].state = "resolved" /\ incident[k][n].calm
               /\ incident'[k][n].state = "none" /\ faults' = faults)
              => (incident[k][n].told <=> incident[k][n].recalled)
<1>1. Init => Inv
  BY TypeInit, JobInit, IncInit
<1>2. Inv /\ [Next]_vars => Inv'
  BY IncNext
<1>3. Inv /\ [Next]_vars => [Match]_vars
  BY Recalls
<1>4. RecoveryMatchesOutage <=> [][Match]_vars
  BY DEF RecoveryMatchesOutage
<1> HIDE DEF Inv, Match
<1>5. QED BY <1>1, <1>2, <1>3, <1>4, PTL DEF Spec
=============================================================================
