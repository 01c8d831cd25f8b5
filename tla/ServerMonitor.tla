----------------------------- MODULE ServerMonitor -----------------------------
(***************************************************************************)
(* One VPN server's row and its incidents, and everything that changes     *)
(* them: the health check (monitorService.updateServerStatus), automatic   *)
(* and manual certificate renewal, the config test, and the installation   *)
(* (provisionService.runInstall) with its job and step rows.               *)
(*                                                                         *)
(* A task is one check of this server by a pass or a button, one renewal,  *)
(* one test or one installation.  Each await is a step, and the task goes  *)
(* on with the Server instance it has read (inst), whose update() writes   *)
(* only the fields it changes.  Passes go through the servers one by one,  *)
(* so a check may come long after its pass has read the row.               *)
(*                                                                         *)
(* Left out: latencies, expiry dates, test samples, step output, the       *)
(* incidents of loadMetricsService, the deletion of the server, and the    *)
(* mails of a config test, which change no row.  A server has one catalog  *)
(* item.                                                                   *)
(***************************************************************************)
EXTENDS Naturals, FiniteSets, Sequences

CONSTANTS
    Tasks,          \* tasks that may be under way together
    Activities,     \* what the tasks do: check, renewal, test, install
    Kinds,          \* the kinds of incident that are followed
    LastStep,       \* number of installation steps; the last is health_check
    MaxRows,        \* bound on the open MonitorIncident rows of one kind
    MaxFaults       \* bound on crashes, failing queries and failing mails

ASSUME ServerMonitorAssumption ==
    /\ Activities \subseteq {"check", "renewal", "test", "install"}
    /\ Kinds \subseteq {"trojan", "ssh", "cert", "config"}
    /\ LastStep \in Nat \ {0}
    /\ MaxRows \in Nat
    /\ MaxFaults \in Nat

VARIABLES
    up,        \* trojan-go answers on the box
    server,    \* the Server row
    tested,    \* last_test_ok of its catalog item
    incident,  \* the MonitorIncident rows of each kind
    lastSent,  \* kinds whose outage mail was sent within DEFAULT_MIN_GAP_MS
    job,       \* the ProvisionJob row and its ProvisionStep rows
    task,
    renewal,   \* outcome of the last certificate renewal, if cert incidents are followed
    blurred,   \* kinds, and the status, that an overlap or a fault has touched
               \* and no undisturbed task has settled since
    orphaned,  \* a fault has ended a task before it took the status off busy
    faults

vars == <<up, server, tested, incident, lastSent, job, task,
          renewal, blurred, orphaned, faults>>
ghosts == <<renewal, blurred, orphaned, faults>>

Busy == {"installing", "renewing_ssl"}   \* BUSY_STATES
Alerting == Kinds \cap {"trojan", "cert"}   \* opened and resolved with a mail
Results == {"never", "ok", "bad"}
Rows == 1 .. MaxRows

Server == [status : {"absent", "online", "error"} \cup Busy,
           health : {"unknown", "online", "degraded", "offline"}]

\* A resolved row is forgotten when the task that resolved it is through with
\* it: no code reads it again.
Incident == [state : {"none", "open", "resolved"},
             notified : BOOLEAN,
             told : BOOLEAN,      \* its outage mail was accepted
             recalled : BOOLEAN,  \* the task that resolved it mailed a recovery
             calm : BOOLEAN]      \* no overlap and no fault touched it

Job == [status : {"none", "queued", "running", "success", "error"},
        current : 0 .. LastStep,
        step : [1 .. LastStep -> {"pending", "running", "success", "error"}]]

InstallSteps == {"i_job", "i_begin", "i_mark", "i_run", "i_ok", "i_bad",
                 "i_jobbad", "i_broken", "i_online", "i_done"}
RenewSteps == {"mark", "renew", "renewed", "failed"}
IncidentSteps == {"find", "create", "mail", "send", "notify", "seek", "close", "recover"}
Steps == {"idle", "check", "patch", "record"} \cup InstallSteps \cup RenewSteps \cup IncidentSteps

Op == [do : {"open", "resolve"}, kind : Kinds] \cup [do : {"check"}, kind : {"server"}]

Task == [pc : Steps,
         inst : Server,                    \* the Server instance it holds
         found : Server,                   \* what its probes have found
         seen : Results,                   \* last_test_ok of the item it holds
         rest : UNION {[1 .. n -> Op] : n \in 0 .. 2},  \* what it still has to do
         kind : Kinds \cup {"server"},      \* kind of the incidents it works on
         held : SUBSET Rows,               \* incident rows it holds
         was : BOOLEAN,                    \* wasNotified
         manual : BOOLEAN,                 \* POST /servers/:id/renew-ssl
         prev : {"online", "error"} \cup Busy,   \* prevStatus
         rescue : BOOLEAN,                 \* an error here is a failed renewal
         alone : BOOLEAN]                  \* no other task and no fault met it

NewServer == [status |-> "online", health |-> "unknown"]
Absent == [NewServer EXCEPT !.status = "absent"]
NoRow == [state |-> "none", notified |-> FALSE, told |-> FALSE,
          recalled |-> FALSE, calm |-> TRUE]
NoJob == [status |-> "none", current |-> 0, step |-> [n \in 1 .. LastStep |-> "pending"]]
Idle == [pc |-> "idle", inst |-> Absent, found |-> Absent, seen |-> "never", rest |-> <<>>,
         kind |-> "server", held |-> {}, was |-> FALSE, manual |-> FALSE,
         prev |-> "online", rescue |-> FALSE, alone |-> TRUE]

TypeOK ==
    /\ up \in BOOLEAN
    /\ server \in Server
    /\ tested \in Results
    /\ incident \in [Kinds -> [Rows -> Incident]]
    /\ lastSent \subseteq Alerting
    /\ job \in Job
    /\ task \in [Tasks -> Task]
    /\ renewal \in Results
    /\ blurred \subseteq Kinds \cup {"status"}
    /\ orphaned \in BOOLEAN
    /\ faults \in 0 .. MaxFaults

\* The server is still to be installed, or, where nothing is, was added (POST /servers).
Init ==
    /\ up \in BOOLEAN
    /\ server = IF "install" \in Activities THEN Absent ELSE NewServer
    /\ tested = "never"
    /\ incident = [k \in Kinds |-> [n \in Rows |-> NoRow]]
    /\ lastSent = {}
    /\ job = NoJob
    /\ task = [t \in Tasks |-> Idle]
    /\ renewal = "never" /\ blurred = {} /\ orphaned = FALSE /\ faults = 0

-----------------------------------------------------------------------------
At(t, step) == task[t].pc = step

Open(k) == {n \in Rows : incident[k][n].state = "open"}

Quiet == \A t \in Tasks : At(t, "idle")

\* Every open incident has been disturbed; what lost tasks resolved is forgotten.
Ruffled(k, lost) == [n \in Rows |->
    IF incident[k][n].state = "resolved" /\ \E t \in lost : task[t].kind = k /\ n \in task[t].held
    THEN NoRow
    ELSE IF n \in Open(k) THEN [incident[k][n] EXCEPT !.calm = FALSE]
    ELSE incident[k][n]]

Disturb(lost) ==
    /\ blurred' = Kinds \cup {"status"}
    /\ incident' = [k \in Kinds |-> Ruffled(k, lost)]

\* A task begins; if another is under way, neither is alone any more.
Begin(t, r) ==
    /\ At(t, "idle")
    /\ IF Quiet
       THEN task' = [task EXCEPT ![t] = r] /\ UNCHANGED <<blurred, incident>>
       ELSE /\ task' = [o \in Tasks |-> IF o = t THEN [r EXCEPT !.alone = FALSE]
                                        ELSE IF At(o, "idle") THEN Idle
                                        ELSE [task[o] EXCEPT !.alone = FALSE]]
            /\ Disturb({})

\* instance.update(): what differs from the instance is written to the row.
Save(before, after) ==
    server' = [f \in DOMAIN before |-> IF before[f] = after[f] THEN server[f] ELSE after[f]]

Goto(t, step) == task' = [task EXCEPT ![t].pc = step]

\* The next thing a task has to do.
Advance(r) ==
    IF r.rest = <<>> THEN Idle
    ELSE LET op == Head(r.rest)
             next == [r EXCEPT !.rest = Tail(@), !.kind = op.kind, !.held = {}, !.was = FALSE]
         IN  CASE op.do = "open" -> [next EXCEPT !.pc = "find"]
               [] op.do = "resolve" -> [next EXCEPT !.pc = "seek"]
               [] op.do = "check" -> [next EXCEPT !.pc = "check", !.rescue = FALSE]

\* t is through with its kind; undisturbed, it has settled it.
Settle(t) ==
    /\ task' = [task EXCEPT ![t] = Advance(@)]
    /\ blurred' = IF task[t].alone THEN blurred \ {task[t].kind} ELSE blurred

Opening(k) == [do |-> "open", kind |-> k]
Resolving(k) == [do |-> "resolve", kind |-> k]
Checking == [do |-> "check", kind |-> "server"]

\* What is to be done, if its kind is followed.
Due(op) == IF op.kind \in Kinds \cup {"server"} THEN <<op>> ELSE <<>>

Fault == faults < MaxFaults /\ faults' = faults + 1

-----------------------------------------------------------------------------
(* updateServerStatus *)

\* Mutant of StartCheck: only servers that look well are looked at.
StartCheck_WellOnes(t) ==
    /\ "check" \in Activities
    /\ server.status \notin Busy \cup {"absent", "error"}
    /\ Begin(t, [Idle EXCEPT !.pc = "check", !.inst = server])
    /\ UNCHANGED <<up, server, tested, lastSent, job, renewal, orphaned, faults>>

\* A pass or a button reads the row; a busy server is left alone.
StartCheck(t) ==
    /\ "check" \in Activities
    /\ server.status \notin Busy \cup {"absent"}
    /\ Begin(t, [Idle EXCEPT !.pc = "check", !.inst = server])
    /\ UNCHANGED <<up, server, tested, lastSent, job, renewal, orphaned, faults>>

\* Mutant of Outcome: an unreachable SSH makes the status 'error' too.
Outcome_SshCounts(ssh) ==
    [status |-> IF up /\ ssh THEN "online" ELSE "error",
     health |-> IF ~up THEN "offline" ELSE IF ssh THEN "online" ELSE "degraded"]

Outcome(ssh) ==
    [status |-> IF up THEN "online" ELSE "error",
     health |-> IF ~up THEN "offline" ELSE IF ssh THEN "online" ELSE "degraded"]

CheckOps(ssh) ==
    Due(IF up THEN Resolving("trojan") ELSE Opening("trojan"))
    \o Due(IF ssh THEN Resolving("ssh") ELSE Opening("ssh"))

\* The TLS handshake and the SSH login have answered.
Probe(t) ==
    /\ At(t, "check")
    /\ \E ssh \in BOOLEAN :
          task' = [task EXCEPT ![t] = [@ EXCEPT !.pc = "patch", !.found = Outcome(ssh),
                                                !.rest = CheckOps(ssh)]]
    /\ UNCHANGED <<up, server, tested, incident, lastSent, job, ghosts>>

\* The row is patched, and the incidents are next; they need the row no more.
Patch(t) ==
    /\ At(t, "patch")
    /\ LET r == task[t]
       IN  /\ Save(r.inst, r.found)
           /\ task' = [task EXCEPT ![t] =
                 Advance([r EXCEPT !.inst = Absent, !.found = Absent])]
           /\ blurred' = IF r.alone THEN blurred \ {"status"} ELSE blurred
    /\ UNCHANGED <<up, tested, incident, lastSent, job, renewal, orphaned, faults>>

-----------------------------------------------------------------------------
(* openIncident and resolveIncidents, with sendAlert *)

\* field becomes TRUE in the incidents t holds, those of its kind.
Set(t, field) == [incident EXCEPT ![task[t].kind] =
    [n \in Rows |-> IF n \in task[t].held /\ @[n].state # "none"
                    THEN [@[n] EXCEPT ![field] = TRUE] ELSE @[n]]]

\* t is through with the incidents it has resolved.
Forget(t) == [incident EXCEPT ![task[t].kind] =
    [n \in Rows |-> IF n \in task[t].held /\ @[n].state = "resolved" THEN NoRow ELSE @[n]]]

\* Mutant of FindOpen: no lookup before the insert.
FindOpen_Never(t) ==
    /\ At(t, "find")
    /\ Goto(t, "create")
    /\ UNCHANGED <<up, server, tested, incident, lastSent, job, ghosts>>

\* An open incident of the kind is enough: nothing more is done for it.
FindOpen(t) ==
    /\ At(t, "find")
    /\ IF Open(task[t].kind) = {}
       THEN Goto(t, "create") /\ UNCHANGED blurred
       ELSE Settle(t)
    /\ UNCHANGED <<up, server, tested, incident, lastSent, job, renewal, orphaned, faults>>

CreateIncident(t) ==
    LET k == task[t].kind
        free == {n \in Rows : /\ incident[k][n].state = "none"
                              /\ \A o \in Tasks : task[o].kind = k => n \notin task[o].held}
        n == CHOOSE m \in free : \A o \in free : m <= o
    IN  /\ At(t, "create") /\ free # {}
        /\ incident' = [incident EXCEPT ![k][n] =
              [NoRow EXCEPT !.state = "open", !.calm = task[t].alone]]
        /\ IF k \in Alerting
           THEN task' = [task EXCEPT ![t].pc = "mail", ![t].held = {n}] /\ UNCHANGED blurred
           ELSE Settle(t)
        /\ UNCHANGED <<up, server, tested, lastSent, job, renewal, orphaned, faults>>

\* A mail with the same key within the gap is suppressed; else the key is
\* marked and the mail is under way.
BeginMail(t) ==
    /\ At(t, "mail")
    /\ IF task[t].kind \in lastSent
       THEN Settle(t) /\ UNCHANGED lastSent
       ELSE /\ lastSent' = lastSent \cup {task[t].kind}
            /\ Goto(t, "send") /\ UNCHANGED blurred
    /\ UNCHANGED <<up, server, tested, incident, job, renewal, orphaned, faults>>

MailAccepted(t) ==
    /\ At(t, "send")
    /\ incident' = Set(t, "told")
    /\ Goto(t, "notify")
    /\ UNCHANGED <<up, server, tested, lastSent, job, ghosts>>

\* Mutant of MailFails: the result of the send is not looked at.
MailFails_Unseen(t) ==
    /\ At(t, "send")
    /\ Fault
    /\ lastSent' = lastSent \ {task[t].kind}
    /\ Goto(t, "notify")
    /\ UNCHANGED <<up, server, tested, incident, job, renewal, blurred, orphaned>>

\* The de-dup mark is taken back; the incident stays, and stays unannounced.
MailFails(t) ==
    /\ At(t, "send")
    /\ Fault
    /\ lastSent' = lastSent \ {task[t].kind}
    /\ Settle(t)
    /\ UNCHANGED <<up, server, tested, incident, job, renewal, orphaned>>

MarkNotified(t) ==
    /\ At(t, "notify")
    /\ incident' = Set(t, "notified")
    /\ Settle(t)
    /\ UNCHANGED <<up, server, tested, lastSent, job, renewal, orphaned, faults>>

\* Mutant of FindAllOpen: only the announced incidents are sought.
FindAllOpen_Notified(t) ==
    LET k == task[t].kind
        rows == {n \in Open(k) : incident[k][n].notified}
    IN  /\ At(t, "seek")
        /\ IF rows = {} THEN Settle(t)
           ELSE /\ task' = [task EXCEPT ![t].pc = "close", ![t].held = rows, ![t].was = TRUE]
                /\ UNCHANGED blurred
        /\ UNCHANGED <<up, server, tested, incident, lastSent, job, renewal, orphaned, faults>>

FindAllOpen(t) ==
    LET k == task[t].kind
    IN  /\ At(t, "seek")
        /\ IF Open(k) = {} THEN Settle(t)
           ELSE /\ task' = [task EXCEPT ![t].pc = "close", ![t].held = Open(k),
                              ![t].was = \E n \in Open(k) : incident[k][n].notified]
                /\ UNCHANGED blurred
        /\ UNCHANGED <<up, server, tested, incident, lastSent, job, renewal, orphaned, faults>>

CloseIncident(t, n) ==
    LET k == task[t].kind
    IN  /\ At(t, "close") /\ n \in task[t].held \cap Open(k)
        /\ incident' = [incident EXCEPT ![k][n].state = "resolved"]
        /\ UNCHANGED <<up, server, tested, lastSent, job, task, ghosts>>

AllClosed(t) ==
    /\ At(t, "close") /\ task[t].held \cap Open(task[t].kind) = {}
    /\ IF task[t].kind \in Alerting /\ task[t].was
       THEN /\ incident' = Set(t, "recalled")
            /\ Goto(t, "recover") /\ UNCHANGED blurred
       ELSE incident' = Forget(t) /\ Settle(t)
    /\ UNCHANGED <<up, server, tested, lastSent, job, renewal, orphaned, faults>>

\* The recovery mail is never suppressed (minGapMs: 0), and not repeated.
MailRecovery(t) ==
    /\ At(t, "recover")
    /\ incident' = Forget(t)
    /\ Settle(t)
    /\ UNCHANGED <<up, server, tested, lastSent, job, renewal, orphaned, faults>>

GapPasses(k) ==
    /\ k \in lastSent
    /\ lastSent' = lastSent \ {k}
    /\ UNCHANGED <<up, server, tested, incident, job, task, ghosts>>

-----------------------------------------------------------------------------
(* runCertRenewalPass and POST /servers/:id/renew-ssl *)

\* The pass skips a busy server, the button does not.
StartRenewal(t, manual) ==
    /\ "renewal" \in Activities
    /\ server.status # "absent"
    /\ manual \/ server.status \notin Busy
    /\ Begin(t, [Idle EXCEPT !.pc = "mark", !.inst = server, !.manual = manual, !.rescue = TRUE,
                             !.prev = IF manual THEN "online" ELSE server.status])
    /\ UNCHANGED <<up, server, tested, lastSent, job, renewal, orphaned, faults>>

MarkRenewing(t) ==
    /\ At(t, "mark")
    /\ LET after == [task[t].inst EXCEPT !.status = "renewing_ssl"]
       IN  /\ Save(task[t].inst, after)
           /\ task' = [task EXCEPT ![t].pc = "renew", ![t].inst = after]
    /\ UNCHANGED <<up, tested, incident, lastSent, job, ghosts>>

Renew(t) ==
    /\ At(t, "renew")
    /\ \/ Goto(t, "renewed") /\ renewal' = IF "cert" \in Kinds THEN "ok" ELSE renewal
       \/ Goto(t, "failed") /\ renewal' = IF "cert" \in Kinds THEN "bad" ELSE renewal
    /\ UNCHANGED <<up, server, tested, incident, lastSent, job, blurred, orphaned, faults>>

\* The pass puts back prevStatus, the button writes its own; what is left to do
\* needs neither.
EndRenewal(t, status, ops, rescue) ==
    LET r == task[t]
        after == [r.inst EXCEPT !.status =
                     IF r.manual \/ r.prev = "renewing_ssl" THEN status ELSE r.prev]
    IN  /\ Save(r.inst, after)
        /\ task' = [task EXCEPT ![t] =
              Advance([r EXCEPT !.inst = after, !.rest = ops, !.rescue = rescue,
                                !.prev = "online", !.manual = FALSE])]
        /\ UNCHANGED <<up, tested, incident, lastSent, job, ghosts>>

\* Mutant of Renewed: the cert incidents are not resolved.
Renewed_Unresolved(t) ==
    /\ At(t, "renewed")
    /\ EndRenewal(t, "online", <<Checking>>, TRUE)

Renewed(t) ==
    /\ At(t, "renewed")
    /\ EndRenewal(t, "online", Due(Resolving("cert")) \o <<Checking>>, TRUE)

\* Mutant of RenewalFailed: the status is put back only where the pass had read it.
RenewalFailed_StaysBusy(t) ==
    /\ At(t, "failed")
    /\ IF task[t].manual
       THEN /\ task' = [task EXCEPT ![t] = Advance([@ EXCEPT !.rest = Due(Opening("cert"))])]
            /\ UNCHANGED <<up, server, tested, incident, lastSent, job, ghosts>>
       ELSE EndRenewal(t, "error", Due(Opening("cert")) \o <<Checking>>, FALSE)

RenewalFailed(t) ==
    /\ At(t, "failed")
    /\ EndRenewal(t, "error",
          Due(Opening("cert")) \o (IF task[t].manual THEN <<>> ELSE <<Checking>>), FALSE)

-----------------------------------------------------------------------------
(* runConfigTestPass and POST /catalog/:id/test *)

StartTest(t) ==
    /\ "test" \in Activities
    /\ server.status # "absent"
    /\ Begin(t, [Idle EXCEPT !.pc = "record", !.seen = tested])
    /\ UNCHANGED <<up, server, tested, lastSent, job, renewal, orphaned, faults>>

\* recordConfigResult
RecordResult(t) ==
    /\ At(t, "record")
    /\ \E result \in {"ok", "bad"} :
          /\ tested' = IF result = task[t].seen THEN tested ELSE result
          /\ task' = [task EXCEPT ![t] = Advance([@ EXCEPT !.rest =
                Due(IF result = "ok" THEN Resolving("config") ELSE Opening("config"))])]
    /\ UNCHANGED <<up, server, incident, lastSent, job, ghosts>>

-----------------------------------------------------------------------------
(* POST /install and runInstall *)

\* The row runInstall reads is the one just created.
Install(t) ==
    /\ "install" \in Activities
    /\ server.status = "absent"
    /\ Begin(t, [Idle EXCEPT !.pc = "i_job", !.inst = [Absent EXCEPT !.status = "installing"]])
    /\ server' = [Absent EXCEPT !.status = "installing"]
    /\ UNCHANGED <<up, tested, lastSent, job, renewal, orphaned, faults>>

CreateJob(t) ==
    /\ At(t, "i_job")
    /\ job' = [NoJob EXCEPT !.status = "queued"]
    /\ Goto(t, "i_begin")
    /\ UNCHANGED <<up, server, tested, incident, lastSent, ghosts>>

BeginStep(t) ==
    /\ At(t, "i_begin")
    /\ job' = [job EXCEPT !.status = "running", !.current = @ + 1]
    /\ Goto(t, "i_mark")
    /\ UNCHANGED <<up, server, tested, incident, lastSent, ghosts>>

SetStep(state) == job' = [job EXCEPT !.step[job.current] = state]

MarkStep(t) ==
    /\ At(t, "i_mark")
    /\ SetStep("running")
    /\ Goto(t, "i_run")
    /\ UNCHANGED <<up, server, tested, incident, lastSent, ghosts>>

\* health_check hands updateServerStatus the instance that is still
\* 'installing', so it returns at once and succeeds.
RunStep(t) ==
    /\ At(t, "i_run")
    /\ \/ job.current < LastStep /\ (Goto(t, "i_ok") \/ Goto(t, "i_bad"))
       \/ job.current = LastStep /\ task[t].inst.status \in Busy /\ Goto(t, "i_ok")
    /\ UNCHANGED <<up, server, tested, incident, lastSent, job, ghosts>>

\* Mutant of EndStep: one step too many.
EndStep_OneMore(t) ==
    /\ At(t, "i_ok")
    /\ SetStep("success")
    /\ Goto(t, IF job.current > LastStep THEN "i_online" ELSE "i_begin")
    /\ UNCHANGED <<up, server, tested, incident, lastSent, ghosts>>

EndStep(t) ==
    /\ At(t, "i_ok")
    /\ SetStep("success")
    /\ Goto(t, IF job.current = LastStep THEN "i_online" ELSE "i_begin")
    /\ UNCHANGED <<up, server, tested, incident, lastSent, ghosts>>

\* Mutant of FailStep: the error is recorded on the step alone.
FailStep_StepOnly(t) ==
    /\ At(t, "i_bad")
    /\ SetStep("error")
    /\ Goto(t, "i_broken")
    /\ UNCHANGED <<up, server, tested, incident, lastSent, ghosts>>

FailStep(t) ==
    /\ At(t, "i_bad")
    /\ SetStep("error")
    /\ Goto(t, "i_jobbad")
    /\ UNCHANGED <<up, server, tested, incident, lastSent, ghosts>>

FailJob(t) ==
    /\ At(t, "i_jobbad")
    /\ job' = [job EXCEPT !.status = "error"]
    /\ Goto(t, "i_broken")
    /\ UNCHANGED <<up, server, tested, incident, lastSent, ghosts>>

FailServer(t) ==
    /\ At(t, "i_broken")
    /\ Save(task[t].inst, [task[t].inst EXCEPT !.status = "error"])
    /\ task' = [task EXCEPT ![t] = Idle]
    /\ UNCHANGED <<up, tested, incident, lastSent, job, ghosts>>

SetOnline(t) ==
    /\ At(t, "i_online")
    /\ LET after == [task[t].inst EXCEPT !.status = "online"]
       IN  Save(task[t].inst, after) /\ task' = [task EXCEPT ![t].pc = "i_done", ![t].inst = after]
    /\ UNCHANGED <<up, tested, incident, lastSent, job, ghosts>>

FinishJob(t) ==
    /\ At(t, "i_done")
    /\ job' = [job EXCEPT !.status = "success"]
    /\ task' = [task EXCEPT ![t] = Idle]
    /\ UNCHANGED <<up, server, tested, incident, lastSent, ghosts>>

-----------------------------------------------------------------------------
(* The box, faults and crashes *)

BoxChanges ==
    /\ up' = ~up
    /\ UNCHANGED <<server, tested, incident, lastSent, job, task, ghosts>>

\* t has the box in hand and must still take the status off busy.
Working(t) == task[t].pc \in (InstallSteps \ {"i_done"}) \cup {"renew", "renewed", "failed"}

\* Where an error thrown at t's await takes it.
Thrown(t) ==
    LET r == task[t]
    IN  CASE r.pc \in {"i_begin", "i_mark", "i_bad", "i_jobbad", "i_online", "i_done"}
                 -> [r EXCEPT !.pc = "i_broken", !.alone = FALSE]
          [] r.pc = "i_ok" -> [r EXCEPT !.pc = "i_bad", !.alone = FALSE]
          [] r.pc = "mark" /\ r.manual -> [r EXCEPT !.pc = "renew", !.alone = FALSE]
          [] r.rescue /\ r.pc # "failed" /\ ~(r.pc = "mark" /\ r.manual)
                 -> [r EXCEPT !.pc = "failed", !.alone = FALSE, !.held = {}]
          [] OTHER -> Idle

\* A query fails.  The button does not wait for its first update, nor look at it.
QueryFails(t) ==
    /\ task[t].pc \notin {"idle", "i_run", "renew"}
    /\ Fault
    /\ task' = [task EXCEPT ![t] = Thrown(t)]
    /\ Disturb({t})
    /\ orphaned' = (orphaned \/ (Working(t) /\ Thrown(t) = Idle))
    /\ UNCHANGED <<up, server, tested, lastSent, job, renewal>>

\* The process dies; the de-dup marks go with it.
Crash ==
    /\ ~Quiet
    /\ Fault
    /\ task' = [t \in Tasks |-> Idle]
    /\ lastSent' = {}
    /\ Disturb(Tasks)
    /\ orphaned' = (orphaned \/ \E t \in Tasks : Working(t))
    /\ UNCHANGED <<up, server, tested, job, renewal>>

\* The steps of a health check: each ends by itself or by a timeout.
CheckStep(t) ==
    \/ Probe(t) \/ Patch(t)
    \/ FindOpen(t) \/ CreateIncident(t) \/ BeginMail(t) \/ MailAccepted(t) \/ MarkNotified(t)
    \/ FindAllOpen(t) \/ (\E n \in Rows : CloseIncident(t, n)) \/ AllClosed(t) \/ MailRecovery(t)

RenewalStep(t) == MarkRenewing(t) \/ Renew(t) \/ Renewed(t) \/ RenewalFailed(t)

InstallStep(t) ==
    \/ CreateJob(t) \/ BeginStep(t) \/ MarkStep(t) \/ RunStep(t) \/ EndStep(t)
    \/ FailStep(t) \/ FailJob(t) \/ FailServer(t) \/ SetOnline(t) \/ FinishJob(t)

Next ==
    \/ \E t \in Tasks :
          \/ StartCheck(t) \/ CheckStep(t) \/ MailFails(t)
          \/ (\E manual \in BOOLEAN : StartRenewal(t, manual)) \/ RenewalStep(t)
          \/ StartTest(t) \/ RecordResult(t)
          \/ Install(t) \/ InstallStep(t)
          \/ QueryFails(t)
    \/ \E k \in Alerting : GapPasses(k)
    \/ BoxChanges
    \/ Crash

Spec == Init /\ [][Next]_vars

\* What a task does by itself: a query, a handshake, an SMTP session and a test
\* end or time out.  Nothing bounds the SSH commands of a renewal (Renew) or an
\* installation (RunStep).
Proceeds(t) ==
    \/ CheckStep(t) \/ RecordResult(t)
    \/ MarkRenewing(t) \/ Renewed(t) \/ RenewalFailed(t)
    \/ CreateJob(t) \/ BeginStep(t) \/ MarkStep(t) \/ EndStep(t)
    \/ FailStep(t) \/ FailJob(t) \/ FailServer(t) \/ SetOnline(t) \/ FinishJob(t)

\* Cron starts a health pass every few minutes, whatever else goes on: strong
\* fairness, because other tasks may take and leave the model's few tasks.
FairSpec ==
    /\ Spec
    /\ SF_vars(\E t \in Tasks : StartCheck(t))
    /\ \A t \in Tasks : WF_vars(Proceeds(t))

-----------------------------------------------------------------------------
\* A lasting outage is one row however many passes see it: an open incident that
\* no overlap of two tasks and no fault has touched is the only one of its kind.
OneOpenIncident ==
    \A k \in Kinds : \A n \in Open(k) : incident[k][n].calm => Open(k) = {n}

\* Between tasks the incidents say what the rows say: an open trojan incident
\* means health 'offline', an ssh incident is open when health is 'degraded' and
\* closed when it is 'online', a cert incident is open after a failed renewal and
\* a config incident after a failed test, and only then.
IncidentsTruthful ==
    Quiet => \A k \in Kinds \ (blurred \cup (IF "status" \in blurred THEN {"trojan", "ssh"} ELSE {})) :
        CASE k = "trojan" -> Open(k) # {} <=> server.health = "offline"
          [] k = "ssh" -> /\ server.health = "degraded" => Open(k) # {}
                          /\ server.health = "online" => Open(k) = {}
          [] k = "cert" -> Open(k) # {} <=> renewal = "bad"
          [] k = "config" -> Open(k) # {} <=> tested = "bad"

\* A server shown in error between tasks has an open trojan or cert incident to
\* say why, or its installation failed and no check has run since; and a server
\* with an open trojan incident is shown in error.
ErrorExplained ==
    (Quiet /\ blurred \cap {"status", "trojan", "cert"} = {}) =>
        /\ server.status = "error" =>
              \/ Open("trojan") \cup Open("cert") # {}
              \/ job.status = "error" /\ server.health = "unknown"
        /\ Open("trojan") # {} => server.status = "error"

\* Recovery mails match outage mails: an incident that no overlap and no fault
\* has touched is recalled when it is resolved exactly if it was announced.
RecoveryMatchesOutage ==
    [][\A k \in Alerting, n \in Rows :
          (/\ incident[k][n].state = "resolved" /\ incident[k][n].calm
           /\ incident'[k][n].state = "none" /\ faults' = faults)
          => (incident[k][n].told <=> incident[k][n].recalled)]_vars

\* A busy status is always on its way out: some task still has the box in hand,
\* whatever failed in it and whatever it overlapped with, unless a crash or a
\* failing query has ended it.  Every pass skips a busy server for good.
BusyMeansWork ==
    server.status \in Busy => orphaned \/ \E t \in Tasks : Working(t)

\* A job ends where its steps ended: all steps of a successful one succeeded, a
\* failed one stopped at its failed step, and no job is left running when its
\* installation is over and no fault struck.
JobMatchesSteps ==
    /\ job.status = "success" => \A n \in 1 .. LastStep : job.step[n] = "success"
    /\ job.status = "error" =>
          \A n \in 1 .. LastStep : job.step[n] = IF n < job.current THEN "success"
                                                 ELSE IF n = job.current THEN "error" ELSE "pending"
    /\ (Quiet /\ faults = 0) => job.status \in {"none", "success", "error"}

Idling == server.status \notin Busy \cup {"absent"} /\ \A t \in Tasks : ~Working(t)

\* The panel catches up with the box: when a server that no job has in hand stays
\* up its outage is closed for good, and when it stays down an incident is open.
PanelCatchesUp ==
    /\ <>[](up /\ Idling) => <>[](Open("trojan") = {})
    /\ <>[](~up /\ Idling) => <>[](Open("trojan") # {})

\* README: the health pass is "opening incidents + emailing on failure".  An
\* outage that lasts is mailed at some time.
LastingOutageMailed ==
    <>[](~up /\ Idling) => <>(\E n \in Rows : n \in Open("trojan") /\ incident["trojan"][n].told)
=============================================================================
