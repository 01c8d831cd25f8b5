----------------------------- MODULE UserReconcile -----------------------------
(***************************************************************************)
(* One VPN server's trojan users in the three places the panel keeps them: *)
(* the NpanelUser rows, the live user set of the trojan-go process on the  *)
(* box, and the config each catalog item serves.  npanelUserService.js     *)
(* changes the rows, trojanApiService.syncServerUsers changes the box, and *)
(* a periodic pass (monitorService.runUserSyncPass) pushes every row again.*)
(*                                                                         *)
(* A task is one HTTP request or one pass.  Each await is a step; between  *)
(* two of them other tasks run, and a task goes on with the model instance *)
(* it has read (snap), whose update() writes only the fields it changes.   *)
(* A password stands for its sha224 hash too, the identity of a live user, *)
(* and for the trojan:// config built from it.                             *)
(*                                                                         *)
(* Speed and ip limits and traffic counters are left out, and so are calls *)
(* of createUser and updateUser with remote:false, a password and a flag   *)
(* changed by one call, and passwords typed in that another user has, or   *)
(* that the user itself had before: a password is given out once.          *)
(***************************************************************************)
EXTENDS Naturals, FiniteSets

CONSTANTS
    Users,           \* ids a row of this server may get, each at most once
    Held,            \* the password of each user there from the start
    Defaults,        \* ids of the users that have a default user's name
    Passwords,       \* passwords, standing for their hashes and configs
    Foreign,         \* live on the box before the panel manages it
    Tasks,           \* requests and passes that may be under way together
    None,            \* no password
    Placeholder,     \* the random password of an imported row
    Tracking,        \* setting stats_ip_tracking
    EditImported,    \* PUT /users/:id is sent for imported rows too
    MaxRequests,     \* bound on the tasks ever begun
    MaxFaults        \* bound on box failures, restarts and crashes

ASSUME UserReconcileAssumption ==
    /\ Foreign \subseteq Passwords
    /\ DOMAIN Held \subseteq Users /\ Defaults \subseteq Users
    /\ Held \in [DOMAIN Held -> Passwords \ Foreign]
    /\ \A u, v \in DOMAIN Held : Held[u] = Held[v] => u = v
    /\ None \notin Passwords /\ Placeholder \notin Passwords /\ None # Placeholder
    /\ {Tracking, EditImported} \subseteq BOOLEAN
    /\ MaxRequests \in Nat /\ MaxFaults \in Nat

VARIABLES
    row,       \* NpanelUser rows
    item,      \* the config of the user's VpnCatalogItem, None without one
    live,      \* the hashes trojan-go accepts
    task,
    known,     \* passwords some row has held as a managed user's
    strays,    \* hashes a failed removal, a crash or an overlap may have left
    suspect,   \* users whose live entry no undisturbed push confirms
    torn,      \* users no undisturbed update has followed a crash or overlap of
    begun,     \* tasks begun so far
    faults     \* failures so far

vars == <<row, item, live, task, known, strays, suspect, torn, begun, faults>>
boxVars == <<live, known>>
counters == <<begun, faults>>

Secrets == Passwords \cup {None, Placeholder}

Row == [is : {"unborn", "there", "gone"}, source : {"managed", "imported"},
        enabled : BOOLEAN, pw : Secrets, rh : Secrets, config : Secrets,
        synced : BOOLEAN]  \* remote_status

Steps == {"idle", "patch", "hash", "config", "defaults", "adopt", "assign",
          "connect", "list", "apply", "fold",
          "items", "unlink", "destroy", "i_list", "i_rows", "i_create"}

Task == [pc : Steps,
         rows : SUBSET Users,       \* users the task reads or writes
         snap : [Users -> Row],     \* the instances it holds
         new : Secrets, on : BOOLEAN,   \* requested password and enabled flag
         push : SUBSET Users,       \* desired users handed to syncServerUsers
         old : SUBSET Secrets,      \* deleteHashes
         then : Steps,              \* where the task goes on after the push
         listed : SUBSET Passwords, \* liveByHash
         todo : SUBSET Users,       \* users the current loop has left
         bad : SUBSET Users,        \* action = 'error'
         ok : BOOLEAN,              \* result.ok
         alone : BOOLEAN]           \* nothing disturbed the task, as no other
                                    \* on its rows, a restart, a lost listing

Unborn == [is |-> "unborn", source |-> "managed", enabled |-> TRUE, pw |-> None,
           rh |-> None, config |-> None, synced |-> FALSE]

Managed(p) == [Unborn EXCEPT !.is = "there", !.pw = p, !.rh = p]

Settled(p) == [Managed(p) EXCEPT !.config = p, !.synced = TRUE]

Imported(h) == [Unborn EXCEPT !.is = "there", !.source = "imported",
                              !.pw = Placeholder, !.rh = h, !.synced = TRUE]

Idle == [pc |-> "idle", rows |-> {}, snap |-> [u \in Users |-> Unborn],
         new |-> None, on |-> TRUE, push |-> {}, old |-> {}, then |-> "idle",
         listed |-> {}, todo |-> {}, bad |-> {}, ok |-> FALSE, alone |-> TRUE]

TypeOK ==
    /\ row \in [Users -> Row]
    /\ item \in [Users -> Secrets]
    /\ live \subseteq Passwords
    /\ task \in [Tasks -> Task]
    /\ known \subseteq Passwords
    /\ strays \subseteq Passwords
    /\ suspect \subseteq Users
    /\ torn \subseteq Users
    /\ begun \in 0 .. MaxRequests
    /\ faults \in 0 .. MaxFaults

\* The users of Held have been created, pushed and put in the catalog.
Init ==
    /\ row = [u \in Users |-> IF u \in DOMAIN Held THEN Settled(Held[u]) ELSE Unborn]
    /\ item = [u \in Users |-> row[u].config]
    /\ known = {Held[u] : u \in DOMAIN Held}
    /\ live = Foreign \cup known
    /\ task = [t \in Tasks |-> Idle]
    /\ strays = {} /\ suspect = {} /\ torn = {}
    /\ begun = 0 /\ faults = 0

-----------------------------------------------------------------------------
There(u) == row[u].is = "there"

At(t, step) == task[t].pc = step

Active(u) == \E t \in Tasks : ~At(t, "idle") /\ u \in task[t].rows

Fresh(p) == p \in Passwords \ (Foreign \cup known)

\* remote_hash || hash(password): the hash the panel takes a row's user to have.
HashOf(r) == IF r.rh = None THEN r.pw ELSE r.rh

Mentioned(r) ==
    Passwords \cap
        ((UNION {{r.snap[u].pw, r.snap[u].rh} : u \in r.rows}) \cup r.old \cup {r.new})

Fault == faults < MaxFaults /\ faults' = faults + 1

Carry(t, r) == task' = [task EXCEPT ![t] = IF r.pc = "idle" THEN Idle ELSE r]

Finish(t, step) == Carry(t, [task[t] EXCEPT !.pc = step])

\* The push is over; its results go onto the rows one update at a time.
Fold(t, r) ==
    Carry(t, IF r.push = {} THEN [Idle EXCEPT !.pc = r.then, !.rows = r.rows]
             ELSE [r EXCEPT !.pc = "fold", !.todo = r.push, !.listed = {}])

\* A task begins.  The tasks on the same rows now overlap it: what they leave
\* behind, on the box and in the rows, is vouched for by nothing that follows.
Begin(t, r) ==
    LET met == {o \in Tasks : ~At(o, "idle") /\ task[o].rows \cap r.rows # {}}
        rows == IF met = {} THEN {}
                ELSE {u \in r.rows \cup UNION {task[o].rows : o \in met} :
                        There(u) \/ r.snap[u].is = "there"}
        hashes == IF met = {} THEN {}
                  ELSE Mentioned(r) \cup UNION {Mentioned(task[o]) : o \in met}
    IN  /\ At(t, "idle") /\ begun < MaxRequests
        /\ begun' = begun + 1
        /\ task' = [o \in Tasks |->
              IF o = t THEN [r EXCEPT !.alone = (met = {})]
              ELSE IF o \in met THEN [task[o] EXCEPT !.alone = FALSE]
              ELSE task[o]]
        /\ strays' = strays \cup hashes
        /\ suspect' = suspect \cup rows
        /\ torn' = torn \cup rows

\* instance.update(): the fields that differ from the instance are written to
\* the row, if it is still there.
Save(u, before, after) ==
    IF There(u)
    THEN row' = [row EXCEPT ![u] =
             [f \in DOMAIN before |-> IF before[f] = after[f] THEN @[f] ELSE after[f]]]
    ELSE UNCHANGED row

\* One update() of the instance t holds of u, and where t goes on.
Update(t, u, after, step) ==
    /\ Save(u, task[t].snap[u], after)
    /\ task' = [task EXCEPT ![t].pc = step, ![t].snap[u] = after]

Holding(u, r, step) == [Idle EXCEPT !.pc = step, !.rows = {u}, !.snap[u] = r]

\* Mutant of PushOf: every user is pushed, the imported ones too.
PushOf_All(r, users, old, then) ==
    IF users = {} THEN [r EXCEPT !.pc = then]
    ELSE [r EXCEPT !.pc = "connect", !.push = users, !.old = old, !.then = then]

\* pushUsersToServer: only managed users are pushed; imported ones are armed
\* with an ip limit, which by itself is a reason to connect.
PushOf(r, users, old, then) ==
    LET managed == {u \in users : r.snap[u].source = "managed"}
        armed == {u \in users \ managed : Tracking /\ r.snap[u].enabled}
    IN  IF managed \cup armed = {} THEN [r EXCEPT !.pc = then]
        ELSE [r EXCEPT !.pc = "connect", !.push = managed, !.old = old, !.then = then]

-----------------------------------------------------------------------------
\* createUser: the row, then its config, then the push.
CreateUser(t, u, p, on) ==
    /\ row[u].is = "unborn" /\ Fresh(p)
    /\ LET made == [Managed(p) EXCEPT !.enabled = on]
       IN  /\ Begin(t, Holding(u, made, "config"))
           /\ row' = [row EXCEPT ![u] = made]
    /\ known' = known \cup {p}
    /\ UNCHANGED <<item, live, faults>>

\* updateUser begins with the row its route has just read; it rotates the
\* password to p or, with p None, flips the enabled flag.
StartUpdate(t, u, p, on) ==
    /\ There(u)
    /\ row[u].source = "imported" => EditImported
    /\ IF p = None THEN on # row[u].enabled ELSE Fresh(p) /\ on = row[u].enabled
    /\ Begin(t, [Holding(u, row[u], "patch") EXCEPT !.new = p, !.on = on,
                                                       !.then = "items"])
    /\ known' = IF p = None THEN known ELSE known \cup {p}
    /\ UNCHANGED <<row, item, live, faults>>

\* Mutant of PatchRow: previousHash is read after the row has changed.
PatchRow_LateHash(t, u) ==
    /\ At(t, "patch") /\ u \in task[t].rows
    /\ LET r == task[t]
           changed == r.new # None
           after == [r.snap[u] EXCEPT !.enabled = r.on, !.pw = IF changed THEN r.new ELSE @]
       IN  /\ Save(u, r.snap[u], after)
           /\ task' = [task EXCEPT ![t].snap[u] = after, ![t].new = None, ![t].on = TRUE,
                                   ![t].pc = IF changed THEN "hash" ELSE "config",
                                   ![t].old = IF changed THEN {after.pw} ELSE {}]
    /\ UNCHANGED <<item, live, known, strays, suspect, torn, counters>>

PatchRow(t, u) ==
    /\ At(t, "patch") /\ u \in task[t].rows
    /\ LET r == task[t]
           changed == r.new # None
           after == [r.snap[u] EXCEPT !.enabled = r.on, !.pw = IF changed THEN r.new ELSE @]
       IN  /\ Save(u, r.snap[u], after)
           /\ task' = [task EXCEPT ![t].snap[u] = after, ![t].new = None, ![t].on = TRUE,
                                   ![t].pc = IF changed THEN "hash" ELSE "config",
                                   ![t].old = IF changed THEN {HashOf(r.snap[u])} ELSE {}]
    /\ UNCHANGED <<item, live, known, strays, suspect, torn, counters>>

WriteHash(t, u) ==
    /\ At(t, "hash") /\ u \in task[t].rows
    /\ Update(t, u, [task[t].snap[u] EXCEPT !.rh = task[t].snap[u].pw], "config")
    /\ UNCHANGED <<item, live, known, strays, suspect, torn, counters>>

\* The configs are rebuilt; createUser goes on to end with the push, updateUser
\* with the catalog items.
WriteConfig(t, u) ==
    /\ At(t, "config") /\ u \in task[t].rows
    /\ LET r == task[t]
           after == [r.snap[u] EXCEPT !.config = r.snap[u].pw]
       IN  /\ Save(u, r.snap[u], after)
           /\ Carry(t, PushOf([r EXCEPT !.snap[u] = after], {u}, r.old, r.then))
    /\ UNCHANGED <<item, live, known, strays, suspect, torn, counters>>

\* Mutant of WriteItems: the catalog keeps the config it had.
WriteItems_Skipped(t, u) ==
    /\ At(t, "items") /\ u \in task[t].rows
    /\ torn' = IF task[t].alone THEN torn \ {u} ELSE torn
    /\ Finish(t, "idle")
    /\ UNCHANGED <<row, item, live, known, strays, suspect, counters>>

\* syncUserConfigsIntoCatalog.  An update nothing has disturbed leaves row and
\* item as one.
WriteItems(t, u) ==
    /\ At(t, "items") /\ u \in task[t].rows
    /\ item' = [item EXCEPT ![u] = IF @ = None THEN None ELSE task[t].snap[u].config]
    /\ torn' = IF task[t].alone THEN torn \ {u} ELSE torn
    /\ Finish(t, "idle")
    /\ UNCHANGED <<row, live, known, strays, suspect, counters>>

\* syncDefaultUsers of one default user: findOrCreate by name makes its row, with a
\* password and nothing else, ...
MakeDefault(t, u, p) ==
    /\ u \in Defaults /\ row[u].is = "unborn" /\ Fresh(p)
    /\ LET made == [Managed(p) EXCEPT !.rh = None]
       IN  /\ Begin(t, Holding(u, made, "defaults"))
           /\ row' = [row EXCEPT ![u] = made]
    /\ known' = known \cup {p}
    /\ UNCHANGED <<item, live, faults>>

\* ... or finds it.
FindDefault(t, u) ==
    /\ u \in Defaults /\ There(u) /\ row[u].source = "managed"
    /\ Begin(t, Holding(u, row[u], "defaults"))
    /\ UNCHANGED <<row, item, live, known, faults>>

\* Its configs and hash are written, and it is enabled again, as the profile says;
\* the push follows unless remote is false, when the box has not heard of it, and
\* then ensureDefaultCatalog, which ends as an assignment does.
WriteDefaults(t, u) ==
    /\ At(t, "defaults") /\ u \in task[t].rows
    /\ LET r == task[t]
           after == [r.snap[u] EXCEPT !.config = r.snap[u].pw, !.rh = r.snap[u].pw,
                                      !.enabled = TRUE]
           next == [r EXCEPT !.snap[u] = after]
       IN  /\ Save(u, r.snap[u], after)
           /\ \/ Carry(t, PushOf(next, {u}, {}, "assign")) /\ UNCHANGED suspect
              \/ Carry(t, [next EXCEPT !.pc = "assign"]) /\ suspect' = suspect \cup {u}
    /\ UNCHANGED <<item, live, known, strays, torn, counters>>

\* POST /catalog/assign reads the user and then writes the item.
StartAssign(t, u) ==
    /\ There(u) /\ row[u].source = "managed"
    /\ Begin(t, Holding(u, row[u], "assign"))
    /\ UNCHANGED <<row, item, live, known, faults>>

Assign(t, u) ==
    /\ At(t, "assign") /\ u \in task[t].rows
    /\ item' = [item EXCEPT ![u] = task[t].snap[u].config]
    /\ Finish(t, "idle")
    /\ UNCHANGED <<row, boxVars, strays, suspect, torn, counters>>

\* deleteUser: managed users leave the box first, whatever comes of it.
StartDelete(t, u) ==
    /\ There(u)
    /\ Begin(t, IF row[u].source = "imported" THEN Holding(u, row[u], "unlink")
                ELSE [Holding(u, row[u], "connect") EXCEPT
                        !.old = {HashOf(row[u])}, !.then = "unlink"])
    /\ UNCHANGED <<row, item, live, known, faults>>

UnlinkItems(t, u) ==
    /\ At(t, "unlink") /\ u \in task[t].rows
    /\ item' = [item EXCEPT ![u] = None]
    /\ Finish(t, "destroy")
    /\ UNCHANGED <<row, boxVars, strays, suspect, torn, counters>>

DestroyRow(t, u) ==
    /\ At(t, "destroy") /\ u \in task[t].rows
    /\ row' = [row EXCEPT ![u] = [Unborn EXCEPT !.is = "gone"]]
    /\ Finish(t, "idle")
    /\ suspect' = suspect \ {u} /\ torn' = torn \ {u}
    /\ UNCHANGED <<item, boxVars, strays, counters>>

\* adoptConfig of a pasted password p: findOrCreate by name finds nothing ...
AdoptNew(t, u, p) ==
    /\ row[u].is = "unborn" /\ p \in Foreign \ known
    /\ Begin(t, Holding(u, Managed(p), "adopt"))
    /\ row' = [row EXCEPT ![u] = Managed(p)]
    /\ known' = known \cup {p}
    /\ UNCHANGED <<item, live, faults>>

\* ... or finds the row that has the name.
AdoptOver(t, u, p) ==
    /\ There(u) /\ p \in Foreign \ known
    /\ Begin(t, [Holding(u, row[u], "adopt") EXCEPT !.new = p])
    /\ known' = known \cup {p}
    /\ UNCHANGED <<row, item, live, faults>>

\* The configs are built from the instance before update() has changed it, and
\* the hash a row had before is not taken off the box.
AdoptRow(t, u) ==
    /\ At(t, "adopt") /\ u \in task[t].rows
    /\ LET r == task[t]
           before == r.snap[u]
           p == IF r.new = None THEN before.pw ELSE r.new
           after == [before EXCEPT !.pw = p, !.rh = p, !.source = "managed",
                                   !.config = before.pw]
       IN  /\ Save(u, before, after)
           /\ Carry(t, PushOf([r EXCEPT !.snap[u] = after], {u}, {}, "idle"))
           /\ torn' = IF p = before.pw THEN torn ELSE torn \cup {u}
           /\ strays' = IF p = before.pw THEN strays ELSE strays \cup (live \cap {before.rh})
    /\ UNCHANGED <<item, live, known, suspect, counters>>

\* syncUsersAndTraffic: findAll, then the push of what it found.
StartSync(t) ==
    /\ \E u \in Users : There(u)
    /\ LET users == {u \in Users : There(u)}
           r == [Idle EXCEPT !.rows = users,
                             !.snap = [u \in Users |-> IF There(u) THEN row[u] ELSE Unborn]]
           next == PushOf(r, users, {}, "idle")
       IN  next.pc # "idle" /\ Begin(t, next)
    /\ UNCHANGED <<row, item, live, known, faults>>

-----------------------------------------------------------------------------
\* syncServerUsers, from the connection to the second listing.
\* No connection, no binary or no listing: the call returns with ok = false.
\* What it was to delete stays.
BoxUnreachable(t) ==
    /\ Fault
    /\ task[t].pc \in {"connect", "list"}
    /\ Fold(t, [task[t] EXCEPT !.ok = FALSE, !.old = {}])
    /\ strays' = strays \cup (task[t].old \cap live)
    /\ UNCHANGED <<row, item, boxVars, suspect, torn, begun>>

\* Connected: the deleteHashes go first, and a failing command is swallowed.
PurgeOld(t) ==
    /\ At(t, "connect")
    /\ task' = [task EXCEPT ![t].pc = "list", ![t].old = {}]
    /\ \/ live' = live \ task[t].old /\ UNCHANGED <<strays, faults>>
       \/ Fault /\ UNCHANGED live /\ strays' = strays \cup (task[t].old \cap live)
    /\ UNCHANGED <<row, item, known, suspect, torn, begun>>

ListUsers(t) ==
    /\ At(t, "list")
    /\ task' = [task EXCEPT ![t].listed = live, ![t].todo = task[t].push,
                            ![t].ok = TRUE, ![t].pc = "apply"]
    /\ UNCHANGED <<row, item, boxVars, strays, suspect, torn, counters>>

\* The command for one user: trojan-go rejects an add of a hash it has and a
\* modify or delete of one it has not.
Command(t, u) ==
    LET r == task[t].snap[u]
        exists == r.pw \in task[t].listed
    IN  \/ /\ ~r.enabled /\ exists /\ r.pw \in live
           /\ live' = live \ {r.pw}
        \/ /\ r.enabled /\ exists /\ r.pw \in live
           /\ UNCHANGED live
        \/ /\ r.enabled /\ ~exists /\ r.pw \notin live
           /\ live' = live \cup {r.pw}
        \/ /\ ~r.enabled /\ ~exists
           /\ UNCHANGED live

ApplyUser(t, u) ==
    /\ At(t, "apply") /\ u \in task[t].todo
    /\ Command(t, u)
    /\ task' = [task EXCEPT ![t].todo = @ \ {u}]
    /\ UNCHANGED <<row, item, known, strays, suspect, torn, counters>>

\* What trojan-go rejects, as the box has changed since the listing.
Rejected(t, u) ==
    LET r == task[t].snap[u]
        exists == r.pw \in task[t].listed
    IN  IF exists THEN r.pw \notin live ELSE r.enabled /\ r.pw \in live

\* The command was rejected or the connection has gone, which is recorded and
\* not thrown; or it exits with 0 and has no effect (told is FALSE).
CommandFails(t, u, told) ==
    /\ IF told /\ Rejected(t, u) THEN UNCHANGED faults ELSE Fault
    /\ At(t, "apply") /\ u \in task[t].todo
    /\ task[t].snap[u].enabled \/ task[t].snap[u].pw \in task[t].listed
    /\ task' = [task EXCEPT ![t].todo = @ \ {u}, ![t].bad = IF told THEN @ \cup {u} ELSE @]
    /\ UNCHANGED <<row, item, boxVars, strays, suspect, torn, begun>>

\* Mutant of Verify: only removals are verified.
Verify_Removals(t) ==
    /\ At(t, "apply") /\ task[t].todo = {}
    /\ LET r == task[t]
           wrong == {u \in r.push : ~r.snap[u].enabled /\ r.snap[u].pw \in r.listed \cap live}
       IN  Fold(t, [r EXCEPT !.bad = @ \cup wrong])
    /\ UNCHANGED <<row, item, boxVars, strays, suspect, torn, counters>>

\* The verifying listing turns a success the box does not show into an error.
Verify(t) ==
    /\ At(t, "apply") /\ task[t].todo = {}
    /\ LET r == task[t]
           wrong == {u \in r.push : IF r.snap[u].enabled THEN r.snap[u].pw \notin live
                                    ELSE r.snap[u].pw \in r.listed \cap live}
       IN  Fold(t, [r EXCEPT !.bad = @ \cup wrong])
    /\ UNCHANGED <<row, item, boxVars, strays, suspect, torn, counters>>

\* The verifying listing failed: the commands' exit codes stand, unconfirmed.
SkipVerify(t) ==
    /\ Fault
    /\ At(t, "apply") /\ task[t].todo = {}
    /\ Fold(t, [task[t] EXCEPT !.alone = FALSE])
    /\ suspect' = suspect \cup {u \in task[t].push : There(u)}
    /\ UNCHANGED <<row, item, boxVars, strays, torn, begun>>

\* applyLiveStats, or the status alone when there is no result.
FoldUser(t, u) ==
    /\ At(t, "fold") /\ u \in task[t].todo
    /\ LET r == task[t]
           good == r.ok /\ u \notin r.bad
           after == [r.snap[u] EXCEPT !.rh = IF r.ok THEN r.snap[u].pw ELSE @,
                                      !.synced = good]
       IN  /\ Save(u, r.snap[u], after)
           /\ IF r.todo = {u} THEN Finish(t, r.then)
              ELSE task' = [task EXCEPT ![t].todo = @ \ {u}]
           /\ suspect' = IF good /\ r.alone THEN suspect \ {u} ELSE suspect
    /\ UNCHANGED <<item, boxVars, strays, torn, counters>>

-----------------------------------------------------------------------------
\* importLiveUsers: the live listing, then the rows, then a row for each live
\* hash that no row claims.
StartImport(t) ==
    /\ Begin(t, [Idle EXCEPT !.pc = "i_list", !.rows = Users])
    /\ UNCHANGED <<row, item, live, known, faults>>

FetchLive(t) ==
    /\ At(t, "i_list")
    /\ \/ task' = [task EXCEPT ![t].listed = live, ![t].pc = "i_rows"]
       \/ Finish(t, "idle")
    /\ UNCHANGED <<row, item, boxVars, strays, suspect, torn, counters>>

\* Mutant of FindKnown: only imported rows are looked up.
FindKnown_Imported(t) ==
    /\ At(t, "i_rows")
    /\ LET rows == {u \in Users : There(u) /\ row[u].source = "imported"}
       IN  task' = [task EXCEPT ![t].listed = @ \ {HashOf(row[u]) : u \in rows},
                                ![t].pc = "i_create"]
    /\ UNCHANGED <<row, item, boxVars, strays, suspect, torn, counters>>

FindKnown(t) ==
    /\ At(t, "i_rows")
    /\ task' = [task EXCEPT ![t].listed = @ \ {HashOf(row[u]) : u \in {v \in Users : There(v)}},
                            ![t].pc = "i_create"]
    /\ UNCHANGED <<row, item, boxVars, strays, suspect, torn, counters>>

\* The name of an imported row comes from its hash and is unique.
ImportOne(t, u, h) ==
    /\ At(t, "i_create") /\ h \in task[t].listed /\ row[u].is = "unborn"
    /\ ~\E v \in Users : There(v) /\ row[v].source = "imported" /\ row[v].rh = h
    /\ row' = [row EXCEPT ![u] = Imported(h)]
    /\ task' = [task EXCEPT ![t].listed = @ \ {h}]
    /\ UNCHANGED <<item, boxVars, strays, suspect, torn, counters>>

\* Every live user has a row, or creating one failed.
EndImport(t) ==
    /\ At(t, "i_create")
    /\ Finish(t, "idle")
    /\ UNCHANGED <<row, item, boxVars, strays, suspect, torn, counters>>

-----------------------------------------------------------------------------
\* What is under way is lost with the process, and nothing repeats it.
Crash ==
    LET rows == {u \in UNION {task[t].rows : t \in Tasks} : There(u)}
    IN  /\ suspect' = suspect \cup rows
        /\ torn' = torn \cup rows
        /\ strays' = strays \cup (live \cap UNION {Mentioned(task[t]) : t \in Tasks})
        /\ Fault
        /\ \E t \in Tasks : ~At(t, "idle")
        /\ task' = [t \in Tasks |-> Idle]
        /\ UNCHANGED <<row, item, boxVars, begun>>

\* trojan-go comes up with the users its own panel gave it.
BoxRestart ==
    /\ Fault
    /\ ~(live \subseteq Foreign)
    /\ live' = live \cap Foreign
    /\ task' = [t \in Tasks |-> [task[t] EXCEPT !.alone = At(t, "idle")]]
    /\ suspect' = {u \in Users : There(u)}
    /\ UNCHANGED <<row, item, known, strays, torn, begun>>

Request(t) ==
    \/ \E u \in Users, p \in Passwords : MakeDefault(t, u, p) \/ AdoptNew(t, u, p) \/ AdoptOver(t, u, p)
    \/ \E u \in Users, p \in Passwords, on \in BOOLEAN : CreateUser(t, u, p, on)
    \/ \E u \in Users, p \in Passwords \cup {None}, on \in BOOLEAN : StartUpdate(t, u, p, on)
    \/ \E u \in Users : FindDefault(t, u) \/ StartAssign(t, u) \/ StartDelete(t, u)
    \/ StartSync(t)
    \/ StartImport(t)

RowStep(t) ==
    \E u \in Users :
        \/ PatchRow(t, u) \/ WriteHash(t, u) \/ WriteConfig(t, u) \/ WriteItems(t, u)
        \/ WriteDefaults(t, u)
        \/ Assign(t, u) \/ UnlinkItems(t, u) \/ DestroyRow(t, u) \/ AdoptRow(t, u)

BoxStep(t) ==
    \/ BoxUnreachable(t) \/ PurgeOld(t) \/ ListUsers(t)
    \/ \E u \in Users : ApplyUser(t, u) \/ FoldUser(t, u) \/ \E told \in BOOLEAN : CommandFails(t, u, told)
    \/ Verify(t) \/ SkipVerify(t)

ImportStep(t) ==
    \/ FetchLive(t) \/ FindKnown(t) \/ EndImport(t)
    \/ \E u \in Users, h \in Passwords : ImportOne(t, u, h)

Next ==
    \/ \E t \in Tasks : Request(t) \/ RowStep(t) \/ BoxStep(t) \/ ImportStep(t)
    \/ Crash
    \/ BoxRestart

Spec == Init /\ [][Next]_vars

-----------------------------------------------------------------------------
\* A live hash the panel has put on the box is claimed by a row or by a task at
\* work on it, unless its removal failed, a crash cut a task short or two tasks
\* on one user overlapped: rotation and deletion leave no credential behind.
NoStray ==
    \A h \in live \cap known :
        \/ h \in strays
        \/ \E u \in Users : There(u) /\ row[u].rh = h
        \/ \E t \in Tasks : h \in Mentioned(task[t])

\* What the panel shows as synced is so.  When no task is at work on a managed
\* user, its last push ran undisturbed and its status is synced, its password is
\* live exactly when it is enabled; a push that runs alone restores this after a
\* trojan-go restart, a crash or an overlap.
Reconciled ==
    \A u \in Users :
        (There(u) /\ row[u].source = "managed" /\ row[u].synced
            /\ u \notin suspect /\ ~Active(u))
        => (row[u].pw \in live <=> row[u].enabled) /\ row[u].rh = row[u].pw

\* Between tasks a managed row's config and its catalog item carry the password
\* of the row, unless a crash or an overlap has touched it since the last update
\* that ran alone.
ConfigCurrent ==
    \A u \in Users :
        (There(u) /\ row[u].source = "managed" /\ u \notin torn /\ ~Active(u))
        => row[u].config = row[u].pw /\ item[u] \in {None, row[u].pw}

\* An imported row stands for a user of the box's own: never for a hash the
\* panel put there, unless that hash is a stray.
ImportsAreForeign ==
    \A u \in Users :
        (There(u) /\ row[u].source = "imported")
        => row[u].rh \in Foreign \/ row[u].rh \in strays

\* adoptConfig makes a pasted config servable: the row it leaves, when no other
\* task has touched it, carries a config with the adopted password.
AdoptedServable ==
    [][\A t \in Tasks, u \in Users :
          (At(t, "adopt") /\ ~At(t, "adopt")' /\ task[t].alone /\ u \in task[t].rows)
          => row'[u].config = row'[u].pw \/ ~There(u)']_vars

\* What deleteUser's comment and the README promise the box's own users: an imported
\* row is read-only, so the panel takes off the box only hashes whose password it
\* holds.  Not so: updateUser takes an imported row and deletes its former hash.
ForeignUntouched ==
    [][\A h \in live \ live' : h \in known]_vars
=============================================================================
