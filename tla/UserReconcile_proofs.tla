-------------------------- MODULE UserReconcile_proofs --------------------------
(***************************************************************************)
(* What the runs of UserReconcile check, for any number of users, tasks,   *)
(* passwords and faults, while no imported row is edited.                  *)
(***************************************************************************)
EXTENDS UserReconcile, TLAPS

LEMMA Constants ==
    /\ Foreign \subseteq Passwords
    /\ None \notin Passwords /\ Placeholder \notin Passwords /\ None # Placeholder
    /\ MaxRequests \in Nat /\ MaxFaults \in Nat
BY UserReconcileAssumption

USE Constants

-----------------------------------------------------------------------------
(* The shape of the tasks and rows *)

\* The places of an import, of a push, and of the tasks on one row.
Importing == {"i_list", "i_rows", "i_create"}
OnBox == {"connect", "list", "apply", "fold"}
Single == {"patch", "hash", "config", "items", "defaults", "adopt", "assign"}

\* A row or instance carries the passwords its source allows.
Proper(q) ==
    /\ q.is \in {"unborn", "there"}
    /\ q.is = "there" /\ q.source = "managed" => q.pw \in Passwords /\ q.rh \in Passwords \cup {None}
    /\ q.is = "there" /\ q.source = "imported" => q.pw = Placeholder /\ q.rh \in Passwords

\* The task holds the instance of a managed row.
Kept(r, u) == u \in r.rows /\ r.snap[u].is = "there" /\ r.snap[u].source = "managed"

\* What a task holds at each of its places.
ShapeOf(r) ==
    /\ r.pc = "idle" => r = Idle
    /\ \A u \in Users : Proper(r.snap[u]) /\ (u \notin r.rows => r.snap[u] = Unborn)
    /\ r.pc \in Single =>
          /\ \A u, v \in r.rows : u = v
          /\ \A u \in r.rows : r.snap[u].is = "there" /\ (r.pc # "adopt" => Kept(r, u))
    /\ r.pc \in {"unlink", "destroy"} => \A u, v \in r.rows : u = v /\ ~Kept(r, u)
    /\ r.pc \in Importing => r.rows = Users /\ \A u \in Users : r.snap[u] = Unborn
    /\ r.pc \in OnBox =>
          /\ r.then \in {"idle", "items", "assign", "unlink"}
          /\ \A u \in r.rows : r.snap[u].is = "there"
          /\ r.then # "unlink" => r.push = {u \in r.rows : Kept(r, u)}
          /\ r.then \in {"items", "assign"} => \A u \in r.rows : Kept(r, u)
          /\ r.then = "unlink" => r.push = {}
          /\ r.then # "idle" => \A u, v \in r.rows : u = v
    /\ r.pc \in {"patch", "hash"} => r.then = "items"
    /\ r.pc = "config" => r.then \in {"idle", "items"}
    /\ r.pc \in {"defaults", "adopt"} => r.then = "idle"
    /\ r.todo \subseteq r.push /\ r.push \subseteq r.rows
    /\ r.pc \in Importing \cup {"patch", "hash", "config", "defaults", "adopt", "unlink", "destroy"} => r.push = {}
    /\ r.pc \notin {"apply", "fold", "items", "assign"} => ~r.ok
    /\ r.pc = "apply" => r.ok
    /\ r.pc \notin {"hash", "config", "connect"} => r.old = {}
    /\ r.pc \notin {"patch", "adopt"} /\ r.new # None => \A u \in r.rows : Kept(r, u) /\ r.snap[u].pw = r.new
    /\ r.old # {} \/ r.new # None => r.rows # {} /\ \A u, v \in r.rows : u = v
    /\ r.old \subseteq Passwords \cup {None} /\ r.new \in Passwords \cup {None}
    /\ r.pc = "hash" => \A u \in r.rows : r.snap[u].rh \in r.old \cup {None}
    /\ r.pc = "connect" /\ r.then = "unlink" => \A u \in r.rows : Kept(r, u) /\ r.snap[u].rh \in r.old \cup {None}
    /\ r.pc = "adopt" => \A u \in r.rows :
          IF r.new = None THEN Kept(r, u) /\ r.snap[u].rh = r.snap[u].pw ELSE r.snap[u].pw # r.new
    /\ r.pc = "items" \/ (r.pc \in OnBox /\ r.then \in {"items", "assign"}) =>
          \A u \in r.rows : r.snap[u].config = r.snap[u].pw

Shape == \A t \in Tasks : ShapeOf(task[t])

\* The task holds an instance of the row; that of a managed one.
Holds(t, u) == u \in task[t].rows /\ task[t].snap[u].is = "there"
Keeps(t, u) == Kept(task[t], u)

\* What an instance says of its row whoever has written the row since.
Rows ==
    /\ \A u \in Users : row[u].is # "gone" => Proper(row[u])
    /\ \A u \in Users : row[u].is = "unborn" => item[u] = None /\ \A t \in Tasks : ~Holds(t, u)
    /\ \A t \in Tasks, u \in Users : Keeps(t, u) /\ There(u) => row[u].source = "managed"
    /\ \A t \in Tasks, u \in Users :
          Holds(t, u) /\ There(u) /\ row[u].source = "imported" => row[u].rh = task[t].snap[u].rh

-----------------------------------------------------------------------------
(* Whose a password is *)

\* A password is a user's: its row has it, or a task at work on it.
RowHas(u, h) == There(u) /\ row[u].source = "managed" /\ h \in {row[u].pw, row[u].rh}
TaskHas(t, u, h) ==
    \/ Keeps(t, u) /\ h \in {task[t].snap[u].pw, task[t].snap[u].rh}
    \/ u \in task[t].rows /\ h \in task[t].old \cup {task[t].new}
Has(u, h) == RowHas(u, h) \/ \E t \in Tasks : TaskHas(t, u, h)

\* Whatever the panel has put on the box it knows, and no two users share a password.
Owner ==
    /\ live \subseteq Foreign \cup known
    /\ \A u \in Users, h \in Passwords : Has(u, h) => h \in known
    /\ \A u, v \in Users, h \in Passwords : Has(u, h) /\ Has(v, h) => u = v

-----------------------------------------------------------------------------
(* What overlapping tasks leave *)

\* What an overlap leaves behind: hashes noted as strays, users as suspect and torn.
Noted(h) == h \in Passwords => h \in strays
Marked(u) == u \in suspect /\ u \in torn
Upset(t) == ~task[t].alone /\ Mentioned(task[t]) \subseteq strays

\* Two tasks on one user have been noted, both of them.
Overlaps ==
    \A t, o \in Tasks, u \in Users :
        (t # o /\ u \in task[t].rows /\ u \in task[o].rows)
        => /\ Mentioned(task[t]) \subseteq strays
           /\ Holds(t, u) => Upset(t) /\ (There(u) => Marked(u))

\* The row as the task knows it: its instance, and what a fold has written since.
Folded(t, u) ==
    u \in task[t].push /\ (task[t].pc \in {"items", "assign"} \/ (At(t, "fold") /\ u \notin task[t].todo))

Now(t, u) ==
    IF Folded(t, u)
    THEN [task[t].snap[u] EXCEPT !.rh = IF task[t].ok THEN task[t].snap[u].pw ELSE @,
                                 !.synced = task[t].ok /\ u \notin task[t].bad]
    ELSE task[t].snap[u]

\* Another task has been at the row, and everyone has been told.
Blurred(t, u) == Upset(t) /\ (There(u) => Marked(u) /\ Noted(row[u].pw) /\ Noted(row[u].rh))

\* A task knows the row it holds an instance of, or is known not to.
Track == \A t \in Tasks, u \in Users : Holds(t, u) => row[u] = Now(t, u) \/ Blurred(t, u)

-----------------------------------------------------------------------------
(* No stray *)

\* Not a credential of the panel's that nobody has noted.
Calm(h) == h \in live => h \in strays

Pushing(t, u) == task[t].ok /\ u \in task[t].push

\* Where the hash of a row is not that of its password, neither may be on the box unnoted:
\* so whoever overwrites the one or the other loses nothing.
Even ==
    /\ \A t \in Tasks : At(t, "patch") => Calm(task[t].new)
    /\ \A t \in Tasks, u \in Users :
          (Keeps(t, u) /\ task[t].snap[u].rh # task[t].snap[u].pw) =>
              /\ ~At(t, "hash") => Calm(task[t].snap[u].rh)
              /\ ~Pushing(t, u) => Calm(task[t].snap[u].pw)
    /\ \A u \in Users :
          (There(u) /\ row[u].source = "managed" /\ \A t \in Tasks : ~Holds(t, u))
          => row[u].rh = row[u].pw \/ (Calm(row[u].rh) /\ Calm(row[u].pw))

\* The task is about to delete the user, and the hash of its row is off the box.
Parting(t, u) ==
    /\ u \in task[t].rows
    /\ \/ task[t].pc \in {"unlink", "destroy"}
       \/ task[t].pc \in {"list", "apply"} /\ task[t].then = "unlink"

Leaving ==
    \A t \in Tasks, u \in Users :
        (Parting(t, u) /\ There(u) /\ row[u].source = "managed") => Calm(row[u].rh)

\* Every live hash of the panel's is a row's, a task's or noted.
Claimed(u, h) == There(u) /\ row[u].source = "managed" /\ row[u].rh = h

Claims ==
    \A h \in live \cap known :
        \/ h \in strays
        \/ \E u \in Users : Claimed(u, h)
        \/ \E t \in Tasks, u \in Users : TaskHas(t, u, h)

\* What an import has in hand is the box's own or noted, as soon as it has read the rows.
Listing ==
    \A t \in Tasks, h \in Passwords :
        /\ (At(t, "i_rows") /\ h \in task[t].listed) =>
              \/ h \in Foreign \cup strays
              \/ \E u \in Users : Claimed(u, h) /\ \A o \in Tasks : ~Parting(o, u)
        /\ (At(t, "i_create") /\ h \in task[t].listed) => h \in Foreign \cup strays

-----------------------------------------------------------------------------
(* What is shown as synced *)

\* What the row says of the box is so; no task but an import is at work on the user.
Told(u) == row[u].synced => (row[u].pw \in live <=> row[u].enabled) /\ row[u].rh = row[u].pw
Free(u) == \A t \in Tasks : u \in task[t].rows => task[t].pc \in Importing

\* A push that something has disturbed leaves its users suspected.
Warned(t, u) ==
    ((Keeps(t, u) \/ (Holds(t, u) /\ At(t, "adopt"))) /\ There(u) /\ ~task[t].alone) => u \in suspect

\* A push that nothing has disturbed knows what is live.
Sees(t, u) ==
    (task[t].alone /\ Keeps(t, u)) =>
        /\ At(t, "apply") =>
              IF u \in task[t].todo THEN task[t].snap[u].pw \in task[t].listed <=> task[t].snap[u].pw \in live
              ELSE ~task[t].snap[u].enabled /\ task[t].snap[u].pw \notin task[t].listed
                   => task[t].snap[u].pw \notin live
        /\ (At(t, "fold") /\ task[t].ok /\ u \in task[t].todo \ task[t].bad) =>
              (task[t].snap[u].pw \in live <=> task[t].snap[u].enabled)

\* After the fold the row tells the truth, ...
Tells(t, u) ==
    (Keeps(t, u) /\ There(u) /\ u \notin suspect
      /\ (task[t].pc \in {"assign", "items"} \/ (At(t, "fold") /\ u \notin task[t].todo))) => Told(u)

\* ... and goes on to when no task is at work on it.
Rests(u) == (There(u) /\ row[u].source = "managed" /\ u \notin suspect /\ Free(u)) => Told(u)

Truth ==
    /\ \A t \in Tasks, u \in Users : Warned(t, u) /\ Sees(t, u) /\ Tells(t, u)
    /\ \A u \in Users : Rests(u)

-----------------------------------------------------------------------------
(* What is served *)

\* A task carries a config of the row's password, and knows the item is none or the same.
Carries(t, u) ==
    (Keeps(t, u) /\ There(u) /\ u \notin torn) =>
        /\ task[t].pc \in OnBox \cup {"items", "assign"} => task[t].snap[u].config = task[t].snap[u].pw
        /\ (task[t].pc \in OnBox \cup {"config"} /\ task[t].then = "idle") \/ (At(t, "adopt") /\ task[t].new = None)
           => item[u] \in {None, task[t].snap[u].pw}

Served(u) ==
    (There(u) /\ row[u].source = "managed" /\ u \notin torn /\ Free(u))
    => row[u].config = row[u].pw /\ item[u] \in {None, row[u].pw}

Serving ==
    /\ \A t \in Tasks, u \in Users : Carries(t, u)
    /\ \A u \in Users : Served(u)

-----------------------------------------------------------------------------
(* Types *)

\* Rows and instances of the type are made by the operators that make them.
LEMMA RowsOK ==
    /\ Unborn \in Row
    /\ \A p \in Passwords : Managed(p) \in Row /\ Settled(p) \in Row /\ Imported(p) \in Row
    /\ \A q \in Row : /\ q.pw \in Secrets /\ q.rh \in Secrets /\ q.config \in Secrets
                       /\ q.source \in {"managed", "imported"} /\ q.enabled \in BOOLEAN
                       /\ q.synced \in BOOLEAN /\ q.is \in {"unborn", "there", "gone"}
BY ZenonT(30) DEF Row, Unborn, Managed, Settled, Imported, Secrets

\* update() writes the fields that differ.
LEMMA SaveOK ==
    ASSUME TypeOK, NEW u \in Users, NEW b \in Row, NEW a \in Row, Save(u, b, a)
    PROVE  /\ row' \in [Users -> Row]
           /\ \A v \in Users : v # u \/ ~There(u) => row'[v] = row[v]
           /\ There(u) =>
                 /\ row'[u].is = IF b.is = a.is THEN row[u].is ELSE a.is
                 /\ row'[u].source = IF b.source = a.source THEN row[u].source ELSE a.source
                 /\ row'[u].enabled = IF b.enabled = a.enabled THEN row[u].enabled ELSE a.enabled
                 /\ row'[u].pw = IF b.pw = a.pw THEN row[u].pw ELSE a.pw
                 /\ row'[u].rh = IF b.rh = a.rh THEN row[u].rh ELSE a.rh
                 /\ row'[u].config = IF b.config = a.config THEN row[u].config ELSE a.config
                 /\ row'[u].synced = IF b.synced = a.synced THEN row[u].synced ELSE a.synced
<1>1. CASE ~There(u)
  BY <1>1 DEF Save, TypeOK
<1>2. CASE There(u)
  <2> DEFINE q == [f \in DOMAIN b |-> IF b[f] = a[f] THEN row[u][f] ELSE a[f]]
  <2>1. row[u] \in Row
    BY DEF TypeOK
  <2>2. DOMAIN b = {"is", "source", "enabled", "pw", "rh", "config", "synced"}
    BY DEF Row
  <2>3. row' = [row EXCEPT ![u] = q]
    BY <1>2 DEF Save
  <2>4. q = [is |-> IF b.is = a.is THEN row[u].is ELSE a.is,
             source |-> IF b.source = a.source THEN row[u].source ELSE a.source,
             enabled |-> IF b.enabled = a.enabled THEN row[u].enabled ELSE a.enabled,
             pw |-> IF b.pw = a.pw THEN row[u].pw ELSE a.pw,
             rh |-> IF b.rh = a.rh THEN row[u].rh ELSE a.rh,
             config |-> IF b.config = a.config THEN row[u].config ELSE a.config,
             synced |-> IF b.synced = a.synced THEN row[u].synced ELSE a.synced]
    BY <2>2
  <2> HIDE DEF q
  <2>5. q \in Row
    BY <2>1, <2>4 DEF Row
  <2>6. QED BY <1>2, <2>3, <2>4, <2>5 DEF TypeOK
<1>3. QED BY <1>1, <1>2

\* The records that tasks become have the type.
\* The hash a row's user is taken to have is that of the row or of its password.
LEMMA HashIs ==
    \A q \in Row : /\ HashOf(q) \in {q.rh, q.pw} /\ HashOf(q) \in Secrets
                   /\ q.rh # None => HashOf(q) = q.rh
BY RowsOK DEF HashOf

LEMMA IdleOK == Idle \in Task
BY RowsOK DEF Idle, Task, Steps, Secrets

LEMMA TaskFields ==
    ASSUME TypeOK, NEW t \in Tasks
    PROVE  /\ task[t] \in Task /\ task[t].rows \subseteq Users /\ task[t].snap \in [Users -> Row]
           /\ task[t].new \in Secrets /\ task[t].on \in BOOLEAN /\ task[t].push \subseteq Users
           /\ task[t].old \subseteq Secrets /\ task[t].then \in Steps /\ task[t].listed \subseteq Passwords
           /\ task[t].todo \subseteq Users /\ task[t].bad \subseteq Users
           /\ task[t].ok \in BOOLEAN /\ task[t].alone \in BOOLEAN /\ task[t].pc \in Steps
BY DEF TypeOK, Task

LEMMA HoldingOK ==
    ASSUME NEW u \in Users, NEW r \in Row, NEW step \in Steps
    PROVE  Holding(u, r, step) \in Task
BY RowsOK, ZenonT(30) DEF Holding, Idle, Task, Steps, Secrets

LEMMA CarryOK ==
    ASSUME TypeOK, NEW t, NEW r \in Task, Carry(t, r)
    PROVE  task' \in [Tasks -> Task]
BY IdleOK DEF Carry, TypeOK

LEMMA FoldOK ==
    ASSUME TypeOK, NEW t, NEW r \in Task, Fold(t, r)
    PROVE  task' \in [Tasks -> Task]
<1>1. [Idle EXCEPT !.pc = r.then, !.rows = r.rows] \in Task
  BY RowsOK DEF Idle, Task, Steps, Secrets
<1>2. [r EXCEPT !.pc = "fold", !.todo = r.push, !.listed = {}] \in Task
  BY DEF Task, Steps
<1>3. QED BY <1>1, <1>2, CarryOK DEF Fold

LEMMA FinishOK ==
    ASSUME TypeOK, NEW t \in Tasks, NEW step \in Steps, Finish(t, step)
    PROVE  task' \in [Tasks -> Task]
<1>1. [task[t] EXCEPT !.pc = step] \in Task
  BY TaskFields DEF Task
<1>2. QED BY <1>1, CarryOK DEF Finish

LEMMA PushOK ==
    ASSUME NEW r \in Task, NEW users \in SUBSET Users, NEW old \in SUBSET Secrets, NEW then \in Steps
    PROVE  PushOf(r, users, old, then) \in Task
BY ZenonT(30) DEF PushOf, Task, Steps

LEMMA MentionedOK == \A r \in Task : Mentioned(r) \subseteq Passwords
BY DEF Mentioned

LEMMA BeginOK ==
    ASSUME TypeOK, NEW t \in Tasks, NEW r \in Task, Begin(t, r)
    PROVE  /\ task' \in [Tasks -> Task] /\ strays' \subseteq Passwords /\ suspect' \subseteq Users
           /\ torn' \subseteq Users /\ begun' \in 0 .. MaxRequests
<1> DEFINE met == {o \in Tasks : ~At(o, "idle") /\ task[o].rows \cap r.rows # {}}
           hashes == Mentioned(r) \cup UNION {Mentioned(task[o]) : o \in met}
           rows == {u \in r.rows \cup UNION {task[o].rows : o \in met} :
                        There(u) \/ r.snap[u].is = "there"}
<1>1. /\ begun < MaxRequests /\ begun' = begun + 1
      /\ task' = [o \in Tasks |->
              IF o = t THEN [r EXCEPT !.alone = (met = {})]
              ELSE IF o \in met THEN [task[o] EXCEPT !.alone = FALSE]
              ELSE task[o]]
      /\ strays' = strays \cup (IF met = {} THEN {} ELSE hashes)
      /\ suspect' = suspect \cup (IF met = {} THEN {} ELSE rows)
      /\ torn' = torn \cup (IF met = {} THEN {} ELSE rows)
  BY DEF Begin
<1>2. hashes \subseteq Passwords
  BY DEF Mentioned
<1>3. rows \subseteq Users
  <2>1. r.rows \subseteq Users
    BY DEF Task
  <2>2. QED BY <2>1, TaskFields
<1>4. [r EXCEPT !.alone = (met = {})] \in Task
  BY DEF Task
<1>5. \A o \in Tasks : task[o] \in Task /\ [task[o] EXCEPT !.alone = FALSE] \in Task
  BY ZenonT(30), TaskFields DEF Task
<1> HIDE DEF met, hashes, rows
<1>6. QED BY <1>1, <1>2, <1>3, <1>4, <1>5 DEF TypeOK

LEMMA TypeInit == Init => TypeOK
<1> SUFFICES ASSUME Init PROVE TypeOK
  OBVIOUS
<1>1. Held \in [DOMAIN Held -> Passwords \ Foreign] /\ DOMAIN Held \subseteq Users
  BY UserReconcileAssumption
<1>2. \A u \in Users : (IF u \in DOMAIN Held THEN Settled(Held[u]) ELSE Unborn) \in Row
  BY <1>1, RowsOK
<1>3. row \in [Users -> Row]
  BY <1>2 DEF Init
<1>4. item \in [Users -> Secrets]
  BY <1>3, RowsOK DEF Init
<1>5. task \in [Tasks -> Task]
  BY IdleOK DEF Init
<1>6. live \subseteq Passwords /\ known \subseteq Passwords
  BY <1>1 DEF Init
<1>7. QED BY <1>3, <1>4, <1>5, <1>6 DEF Init, TypeOK

LEMMA RequestTypes ==
    ASSUME TypeOK, NEW t \in Tasks, Request(t)
    PROVE  TypeOK'
<1> USE DEF Steps
<1>1. ASSUME NEW r \in Task, Begin(t, r), row' \in [Users -> Row], known' \subseteq Passwords,
             UNCHANGED <<item, live, faults>>
      PROVE  TypeOK'
  BY <1>1, BeginOK DEF TypeOK
<1>2. \A u \in Users : row[u] \in Row
  BY DEF TypeOK
<1>3. ASSUME NEW u \in Users, NEW p \in Passwords, NEW on \in BOOLEAN, CreateUser(t, u, p, on) PROVE TypeOK'
  <2> DEFINE made == [Managed(p) EXCEPT !.enabled = on]
  <2>1. made \in Row
    BY RowsOK DEF Row, Secrets
  <2>2. Begin(t, Holding(u, made, "config")) /\ row' = [row EXCEPT ![u] = made] /\ known' = known \cup {p}
        /\ UNCHANGED <<item, live, faults>>
    BY <1>3 DEF CreateUser
  <2> HIDE DEF made
  <2>3. QED BY <1>1, <2>1, <2>2, HoldingOK DEF TypeOK
<1>4. ASSUME NEW u \in Users, NEW p \in Passwords, MakeDefault(t, u, p) PROVE TypeOK'
  <2> DEFINE made == [Managed(p) EXCEPT !.rh = None]
  <2>1. made \in Row
    BY RowsOK DEF Row, Secrets
  <2>2. Begin(t, Holding(u, made, "defaults")) /\ row' = [row EXCEPT ![u] = made] /\ known' = known \cup {p}
        /\ UNCHANGED <<item, live, faults>>
    BY <1>4 DEF MakeDefault
  <2> HIDE DEF made
  <2>3. QED BY <1>1, <2>1, <2>2, HoldingOK DEF TypeOK
<1>5. ASSUME NEW u \in Users, NEW p \in Passwords, AdoptNew(t, u, p) PROVE TypeOK'
  BY <1>1, <1>5, RowsOK, HoldingOK DEF AdoptNew, TypeOK
<1>6. ASSUME NEW u \in Users, NEW p \in Passwords, AdoptOver(t, u, p) PROVE TypeOK'
  <2>1. [Holding(u, row[u], "adopt") EXCEPT !.new = p] \in Task
    <3>1. Holding(u, row[u], "adopt") \in Task
      BY <1>2, HoldingOK
    <3>2. QED BY <3>1 DEF Task, Secrets
  <2>2. QED BY <1>1, <1>6, <2>1 DEF AdoptOver, TypeOK
<1>7. ASSUME NEW u \in Users, NEW p \in Passwords \cup {None}, NEW on \in BOOLEAN, StartUpdate(t, u, p, on)
      PROVE  TypeOK'
  <2>1. [Holding(u, row[u], "patch") EXCEPT !.new = p, !.on = on, !.then = "items"] \in Task
    <3>1. Holding(u, row[u], "patch") \in Task
      BY <1>2, HoldingOK
    <3>2. QED BY <3>1 DEF Task, Secrets
  <2>2. QED BY <1>1, <1>7, <2>1 DEF StartUpdate, TypeOK
<1>8. ASSUME NEW u \in Users, FindDefault(t, u) \/ StartAssign(t, u) PROVE TypeOK'
  BY <1>1, <1>2, <1>8, HoldingOK DEF FindDefault, StartAssign, TypeOK
<1>9. ASSUME NEW u \in Users, StartDelete(t, u) PROVE TypeOK'
  <2>1. Holding(u, row[u], "unlink") \in Task /\ Holding(u, row[u], "connect") \in Task
    BY <1>2, HoldingOK
  <2>2. [Holding(u, row[u], "connect") EXCEPT !.old = {HashOf(row[u])}, !.then = "unlink"] \in Task
    <3>1. PICK r \in Task : r = Holding(u, row[u], "connect")
      BY <2>1
    <3>2. {HashOf(row[u])} \in SUBSET Secrets
      BY <1>2, HashIs
    <3>3. \A old \in SUBSET Secrets : [r EXCEPT !.old = old, !.then = "unlink"] \in Task
      BY DEF Task, Steps
    <3>4. QED BY ZenonT(30), <3>1, <3>2, <3>3
  <2>3. QED BY <1>1, <1>9, <2>1, <2>2 DEF StartDelete, TypeOK
<1>10. ASSUME StartSync(t) PROVE TypeOK'
  <2> DEFINE users == {u \in Users : There(u)}
             r == [Idle EXCEPT !.rows = users,
                               !.snap = [u \in Users |-> IF There(u) THEN row[u] ELSE Unborn]]
  <2>1. r \in Task
    <3>1. [u \in Users |-> IF There(u) THEN row[u] ELSE Unborn] \in [Users -> Row]
      BY <1>2, RowsOK
    <3>2. QED BY <3>1, IdleOK, ZenonT(30) DEF Task
  <2>2. Begin(t, PushOf(r, users, {}, "idle")) /\ UNCHANGED <<row, item, live, known, faults>>
    BY <1>10 DEF StartSync
  <2> HIDE DEF r
  <2>3. PushOf(r, users, {}, "idle") \in Task
    BY <2>1, PushOK
  <2>4. QED BY <1>1, <2>2, <2>3 DEF TypeOK
<1>11. ASSUME StartImport(t) PROVE TypeOK'
  <2>1. [Idle EXCEPT !.pc = "i_list", !.rows = Users] \in Task
    BY IdleOK DEF Task
  <2>2. QED BY <1>1, <1>11, <2>1 DEF StartImport, TypeOK
<1>12. QED BY <1>3, <1>4, <1>5, <1>6, <1>7, <1>8, <1>9, <1>10, <1>11 DEF Request

LEMMA RowStepTypes ==
    ASSUME TypeOK, NEW t \in Tasks, RowStep(t)
    PROVE  TypeOK'
<1> USE DEF Steps
<1>0. PICK u \in Users :
        \/ PatchRow(t, u) \/ WriteHash(t, u) \/ WriteConfig(t, u) \/ WriteItems(t, u)
        \/ WriteDefaults(t, u)
        \/ Assign(t, u) \/ UnlinkItems(t, u) \/ DestroyRow(t, u) \/ AdoptRow(t, u)
  BY DEF RowStep
<1> DEFINE r == task[t]
           b == r.snap[u]
<1>1. r \in Task /\ b \in Row /\ r.new \in Secrets /\ r.old \subseteq Secrets /\ r.on \in BOOLEAN
      /\ b.pw \in Secrets /\ b.rh \in Secrets /\ b.config \in Secrets /\ r.then \in Steps
  BY TaskFields, RowsOK
<1>2. ASSUME NEW a \in Row, Save(u, b, a) PROVE row' \in [Users -> Row]
  BY <1>1, <1>2, SaveOK
<1>3. ASSUME NEW a \in Row PROVE [r EXCEPT !.snap[u] = a] \in Task
  BY <1>1, <1>3 DEF Task
<1>4. CASE PatchRow(t, u)
  <2> DEFINE a == [b EXCEPT !.enabled = r.on, !.pw = IF r.new # None THEN r.new ELSE @]
  <2>1. a \in Row
    BY <1>1 DEF Row
  <2>2. /\ Save(u, b, a)
        /\ task' = [task EXCEPT ![t].snap[u] = a, ![t].new = None, ![t].on = TRUE,
                                ![t].pc = IF r.new # None THEN "hash" ELSE "config",
                                ![t].old = IF r.new # None THEN {HashOf(b)} ELSE {}]
        /\ UNCHANGED <<item, live, known, strays, suspect, torn, counters>>
    BY <1>4 DEF PatchRow
  <2> HIDE DEF a
  <2>3. task' \in [Tasks -> Task]
    <3>1. None \in Secrets
      BY DEF Secrets
    <3>2. \A step \in Steps, old \in SUBSET Secrets :
             [r EXCEPT !.snap[u] = a, !.new = None, !.on = TRUE, !.pc = step, !.old = old] \in Task
      BY <1>1, <2>1, <3>1, ZenonT(30) DEF Task
    <3>3. (IF r.new # None THEN "hash" ELSE "config") \in Steps
          /\ (IF r.new # None THEN {HashOf(b)} ELSE {}) \in SUBSET Secrets
      BY <1>1, HashIs
    <3>4. PICK step \in Steps, old \in SUBSET Secrets :
             task' = [task EXCEPT ![t].snap[u] = a, ![t].new = None, ![t].on = TRUE, ![t].pc = step, ![t].old = old]
      BY ZenonT(30), <2>2, <3>3
    <3>5. PICK q \in Task : q = [r EXCEPT !.snap[u] = a, !.new = None, !.on = TRUE, !.pc = step, !.old = old]
      BY ZenonT(30), <3>2
    <3>6. task' = [task EXCEPT ![t] = q]
      BY <3>4, <3>5 DEF TypeOK
    <3>7. QED BY <3>6 DEF TypeOK
  <2>4. QED BY <1>2, <2>1, <2>2, <2>3 DEF TypeOK, counters
<1>5. CASE WriteHash(t, u)
  <2> DEFINE a == [b EXCEPT !.rh = b.pw]
  <2>1. a \in Row
    BY <1>1 DEF Row
  <2>2. /\ Save(u, b, a) /\ task' = [task EXCEPT ![t].pc = "config", ![t].snap[u] = a]
        /\ UNCHANGED <<item, live, known, strays, suspect, torn, counters>>
    BY <1>5 DEF WriteHash, Update
  <2> HIDE DEF a
  <2>3. task' \in [Tasks -> Task]
    BY <1>1, <2>1, <2>2, ZenonT(30) DEF TypeOK, Task
  <2>4. QED BY <1>2, <2>1, <2>2, <2>3 DEF TypeOK, counters
<1>6. CASE WriteConfig(t, u)
  <2> DEFINE a == [b EXCEPT !.config = b.pw]
  <2>1. a \in Row
    BY <1>1 DEF Row
  <2>2. /\ Save(u, b, a) /\ Carry(t, PushOf([r EXCEPT !.snap[u] = a], {u}, r.old, r.then))
        /\ UNCHANGED <<item, live, known, strays, suspect, torn, counters>>
    BY <1>6 DEF WriteConfig
  <2> HIDE DEF a
  <2>3. task' \in [Tasks -> Task]
    BY <1>1, <1>3, <2>1, <2>2, CarryOK, PushOK
  <2>4. QED BY <1>2, <2>1, <2>2, <2>3 DEF TypeOK, counters
<1>7. CASE WriteDefaults(t, u)
  <2> DEFINE a == [b EXCEPT !.config = b.pw, !.rh = b.pw, !.enabled = TRUE]
             n == [r EXCEPT !.snap[u] = a]
  <2>1. a \in Row
    BY <1>1 DEF Row
  <2>2. /\ Save(u, b, a)
        /\ \/ Carry(t, PushOf(n, {u}, {}, "assign")) /\ UNCHANGED suspect
           \/ Carry(t, [n EXCEPT !.pc = "assign"]) /\ suspect' = suspect \cup {u}
        /\ UNCHANGED <<item, live, known, strays, torn, counters>>
    BY <1>7 DEF WriteDefaults
  <2> HIDE DEF a
  <2>3. n \in Task /\ [n EXCEPT !.pc = "assign"] \in Task
    BY ZenonT(30), <1>3, <2>1 DEF Task
  <2> HIDE DEF n
  <2>4. task' \in [Tasks -> Task]
    BY <2>2, <2>3, CarryOK, PushOK
  <2>5. QED BY <1>2, <2>1, <2>2, <2>4 DEF TypeOK, counters
<1>8. CASE AdoptRow(t, u)
  <2> DEFINE p == IF r.new = None THEN b.pw ELSE r.new
             a == [b EXCEPT !.pw = p, !.rh = p, !.source = "managed", !.config = b.pw]
  <2>1. a \in Row
    BY <1>1 DEF Row
  <2>2. /\ Save(u, b, a)
        /\ Carry(t, PushOf([r EXCEPT !.snap[u] = a], {u}, {}, "idle"))
        /\ torn' = (IF p = b.pw THEN torn ELSE torn \cup {u})
        /\ strays' = (IF p = b.pw THEN strays ELSE strays \cup (live \cap {b.rh}))
        /\ UNCHANGED <<item, live, known, suspect, counters>>
    BY <1>8 DEF AdoptRow
  <2> HIDE DEF a
  <2>3. task' \in [Tasks -> Task]
    BY <1>3, <2>1, <2>2, CarryOK, PushOK
  <2>4. QED BY <1>2, <2>1, <2>2, <2>3 DEF TypeOK, counters
<1>9. CASE WriteItems(t, u) \/ Assign(t, u) \/ UnlinkItems(t, u)
  <2>1. b.config \in Secrets /\ None \in Secrets
    BY <1>1 DEF Secrets
  <2>2. /\ \E c \in Secrets : item' = [item EXCEPT ![u] = c]
        /\ \E step \in Steps : Finish(t, step)
        /\ torn' \subseteq torn
        /\ UNCHANGED <<row, live, known, strays, suspect, begun, faults>>
    BY <1>9, <2>1 DEF WriteItems, Assign, UnlinkItems, boxVars, counters
  <2>3. QED BY <2>2, FinishOK DEF TypeOK
<1>10. CASE DestroyRow(t, u)
  <2> DEFINE gone == [Unborn EXCEPT !.is = "gone"]
  <2>1. gone \in Row
    BY RowsOK DEF Row
  <2>2. row' = [row EXCEPT ![u] = gone]
    BY <1>10 DEF DestroyRow
  <2> HIDE DEF gone
  <2>3. QED BY <1>10, <2>1, <2>2, FinishOK DEF DestroyRow, TypeOK, boxVars, counters
<1> HIDE DEF r, b
<1>11. QED BY <1>0, <1>4, <1>5, <1>6, <1>7, <1>8, <1>9, <1>10

\* What a push may put on the box is a password.
Pushed == \A t \in Tasks : \A u \in task[t].todo : task[t].snap[u].pw \in Passwords

LEMMA BoxStepTypes ==
    ASSUME TypeOK, Pushed, NEW t \in Tasks, BoxStep(t)
    PROVE  TypeOK'
<1> USE DEF Steps
<1> DEFINE r == task[t]
<1>1. r \in Task /\ r.snap \in [Users -> Row] /\ r.then \in Steps /\ r.push \subseteq Users
  BY TaskFields
<1>2. Fault => faults' \in 0 .. MaxFaults
  BY DEF Fault, TypeOK
<1>3. ASSUME BoxUnreachable(t) PROVE TypeOK'
  <2>1. [r EXCEPT !.ok = FALSE, !.old = {}] \in Task
    BY <1>1 DEF Task
  <2>2. task' \in [Tasks -> Task]
    BY <1>3, <2>1, FoldOK DEF BoxUnreachable
  <2>3. QED BY <1>2, <1>3, <2>2 DEF BoxUnreachable, TypeOK, boxVars
<1>4. ASSUME PurgeOld(t) PROVE TypeOK'
  <2>1. task' \in [Tasks -> Task]
    <3>1. [r EXCEPT !.pc = "list", !.old = {}] \in Task
      BY <1>1 DEF Task
    <3>2. task' = [task EXCEPT ![t] = [r EXCEPT !.pc = "list", !.old = {}]]
      BY <1>4 DEF PurgeOld
    <3>3. QED BY <3>1, <3>2 DEF TypeOK
  <2>2. QED BY <1>2, <1>4, <2>1 DEF PurgeOld, TypeOK
<1>5. ASSUME ListUsers(t) PROVE TypeOK'
  <2>1. task' \in [Tasks -> Task]
    <3>1. [r EXCEPT !.listed = live, !.todo = r.push, !.ok = TRUE, !.pc = "apply"] \in Task
      BY <1>1 DEF Task, TypeOK
    <3>2. task' = [task EXCEPT ![t] = [r EXCEPT !.listed = live, !.todo = r.push, !.ok = TRUE, !.pc = "apply"]]
      BY <1>5 DEF ListUsers
    <3>3. QED BY <3>1, <3>2 DEF TypeOK
  <2>2. QED BY <1>5, <2>1 DEF ListUsers, TypeOK, boxVars, counters
<1>6. ASSUME NEW u \in Users, ApplyUser(t, u) PROVE TypeOK'
  <2>1. task' \in [Tasks -> Task]
    <3>1. [r EXCEPT !.todo = @ \ {u}] \in Task
      BY <1>1 DEF Task
    <3>2. task' = [task EXCEPT ![t] = [r EXCEPT !.todo = @ \ {u}]]
      BY <1>6 DEF ApplyUser
    <3>3. QED BY <3>1, <3>2 DEF TypeOK
  <2>2. live' \subseteq Passwords
    <3>1. live' \subseteq live \cup ({r.snap[u].pw} \cap live') /\ live \subseteq Passwords
      BY <1>6 DEF ApplyUser, Command, TypeOK
    <3>2. r.snap[u].pw \in Passwords
      BY <1>6 DEF ApplyUser, Pushed
    <3>3. QED BY <3>1, <3>2
  <2>3. QED BY <1>6, <2>1, <2>2 DEF ApplyUser, TypeOK, counters
<1>7. ASSUME NEW u \in Users, NEW told \in BOOLEAN, CommandFails(t, u, told) PROVE TypeOK'
  <2>1. task' \in [Tasks -> Task]
    <3>1. [r EXCEPT !.todo = @ \ {u}, !.bad = IF told THEN @ \cup {u} ELSE @] \in Task
      BY ZenonT(30), <1>1 DEF Task
    <3>2. task' = [task EXCEPT ![t] = [r EXCEPT !.todo = @ \ {u}, !.bad = IF told THEN @ \cup {u} ELSE @]]
      BY <1>7 DEF CommandFails
    <3>3. QED BY <3>1, <3>2 DEF TypeOK
  <2>2. QED BY <1>2, <1>7, <2>1 DEF CommandFails, TypeOK, boxVars
<1>8. ASSUME Verify(t) PROVE TypeOK'
  <2> DEFINE wrong == {u \in r.push : IF r.snap[u].enabled THEN r.snap[u].pw \notin live
                                      ELSE r.snap[u].pw \in r.listed \cap live}
  <2>1. [r EXCEPT !.bad = @ \cup wrong] \in Task
    BY <1>1 DEF Task
  <2>2. task' \in [Tasks -> Task]
    BY <1>8, <2>1, FoldOK DEF Verify
  <2>3. QED BY SMTT(30), <1>8, <2>2 DEF Verify, TypeOK, boxVars, counters
<1>9. ASSUME SkipVerify(t) PROVE TypeOK'
  <2>1. [r EXCEPT !.alone = FALSE] \in Task
    BY <1>1 DEF Task
  <2>2. task' \in [Tasks -> Task]
    BY <1>9, <2>1, FoldOK DEF SkipVerify
  <2>3. QED BY <1>1, <1>2, <1>9, <2>2 DEF SkipVerify, TypeOK, boxVars
<1>10. ASSUME NEW u \in Users, FoldUser(t, u) PROVE TypeOK'
  <2> DEFINE good == r.ok /\ u \notin r.bad
             a == [r.snap[u] EXCEPT !.rh = IF r.ok THEN r.snap[u].pw ELSE @, !.synced = good]
  <2>1. a \in Row /\ r.snap[u] \in Row
    <3>1. r.snap[u] \in Row /\ good \in BOOLEAN /\ r.snap[u].pw \in Secrets /\ r.snap[u].rh \in Secrets
      BY <1>1, TaskFields, RowsOK
    <3>2. \A h \in Secrets, g \in BOOLEAN : [r.snap[u] EXCEPT !.rh = h, !.synced = g] \in Row
      BY <3>1 DEF Row
    <3> HIDE DEF good
    <3>3. QED BY <3>1, <3>2, Zenon
  <2>2. /\ Save(u, r.snap[u], a)
        /\ IF r.todo = {u} THEN Finish(t, r.then) ELSE task' = [task EXCEPT ![t].todo = @ \ {u}]
        /\ suspect' = (IF good /\ r.alone THEN suspect \ {u} ELSE suspect)
        /\ UNCHANGED <<item, live, known, strays, torn, begun, faults>>
    BY <1>10 DEF FoldUser, boxVars, counters
  <2> HIDE DEF a
  <2>3. [r EXCEPT !.todo = @ \ {u}] \in Task
    BY <1>1 DEF Task
  <2>4. task' \in [Tasks -> Task]
    <3>1. CASE r.todo = {u}
      BY <1>1, <2>2, <3>1, FinishOK
    <3>2. CASE r.todo # {u}
      <4>1. task' = [task EXCEPT ![t] = [r EXCEPT !.todo = @ \ {u}]]
        BY <2>2, <3>2
      <4>2. QED BY <2>3, <4>1 DEF TypeOK
    <3>3. QED BY <3>1, <3>2
  <2>5. row' \in [Users -> Row]
    BY <2>1, <2>2, SaveOK
  <2>6. QED BY <2>2, <2>4, <2>5 DEF TypeOK
<1> HIDE DEF r
<1>11. QED BY <1>3, <1>4, <1>5, <1>6, <1>7, <1>8, <1>9, <1>10 DEF BoxStep

LEMMA ImportStepTypes ==
    ASSUME TypeOK, NEW t \in Tasks, ImportStep(t)
    PROVE  TypeOK'
<1> USE DEF Steps
<1>1. task[t] \in Task /\ task[t].listed \subseteq Passwords
  BY TaskFields
<1>2. ASSUME NEW step \in Steps, NEW l \in SUBSET Passwords,
             task' = [task EXCEPT ![t].listed = l, ![t].pc = step]
      PROVE  task' \in [Tasks -> Task]
  <2>1. [task[t] EXCEPT !.listed = l, !.pc = step] \in Task
    BY <1>1 DEF Task
  <2>2. task' = [task EXCEPT ![t] = [task[t] EXCEPT !.listed = l, !.pc = step]]
    BY <1>2
  <2>3. QED BY <2>1, <2>2 DEF TypeOK
<1>3. ASSUME FetchLive(t) PROVE TypeOK'
  <2>1. task' \in [Tasks -> Task]
    BY <1>2, <1>3, FinishOK DEF FetchLive, TypeOK
  <2>2. QED BY <1>3, <2>1 DEF FetchLive, TypeOK, boxVars, counters
<1>4. ASSUME FindKnown(t) PROVE TypeOK'
  <2> DEFINE l == task[t].listed \ {HashOf(row[u]) : u \in {v \in Users : There(v)}}
  <2>1. task' = [task EXCEPT ![t].listed = l, ![t].pc = "i_create"] /\ l \in SUBSET Passwords
    BY <1>1, <1>4 DEF FindKnown
  <2> HIDE DEF l
  <2>2. task' \in [Tasks -> Task]
    BY <1>2, <2>1
  <2>3. QED BY <1>4, <2>2 DEF FindKnown, TypeOK, boxVars, counters
<1>5. ASSUME EndImport(t) PROVE TypeOK'
  BY <1>5, FinishOK DEF EndImport, TypeOK, boxVars, counters
<1>6. ASSUME NEW u \in Users, NEW h \in Passwords, ImportOne(t, u, h) PROVE TypeOK'
  <2>1. [task[t] EXCEPT !.listed = @ \ {h}] \in Task
    BY <1>1 DEF Task
  <2>2. task' = [task EXCEPT ![t] = [task[t] EXCEPT !.listed = @ \ {h}]] /\ row' = [row EXCEPT ![u] = Imported(h)]
    BY <1>6 DEF ImportOne
  <2>3. QED BY <1>6, <2>1, <2>2, RowsOK DEF ImportOne, TypeOK, boxVars, counters
<1>7. QED BY <1>3, <1>4, <1>5, <1>6 DEF ImportStep

LEMMA TypeStep == TypeOK /\ Pushed /\ [Next]_vars => TypeOK'
<1> SUFFICES ASSUME TypeOK, Pushed, [Next]_vars PROVE TypeOK'
  OBVIOUS
<1>1. ASSUME NEW t \in Tasks, Request(t) \/ RowStep(t) \/ BoxStep(t) \/ ImportStep(t) PROVE TypeOK'
  BY <1>1, RequestTypes, RowStepTypes, BoxStepTypes, ImportStepTypes
<1>2. CASE Crash
  <2>1. task' \in [Tasks -> Task]
    BY <1>2, IdleOK DEF Crash
  <2>2. {u \in UNION {task[t].rows : t \in Tasks} : There(u)} \subseteq Users
    BY TaskFields
  <2>3. QED BY <1>2, <2>1, <2>2 DEF Crash, Fault, TypeOK, boxVars
<1>3. CASE BoxRestart
  <2>1. \A t \in Tasks : [task[t] EXCEPT !.alone = At(t, "idle")] \in Task
    BY ZenonT(60), TaskFields DEF Task, At
  <2>2. task' \in [Tasks -> Task]
    BY <1>3, <2>1 DEF BoxRestart
  <2>3. QED BY <1>3, <2>2 DEF BoxRestart, Fault, TypeOK
<1>4. CASE UNCHANGED vars
  BY <1>4 DEF vars, TypeOK
<1>5. QED BY <1>1, <1>2, <1>3, <1>4 DEF Next

-----------------------------------------------------------------------------
(* The steps of a task, field by field *)

\* Only t moves.
Others(t) == task' \in [Tasks -> Task] /\ \A o \in Tasks : o # t => task'[o] = task[o]

\* t writes the instance it holds of u.
Saves(t, u) ==
    LET r == task[t]
        q == task'[t]
    IN  /\ Others(t) /\ u \in r.rows
        /\ q.rows = r.rows /\ q.alone = r.alone /\ q.todo = r.todo /\ q.ok = r.ok /\ q.bad = r.bad
        /\ \A v \in Users : v # u => q.snap[v] = r.snap[v]
        /\ q.snap[u].is = r.snap[u].is
        /\ q.snap[u] \in Row /\ r.snap[u] \in Row /\ row[u] \in Row /\ row'[u] \in Row
        /\ \A v \in Users : v # u \/ ~There(u) => row'[v] = row[v]
        /\ There(u) =>
              /\ row'[u].is = row[u].is
              /\ row'[u].source = IF r.snap[u].source = q.snap[u].source THEN row[u].source ELSE q.snap[u].source
              /\ row'[u].enabled = IF r.snap[u].enabled = q.snap[u].enabled THEN row[u].enabled ELSE q.snap[u].enabled
              /\ row'[u].pw = IF r.snap[u].pw = q.snap[u].pw THEN row[u].pw ELSE q.snap[u].pw
              /\ row'[u].rh = IF r.snap[u].rh = q.snap[u].rh THEN row[u].rh ELSE q.snap[u].rh
              /\ row'[u].config = IF r.snap[u].config = q.snap[u].config THEN row[u].config ELSE q.snap[u].config
              /\ row'[u].synced = IF r.snap[u].synced = q.snap[u].synced THEN row[u].synced ELSE q.snap[u].synced
        /\ item' = item /\ live' = live /\ known' = known /\ begun' = begun /\ faults' = faults

LEMMA SavesOK ==
    ASSUME TypeOK, TypeOK', NEW t \in Tasks, NEW u \in Users, u \in task[t].rows,
           NEW b \in Row, NEW a \in Row, NEW q \in Task,
           Save(u, b, a), b = task[t].snap[u], task' = [task EXCEPT ![t] = q],
           /\ q.rows = task[t].rows /\ q.alone = task[t].alone /\ q.todo = task[t].todo
           /\ q.ok = task[t].ok /\ q.bad = task[t].bad
           /\ q.snap = [task[t].snap EXCEPT ![u] = a] /\ a.is = b.is
           /\ item' = item /\ live' = live /\ known' = known /\ begun' = begun /\ faults' = faults
    PROVE  Saves(t, u)
<1>1. task[t].snap \in [Users -> Row] /\ row[u] \in Row /\ row'[u] \in Row
  BY TaskFields DEF TypeOK
<1>2. task'[t] = q /\ q.snap[u] = a /\ \A v \in Users : v # u => q.snap[v] = task[t].snap[v]
  BY <1>1 DEF TypeOK
<1>3. Others(t)
  BY DEF Others, TypeOK
<1>4. /\ \A v \in Users : v # u \/ ~There(u) => row'[v] = row[v]
      /\ There(u) =>
             /\ row'[u].is = IF b.is = a.is THEN row[u].is ELSE a.is
             /\ row'[u].source = IF b.source = a.source THEN row[u].source ELSE a.source
             /\ row'[u].enabled = IF b.enabled = a.enabled THEN row[u].enabled ELSE a.enabled
             /\ row'[u].pw = IF b.pw = a.pw THEN row[u].pw ELSE a.pw
             /\ row'[u].rh = IF b.rh = a.rh THEN row[u].rh ELSE a.rh
             /\ row'[u].config = IF b.config = a.config THEN row[u].config ELSE a.config
             /\ row'[u].synced = IF b.synced = a.synced THEN row[u].synced ELSE a.synced
  BY SaveOK
<1>5. QED BY <1>1, <1>2, <1>3, <1>4 DEF Saves

LEMMA PatchRowIs ==
    ASSUME TypeOK, TypeOK', NEW t \in Tasks, NEW u \in Users, PatchRow(t, u)
    PROVE  LET r == task[t]
               q == task'[t]
               b == r.snap[u]
               a == q.snap[u]
           IN  /\ Saves(t, u) /\ r.pc = "patch"
               /\ a.source = b.source /\ a.rh = b.rh /\ a.config = b.config /\ a.synced = b.synced
               /\ a.enabled = r.on /\ a.pw = IF r.new = None THEN b.pw ELSE r.new
               /\ q.new = None /\ q.then = r.then /\ q.push = r.push
               /\ IF r.new = None THEN q.pc = "config" /\ q.old = {} ELSE q.pc = "hash" /\ q.old = {HashOf(b)}
               /\ HashOf(b) \in {b.rh, b.pw} /\ (b.rh # None => HashOf(b) = b.rh)
               /\ strays' = strays /\ suspect' = suspect /\ torn' = torn
<1>1. PICK r \in Task : r = task[t]
  BY TaskFields
<1>2. PICK b \in Row : b = r.snap[u]
  BY <1>1 DEF Task
<1>3. PICK a \in Row : a = [b EXCEPT !.enabled = r.on, !.pw = IF r.new # None THEN r.new ELSE @]
  <2>1. r.on \in BOOLEAN /\ r.new \in Secrets /\ b.pw \in Secrets
    BY <1>1, TaskFields, RowsOK
  <2>2. \A on \in BOOLEAN, p \in Secrets : [b EXCEPT !.enabled = on, !.pw = p] \in Row
    BY DEF Row
  <2>3. [b EXCEPT !.enabled = r.on, !.pw = IF r.new # None THEN r.new ELSE @]
        = [b EXCEPT !.enabled = r.on, !.pw = IF r.new # None THEN r.new ELSE b.pw]
    BY DEF Row
  <2>4. QED BY ZenonT(30), <2>1, <2>2, <2>3
<1>4. /\ a.is = b.is /\ a.source = b.source /\ a.rh = b.rh /\ a.config = b.config
      /\ a.synced = b.synced /\ a.enabled = r.on /\ a.pw = IF r.new = None THEN b.pw ELSE r.new
  BY <1>2, <1>3 DEF Row
<1>5. PICK q : q = [r EXCEPT !.snap = [r.snap EXCEPT ![u] = a], !.new = None, !.on = TRUE,
                             !.pc = IF r.new # None THEN "hash" ELSE "config",
                             !.old = IF r.new # None THEN {HashOf(b)} ELSE {}]
  OBVIOUS
<1>6. /\ q.rows = r.rows /\ q.alone = r.alone /\ q.todo = r.todo /\ q.ok = r.ok /\ q.bad = r.bad
      /\ q.snap = [r.snap EXCEPT ![u] = a] /\ q.new = None /\ q.then = r.then /\ q.push = r.push
      /\ IF r.new = None THEN q.pc = "config" /\ q.old = {} ELSE q.pc = "hash" /\ q.old = {HashOf(b)}
  BY <1>1, <1>5 DEF Task
<1>7. /\ Save(u, b, a) /\ task' = [task EXCEPT ![t] = q] /\ u \in r.rows /\ r.pc = "patch"
      /\ item' = item /\ live' = live /\ known' = known /\ begun' = begun /\ faults' = faults
      /\ strays' = strays /\ suspect' = suspect /\ torn' = torn
  BY <1>1, <1>2, <1>3, <1>5, ZenonT(30) DEF PatchRow, At, counters
<1>8. q \in Task
  BY <1>7 DEF TypeOK
<1>9. task'[t] = q /\ q.snap[u] = a
  BY <1>1, <1>6, <1>7 DEF TypeOK, Task
<1>10. Saves(t, u)
  BY <1>1, <1>2, <1>4, <1>6, <1>7, <1>8, SavesOK
<1>11. HashOf(b) \in {b.rh, b.pw} /\ (b.rh # None => HashOf(b) = b.rh)
  BY HashIs
<1>12. QED BY <1>1, <1>2, <1>4, <1>6, <1>7, <1>9, <1>10, <1>11, ZenonT(30)

LEMMA WriteHashIs ==
    ASSUME TypeOK, TypeOK', NEW t \in Tasks, NEW u \in Users, WriteHash(t, u)
    PROVE  LET r == task[t]
               q == task'[t]
               b == r.snap[u]
               a == q.snap[u]
           IN  /\ Saves(t, u) /\ r.pc = "hash" /\ q.pc = "config"
               /\ a.source = b.source /\ a.config = b.config /\ a.synced = b.synced
               /\ a.enabled = b.enabled /\ a.pw = b.pw /\ a.rh = b.pw
               /\ q.new = r.new /\ q.then = r.then /\ q.push = r.push /\ q.old = r.old
               /\ strays' = strays /\ suspect' = suspect /\ torn' = torn
<1>1. PICK r \in Task : r = task[t]
  BY TaskFields
<1>2. PICK b \in Row : b = r.snap[u]
  BY <1>1 DEF Task
<1>3. PICK a \in Row : a = [b EXCEPT !.rh = b.pw]
  BY <1>2, RowsOK DEF Row
<1>4. /\ a.is = b.is /\ a.source = b.source /\ a.config = b.config /\ a.synced = b.synced
      /\ a.enabled = b.enabled /\ a.pw = b.pw /\ a.rh = b.pw
  BY <1>2, <1>3 DEF Row
<1>5. PICK q : q = [r EXCEPT !.snap = [r.snap EXCEPT ![u] = a], !.pc = "config"]
  OBVIOUS
<1>6. /\ q.rows = r.rows /\ q.alone = r.alone /\ q.todo = r.todo /\ q.ok = r.ok /\ q.bad = r.bad
      /\ q.snap = [r.snap EXCEPT ![u] = a] /\ q.new = r.new /\ q.then = r.then /\ q.push = r.push
      /\ q.pc = "config" /\ q.old = r.old
  BY <1>1, <1>5 DEF Task
<1>7. /\ Save(u, b, a) /\ task' = [task EXCEPT ![t] = q] /\ u \in r.rows /\ r.pc = "hash"
      /\ item' = item /\ live' = live /\ known' = known /\ begun' = begun /\ faults' = faults
      /\ strays' = strays /\ suspect' = suspect /\ torn' = torn
  BY ZenonT(30), <1>1, <1>2, <1>3, <1>5 DEF WriteHash, Update, At, counters
<1>8. q \in Task
  BY <1>7 DEF TypeOK
<1>9. task'[t] = q /\ q.snap[u] = a
  BY <1>1, <1>6, <1>7 DEF TypeOK, Task
<1>10. Saves(t, u)
  BY <1>1, <1>2, <1>4, <1>6, <1>7, <1>8, SavesOK
<1>11. QED BY ZenonT(30), <1>1, <1>2, <1>4, <1>6, <1>7, <1>9, <1>10

\* The record handed to syncServerUsers when u, whom r holds as managed, is pushed.
Connects(q, r, u, a, old, then) ==
    /\ q \in Task
    /\ q.rows = r.rows /\ q.alone = r.alone /\ q.todo = r.todo /\ q.ok = r.ok /\ q.bad = r.bad
    /\ q.snap = [r.snap EXCEPT ![u] = a] /\ q.new = r.new
    /\ q.pc = "connect" /\ q.then = then /\ q.push = {u} /\ q.old = old

LEMMA PushIs ==
    ASSUME NEW r \in Task, NEW u \in Users, NEW a \in Row, NEW old \in SUBSET Secrets, NEW then \in Steps,
           a.source = "managed", NEW q, q = PushOf([r EXCEPT !.snap[u] = a], {u}, old, then)
    PROVE  Connects(q, r, u, a, old, then)
<1>1. PICK x \in Task : x = [r EXCEPT !.snap[u] = a]
  BY DEF Task
<1>2. x.snap = [r.snap EXCEPT ![u] = a] /\ x.snap[u] = a /\ x.rows = r.rows /\ x.alone = r.alone
      /\ x.todo = r.todo /\ x.ok = r.ok /\ x.bad = r.bad /\ x.new = r.new
  BY <1>1 DEF Task
<1>3. {v \in {u} : x.snap[v].source = "managed"} = {u}
  BY <1>2
<1>4. PushOf(x, {u}, old, then) = [x EXCEPT !.pc = "connect", !.push = {u}, !.old = old, !.then = then]
  BY <1>3 DEF PushOf
<1>5. q = [x EXCEPT !.pc = "connect", !.push = {u}, !.old = old, !.then = then]
  BY <1>1, <1>4
<1>8. q \in Task
  <2>1. [x EXCEPT !.pc = "connect", !.push = {u}, !.old = old, !.then = then] \in Task
    BY ZenonT(30) DEF Task, Steps
  <2>2. QED BY <1>5, <2>1
<1>6. /\ q.rows = x.rows /\ q.alone = x.alone /\ q.todo = x.todo /\ q.ok = x.ok /\ q.bad = x.bad
      /\ q.snap = x.snap /\ q.new = x.new /\ q.pc = "connect" /\ q.then = then /\ q.push = {u} /\ q.old = old
  BY <1>5 DEF Task
<1>7. QED BY <1>2, <1>6, <1>8 DEF Connects

LEMMA WriteConfigIs ==
    ASSUME TypeOK, TypeOK', Shape, NEW t \in Tasks, NEW u \in Users, WriteConfig(t, u)
    PROVE  LET r == task[t]
               q == task'[t]
               b == r.snap[u]
               a == q.snap[u]
           IN  /\ Saves(t, u) /\ r.pc = "config" /\ q.pc = "connect"
               /\ a.source = b.source /\ a.config = b.pw /\ a.synced = b.synced
               /\ a.enabled = b.enabled /\ a.pw = b.pw /\ a.rh = b.rh
               /\ q.new = r.new /\ q.then = r.then /\ q.push = {u} /\ q.old = r.old
               /\ strays' = strays /\ suspect' = suspect /\ torn' = torn
<1>1. PICK r \in Task : r = task[t]
  BY TaskFields
<1>2. PICK b \in Row : b = r.snap[u]
  BY <1>1 DEF Task
<1>3. PICK a \in Row : a = [b EXCEPT !.config = b.pw]
  BY <1>2, RowsOK DEF Row
<1>4. /\ a.is = b.is /\ a.source = b.source /\ a.config = b.pw /\ a.synced = b.synced
      /\ a.enabled = b.enabled /\ a.pw = b.pw /\ a.rh = b.rh
  BY <1>2, <1>3 DEF Row
<1>5. /\ Save(u, b, a) /\ Carry(t, PushOf([r EXCEPT !.snap[u] = a], {u}, r.old, r.then))
      /\ u \in r.rows /\ r.pc = "config"
      /\ item' = item /\ live' = live /\ known' = known /\ begun' = begun /\ faults' = faults
      /\ strays' = strays /\ suspect' = suspect /\ torn' = torn
  BY <1>1, <1>2, <1>3 DEF WriteConfig, At, counters
<1>6. b.source = "managed"
  BY <1>1, <1>2, <1>5 DEF Shape, ShapeOf, Single, Kept
<1>13. PICK q : q = PushOf([r EXCEPT !.snap[u] = a], {u}, r.old, r.then)
  OBVIOUS
<1>12. r.old \in SUBSET Secrets /\ r.then \in Steps /\ a.source = "managed"
  BY <1>1, <1>4, <1>6, TaskFields
<1>7. /\ q \in Task
      /\ q.rows = r.rows /\ q.alone = r.alone /\ q.todo = r.todo /\ q.ok = r.ok /\ q.bad = r.bad
      /\ q.snap = [r.snap EXCEPT ![u] = a] /\ q.new = r.new
      /\ q.pc = "connect" /\ q.then = r.then /\ q.push = {u} /\ q.old = r.old
  <2>1. Connects(q, r, u, a, r.old, r.then)
    BY <1>12, <1>13, PushIs
  <2>2. QED BY <2>1 DEF Connects
<1>8. task' = [task EXCEPT ![t] = q]
  BY <1>5, <1>7, <1>13 DEF Carry
<1>9. task'[t] = q /\ q.snap[u] = a
  BY <1>1, <1>7, <1>8 DEF TypeOK, Task
<1>10. Saves(t, u)
  BY <1>1, <1>2, <1>4, <1>5, <1>7, <1>8, SavesOK
<1>11. QED BY <1>1, <1>2, <1>4, <1>5, <1>7, <1>9, <1>10

LEMMA WriteDefaultsIs ==
    ASSUME TypeOK, TypeOK', Shape, NEW t \in Tasks, NEW u \in Users, WriteDefaults(t, u)
    PROVE  LET r == task[t]
               q == task'[t]
               b == r.snap[u]
               a == q.snap[u]
           IN  /\ Saves(t, u) /\ r.pc = "defaults"
               /\ a.source = b.source /\ a.config = b.pw /\ a.synced = b.synced
               /\ a.enabled /\ a.pw = b.pw /\ a.rh = b.pw
               /\ q.new = r.new
               /\ \/ q.pc = "connect" /\ q.then = "assign" /\ q.push = {u} /\ q.old = {} /\ suspect' = suspect
                  \/ q.pc = "assign" /\ q.then = r.then /\ q.push = r.push /\ q.old = r.old
                     /\ suspect' = suspect \cup {u}
               /\ strays' = strays /\ torn' = torn
<1>1. PICK r \in Task : r = task[t]
  BY TaskFields
<1>2. PICK b \in Row : b = r.snap[u]
  BY <1>1 DEF Task
<1>3. PICK a \in Row : a = [b EXCEPT !.config = b.pw, !.rh = b.pw, !.enabled = TRUE]
  BY <1>2, RowsOK, ZenonT(30) DEF Row
<1>4. /\ a.is = b.is /\ a.source = b.source /\ a.config = b.pw /\ a.synced = b.synced
      /\ a.enabled /\ a.pw = b.pw /\ a.rh = b.pw
  BY <1>2, <1>3 DEF Row
<1>5. /\ Save(u, b, a)
      /\ \/ Carry(t, PushOf([r EXCEPT !.snap[u] = a], {u}, {}, "assign")) /\ suspect' = suspect
         \/ Carry(t, [[r EXCEPT !.snap[u] = a] EXCEPT !.pc = "assign"]) /\ suspect' = suspect \cup {u}
      /\ u \in r.rows /\ r.pc = "defaults"
      /\ item' = item /\ live' = live /\ known' = known /\ begun' = begun /\ faults' = faults
      /\ strays' = strays /\ torn' = torn
  BY <1>1, <1>2, <1>3 DEF WriteDefaults, At, counters
<1>6. b.source = "managed"
  BY <1>1, <1>2, <1>5 DEF Shape, ShapeOf, Single, Kept
<1>7. CASE Carry(t, PushOf([r EXCEPT !.snap[u] = a], {u}, {}, "assign")) /\ suspect' = suspect
  <2>7. PICK q : q = PushOf([r EXCEPT !.snap[u] = a], {u}, {}, "assign")
    OBVIOUS
  <2>6. a.source = "managed" /\ {} \in SUBSET Secrets /\ "assign" \in Steps
    BY <1>4, <1>6 DEF Steps
  <2>1. /\ q \in Task
        /\ q.rows = r.rows /\ q.alone = r.alone /\ q.todo = r.todo /\ q.ok = r.ok /\ q.bad = r.bad
        /\ q.snap = [r.snap EXCEPT ![u] = a] /\ q.new = r.new
        /\ q.pc = "connect" /\ q.then = "assign" /\ q.push = {u} /\ q.old = {}
    <3>1. Connects(q, r, u, a, {}, "assign")
      BY <2>6, <2>7, PushIs
    <3>2. QED BY <3>1 DEF Connects
  <2>2. task' = [task EXCEPT ![t] = q]
    BY <1>7, <2>1, <2>7 DEF Carry
  <2>3. task'[t] = q /\ q.snap[u] = a
    BY <1>1, <2>1, <2>2 DEF TypeOK, Task
  <2>4. Saves(t, u)
    BY <1>1, <1>2, <1>4, <1>5, <2>1, <2>2, SavesOK
  <2>5. QED BY <1>1, <1>2, <1>4, <1>5, <1>7, <2>1, <2>3, <2>4
<1>8. CASE Carry(t, [[r EXCEPT !.snap[u] = a] EXCEPT !.pc = "assign"]) /\ suspect' = suspect \cup {u}
  <2>1. PICK q : q = [r EXCEPT !.snap = [r.snap EXCEPT ![u] = a], !.pc = "assign"]
    OBVIOUS
  <2>2. /\ q.rows = r.rows /\ q.alone = r.alone /\ q.todo = r.todo /\ q.ok = r.ok /\ q.bad = r.bad
        /\ q.snap = [r.snap EXCEPT ![u] = a] /\ q.new = r.new
        /\ q.pc = "assign" /\ q.then = r.then /\ q.push = r.push /\ q.old = r.old
    BY <1>1, <2>1 DEF Task
  <2>3. task' = [task EXCEPT ![t] = q]
    BY <1>8, <2>1, <2>2 DEF Carry
  <2>4. q \in Task
    BY <2>3 DEF TypeOK
  <2>5. task'[t] = q /\ q.snap[u] = a
    BY <1>1, <2>2, <2>3 DEF TypeOK, Task
  <2>6. Saves(t, u)
    BY <1>1, <1>2, <1>4, <1>5, <2>2, <2>3, <2>4, SavesOK
  <2>7. QED BY <1>1, <1>2, <1>4, <1>5, <1>8, <2>2, <2>5, <2>6
<1>9. QED BY <1>5, <1>7, <1>8

LEMMA AdoptRowIs ==
    ASSUME TypeOK, TypeOK', NEW t \in Tasks, NEW u \in Users, AdoptRow(t, u)
    PROVE  LET r == task[t]
               q == task'[t]
               b == r.snap[u]
               a == q.snap[u]
           IN  /\ Saves(t, u) /\ r.pc = "adopt" /\ q.pc = "connect"
               /\ a.source = "managed" /\ a.config = b.pw /\ a.synced = b.synced
               /\ a.enabled = b.enabled /\ a.rh = a.pw /\ a.pw = IF r.new = None THEN b.pw ELSE r.new
               /\ q.new = r.new /\ q.then = "idle" /\ q.push = {u} /\ q.old = {}
               /\ strays' = (IF a.pw = b.pw THEN strays ELSE strays \cup (live \cap {b.rh}))
               /\ torn' = (IF a.pw = b.pw THEN torn ELSE torn \cup {u})
               /\ suspect' = suspect
<1>1. PICK r \in Task : r = task[t]
  BY TaskFields
<1>2. PICK b \in Row : b = r.snap[u]
  BY <1>1 DEF Task
<1>0. PICK p \in Secrets : p = IF r.new = None THEN b.pw ELSE r.new
  BY <1>1, <1>2, RowsOK, TaskFields
<1>3. PICK a \in Row : a = [b EXCEPT !.pw = p, !.rh = p, !.source = "managed", !.config = b.pw]
  BY <1>2, RowsOK, ZenonT(30) DEF Row
<1>4. /\ a.is = b.is /\ a.source = "managed" /\ a.config = b.pw /\ a.synced = b.synced
      /\ a.enabled = b.enabled /\ a.pw = p /\ a.rh = p
  BY <1>2, <1>3 DEF Row
<1>5. /\ Save(u, b, a) /\ Carry(t, PushOf([r EXCEPT !.snap[u] = a], {u}, {}, "idle"))
      /\ u \in r.rows /\ r.pc = "adopt"
      /\ item' = item /\ live' = live /\ known' = known /\ begun' = begun /\ faults' = faults
      /\ strays' = (IF p = b.pw THEN strays ELSE strays \cup (live \cap {b.rh}))
      /\ torn' = (IF p = b.pw THEN torn ELSE torn \cup {u})
      /\ suspect' = suspect
  BY <1>0, <1>1, <1>2, <1>3 DEF AdoptRow, At, counters
<1>13. PICK q : q = PushOf([r EXCEPT !.snap[u] = a], {u}, {}, "idle")
  OBVIOUS
<1>12. a.source = "managed" /\ {} \in SUBSET Secrets /\ "idle" \in Steps
  BY <1>4 DEF Steps
<1>7. /\ q \in Task
      /\ q.rows = r.rows /\ q.alone = r.alone /\ q.todo = r.todo /\ q.ok = r.ok /\ q.bad = r.bad
      /\ q.snap = [r.snap EXCEPT ![u] = a] /\ q.new = r.new
      /\ q.pc = "connect" /\ q.then = "idle" /\ q.push = {u} /\ q.old = {}
  <2>1. Connects(q, r, u, a, {}, "idle")
    BY <1>12, <1>13, PushIs
  <2>2. QED BY <2>1 DEF Connects
<1>8. task' = [task EXCEPT ![t] = q]
  BY <1>5, <1>7, <1>13 DEF Carry
<1>9. task'[t] = q /\ q.snap[u] = a
  BY <1>1, <1>7, <1>8 DEF TypeOK, Task
<1>10. Saves(t, u)
  BY <1>1, <1>2, <1>4, <1>5, <1>7, <1>8, SavesOK
<1>11. /\ strays' = (IF a.pw = b.pw THEN strays ELSE strays \cup (live \cap {b.rh}))
       /\ torn' = (IF a.pw = b.pw THEN torn ELSE torn \cup {u})
  BY <1>4, <1>5
<1>14. a.rh = a.pw /\ a.pw = IF r.new = None THEN b.pw ELSE r.new
  BY <1>0, <1>4
<1>15. QED BY <1>1, <1>2, <1>4, <1>5, <1>7, <1>9, <1>10, <1>11, <1>14

Core(q, r) ==
    /\ q.rows = r.rows /\ q.snap = r.snap /\ q.new = r.new /\ q.push = r.push /\ q.then = r.then
    /\ q.alone = r.alone

Bare(q) ==
    /\ \A v \in Users : q.snap[v] = Unborn
    /\ q.old = {} /\ q.new = None /\ q.todo = {} /\ q.push = {} /\ ~q.ok /\ q.then = "idle" /\ q.listed = {}

\* The push of t is over.
Folding(t, ok, bad, old, alone) ==
    LET r == task[t]
        q == task'[t]
    IN  /\ Others(t)
        /\ \/ r.push = {} /\ r.then = "idle" /\ q = Idle
           \/ r.push = {} /\ r.then # "idle" /\ q.pc = r.then /\ q.rows = r.rows /\ Bare(q)
           \/ /\ r.push # {} /\ q.pc = "fold" /\ q.rows = r.rows /\ q.snap = r.snap
              /\ q.new = r.new /\ q.push = r.push /\ q.then = r.then /\ q.todo = r.push
              /\ q.ok = ok /\ q.bad = bad /\ q.old = old /\ q.alone = alone

LEMMA FoldIs ==
    ASSUME TypeOK, NEW t \in Tasks, NEW x \in Task, Fold(t, x),
           x.push = task[t].push, x.then = task[t].then, x.rows = task[t].rows, x.snap = task[t].snap,
           x.new = task[t].new, task' \in [Tasks -> Task]
    PROVE  Folding(t, x.ok, x.bad, x.old, x.alone)
<1>1. CASE x.push = {} /\ x.then = "idle"
  <2>1. [Idle EXCEPT !.pc = x.then, !.rows = x.rows].pc = "idle"
    BY <1>1 DEF Idle
  <2>2. task' = [task EXCEPT ![t] = Idle]
    BY <1>1, <2>1 DEF Fold, Carry
  <2>3. QED BY <1>1, <2>2 DEF Folding, Others, TypeOK
<1>2. CASE x.push = {} /\ x.then # "idle"
  <2>1. PICK q : q = [Idle EXCEPT !.pc = x.then, !.rows = x.rows]
    OBVIOUS
  <2>2. q.pc = x.then /\ q.rows = x.rows /\ Bare(q)
    BY <2>1 DEF Idle, Bare
  <2>3. task' = [task EXCEPT ![t] = q]
    BY <1>2, <2>1, <2>2 DEF Fold, Carry
  <2>4. QED BY <1>2, <2>2, <2>3 DEF Folding, Others, TypeOK
<1>3. CASE x.push # {}
  <2>1. PICK q : q = [x EXCEPT !.pc = "fold", !.todo = x.push, !.listed = {}]
    OBVIOUS
  <2>2. /\ q.pc = "fold" /\ q.rows = x.rows /\ q.snap = x.snap /\ q.new = x.new /\ q.push = x.push
        /\ q.then = x.then /\ q.todo = x.push /\ q.ok = x.ok /\ q.bad = x.bad /\ q.old = x.old /\ q.alone = x.alone
    BY <2>1 DEF Task
  <2>3. task' = [task EXCEPT ![t] = q]
    BY <1>3, <2>1, <2>2 DEF Fold, Carry
  <2>4. QED BY <1>3, <2>2, <2>3 DEF Folding, Others, TypeOK
<1>4. QED BY <1>1, <1>2, <1>3

LEMMA BoxUnreachableIs ==
    ASSUME TypeOK, TypeOK', NEW t \in Tasks, BoxUnreachable(t)
    PROVE  /\ Folding(t, FALSE, task[t].bad, {}, task[t].alone)
           /\ task[t].pc \in {"connect", "list"}
           /\ strays' = strays \cup (task[t].old \cap live)
           /\ row' = row /\ item' = item /\ live' = live /\ known' = known /\ suspect' = suspect /\ torn' = torn
<1>1. PICK x : x = [task[t] EXCEPT !.ok = FALSE, !.old = {}]
  OBVIOUS
<1>2. x \in Task /\ x.push = task[t].push /\ x.then = task[t].then /\ x.rows = task[t].rows /\ x.snap = task[t].snap
      /\ x.new = task[t].new /\ x.ok = FALSE /\ x.bad = task[t].bad /\ x.old = {} /\ x.alone = task[t].alone
  BY ZenonT(30), <1>1, TaskFields DEF Task
<1>3. Fold(t, x) /\ task' \in [Tasks -> Task]
  BY <1>1 DEF BoxUnreachable, TypeOK
<1>4. Folding(t, x.ok, x.bad, x.old, x.alone)
  BY <1>2, <1>3, FoldIs
<1>5. QED BY <1>2, <1>4 DEF BoxUnreachable, boxVars

LEMMA VerifyIs ==
    ASSUME TypeOK, TypeOK', NEW t \in Tasks, Verify(t)
    PROVE  /\ \E bad \in SUBSET Users :
                 /\ Folding(t, task[t].ok, bad, task[t].old, task[t].alone)
                 /\ \A u \in task[t].push \ bad :
                       IF task[t].snap[u].enabled THEN task[t].snap[u].pw \in live
                       ELSE ~(task[t].snap[u].pw \in task[t].listed /\ task[t].snap[u].pw \in live)
           /\ task[t].pc = "apply" /\ task[t].todo = {}
           /\ row' = row /\ item' = item /\ live' = live /\ known' = known
           /\ strays' = strays /\ suspect' = suspect /\ torn' = torn
<1>0. PICK r \in Task : r = task[t]
  BY TaskFields
<1>1. PICK wrong : wrong = {u \in r.push : IF r.snap[u].enabled THEN r.snap[u].pw \notin live
                                    ELSE r.snap[u].pw \in r.listed \cap live}
  OBVIOUS
<1>2. PICK x : x = [r EXCEPT !.bad = @ \cup wrong]
  OBVIOUS
<1>3. wrong \subseteq Users
  BY <1>0, <1>1, TaskFields
<1>4. x \in Task /\ x.push = r.push /\ x.then = r.then /\ x.rows = r.rows /\ x.snap = r.snap
      /\ x.new = r.new /\ x.ok = r.ok /\ x.bad = r.bad \cup wrong /\ x.old = r.old /\ x.alone = r.alone
  BY SMTT(30), <1>2, <1>3 DEF Task
<1>5. Fold(t, x) /\ task' \in [Tasks -> Task]
  BY <1>0, <1>1, <1>2 DEF Verify, TypeOK
<1>6. Folding(t, x.ok, x.bad, x.old, x.alone)
  BY <1>0, <1>4, <1>5, FoldIs
<1>7. \A u \in r.push \ x.bad : IF r.snap[u].enabled THEN r.snap[u].pw \in live
                                ELSE ~(r.snap[u].pw \in r.listed /\ r.snap[u].pw \in live)
  BY <1>1, <1>4
<1>8. x.bad \in SUBSET Users
  BY <1>4 DEF Task
<1>9. QED BY <1>0, <1>4, <1>6, <1>7, <1>8 DEF Verify, At, boxVars, counters

LEMMA SkipVerifyIs ==
    ASSUME TypeOK, TypeOK', NEW t \in Tasks, SkipVerify(t)
    PROVE  /\ Folding(t, task[t].ok, task[t].bad, task[t].old, FALSE)
           /\ task[t].pc = "apply" /\ task[t].todo = {}
           /\ row' = row /\ item' = item /\ live' = live /\ known' = known /\ torn' = torn
           /\ strays' = strays /\ suspect' = suspect \cup {u \in task[t].push : There(u)}
<1>1. PICK x : x = [task[t] EXCEPT !.alone = FALSE]
  OBVIOUS
<1>2. x \in Task /\ x.push = task[t].push /\ x.then = task[t].then /\ x.rows = task[t].rows /\ x.snap = task[t].snap
      /\ x.new = task[t].new /\ x.ok = task[t].ok /\ x.bad = task[t].bad /\ x.old = task[t].old /\ x.alone = FALSE
  BY ZenonT(30), <1>1, TaskFields DEF Task
<1>3. Fold(t, x) /\ task' \in [Tasks -> Task]
  BY <1>1 DEF SkipVerify, TypeOK
<1>4. Folding(t, x.ok, x.bad, x.old, x.alone)
  BY <1>2, <1>3, FoldIs
<1>5. QED BY <1>2, <1>4 DEF SkipVerify, At, boxVars

LEMMA PurgeOldIs ==
    ASSUME TypeOK, TypeOK', NEW t \in Tasks, PurgeOld(t)
    PROVE  LET r == task[t]
               q == task'[t]
           IN  /\ Others(t) /\ r.pc = "connect" /\ q.pc = "list" /\ q.old = {}
               /\ Core(q, r) /\ q.todo = r.todo /\ q.ok = r.ok /\ q.bad = r.bad
               /\ \/ live' = live \ r.old /\ strays' = strays
                  \/ live' = live /\ strays' = strays \cup (r.old \cap live)
               /\ row' = row /\ item' = item /\ known' = known /\ suspect' = suspect /\ torn' = torn
<1>1. PICK q : q = [task[t] EXCEPT !.pc = "list", !.old = {}]
  OBVIOUS
<1>2. q.pc = "list" /\ q.old = {} /\ Core(q, task[t]) /\ q.todo = task[t].todo /\ q.ok = task[t].ok /\ q.bad = task[t].bad
  BY <1>1, TaskFields DEF Task, Core
<1>3. task' = [task EXCEPT ![t] = q]
  BY <1>1 DEF PurgeOld
<1>4. task'[t] = q /\ Others(t)
  BY <1>3 DEF TypeOK, Others
<1>5. QED BY <1>2, <1>4 DEF PurgeOld, At

LEMMA ListUsersIs ==
    ASSUME TypeOK, TypeOK', NEW t \in Tasks, ListUsers(t)
    PROVE  LET r == task[t]
               q == task'[t]
           IN  /\ Others(t) /\ r.pc = "list" /\ q.pc = "apply" /\ q.old = r.old
               /\ Core(q, r) /\ q.todo = r.push /\ q.ok = TRUE /\ q.bad = r.bad /\ q.listed = live
               /\ live' = live /\ strays' = strays
               /\ row' = row /\ item' = item /\ known' = known /\ suspect' = suspect /\ torn' = torn
<1>1. PICK q : q = [task[t] EXCEPT !.listed = live, !.todo = task[t].push, !.ok = TRUE, !.pc = "apply"]
  OBVIOUS
<1>2. q.pc = "apply" /\ q.old = task[t].old /\ Core(q, task[t]) /\ q.todo = task[t].push /\ q.ok = TRUE
      /\ q.bad = task[t].bad /\ q.listed = live
  BY <1>1, TaskFields DEF Task, Core
<1>3. task' = [task EXCEPT ![t] = q]
  BY <1>1 DEF ListUsers
<1>4. task'[t] = q /\ Others(t)
  BY <1>3 DEF TypeOK, Others
<1>5. QED BY <1>2, <1>4 DEF ListUsers, At, boxVars, counters

LEMMA ApplyUserIs ==
    ASSUME TypeOK, TypeOK', NEW t \in Tasks, NEW u \in Users, ApplyUser(t, u)
    PROVE  LET r == task[t]
               q == task'[t]
           IN  /\ Others(t) /\ r.pc = "apply" /\ u \in r.todo /\ q.pc = "apply" /\ q.old = r.old
               /\ Core(q, r) /\ q.todo = r.todo \ {u} /\ q.ok = r.ok /\ q.bad = r.bad /\ q.listed = r.listed
               /\ Command(t, u) /\ strays' = strays
               /\ row' = row /\ item' = item /\ known' = known /\ suspect' = suspect /\ torn' = torn
<1>1. PICK q : q = [task[t] EXCEPT !.todo = @ \ {u}]
  OBVIOUS
<1>2. q.pc = task[t].pc /\ q.old = task[t].old /\ Core(q, task[t]) /\ q.todo = task[t].todo \ {u} /\ q.ok = task[t].ok
      /\ q.bad = task[t].bad /\ q.listed = task[t].listed
  BY <1>1, TaskFields DEF Task, Core
<1>3. task' = [task EXCEPT ![t] = q]
  BY <1>1 DEF ApplyUser
<1>4. task'[t] = q /\ Others(t)
  BY <1>3 DEF TypeOK, Others
<1>5. QED BY <1>2, <1>4 DEF ApplyUser, At, counters

LEMMA CommandFailsIs ==
    ASSUME TypeOK, TypeOK', NEW t \in Tasks, NEW u \in Users, NEW told \in BOOLEAN, CommandFails(t, u, told)
    PROVE  LET r == task[t]
               q == task'[t]
           IN  /\ Others(t) /\ r.pc = "apply" /\ u \in r.todo /\ q.pc = "apply" /\ q.old = r.old
               /\ Core(q, r) /\ q.todo = r.todo \ {u} /\ q.ok = r.ok /\ q.listed = r.listed
               /\ (r.snap[u].enabled \/ r.snap[u].pw \in r.listed)
               /\ live' = live /\ strays' = strays
               /\ row' = row /\ item' = item /\ known' = known /\ suspect' = suspect /\ torn' = torn
<1>1. PICK q : q = [task[t] EXCEPT !.todo = @ \ {u}, !.bad = IF told THEN @ \cup {u} ELSE @]
  OBVIOUS
<1>2. q.pc = task[t].pc /\ q.old = task[t].old /\ Core(q, task[t]) /\ q.todo = task[t].todo \ {u} /\ q.ok = task[t].ok
      /\ q.listed = task[t].listed
  BY <1>1, TaskFields DEF Task, Core
<1>3. task' = [task EXCEPT ![t] = q]
  BY <1>1 DEF CommandFails
<1>4. task'[t] = q /\ Others(t)
  BY <1>3 DEF TypeOK, Others
<1>5. QED BY <1>2, <1>4 DEF CommandFails, At, boxVars

\* t is done.
Ends(t) == Others(t) /\ task'[t] = Idle

\* t goes on with all it had but for its place and its listing.
Goes(t, step) ==
    LET r == task[t]
        q == task'[t]
    IN  /\ Others(t) /\ Core(q, r) /\ q.todo = r.todo /\ q.ok = r.ok /\ q.bad = r.bad /\ q.old = r.old
        /\ q.pc = step

LEMMA FinishIs ==
    ASSUME TypeOK, TypeOK', NEW t \in Tasks, NEW step, Finish(t, step)
    PROVE  IF step = "idle" THEN Ends(t) ELSE Goes(t, step)
<1>1. PICK q : q = [task[t] EXCEPT !.pc = step]
  OBVIOUS
<1>2. /\ Core(q, task[t]) /\ q.todo = task[t].todo /\ q.ok = task[t].ok /\ q.bad = task[t].bad /\ q.old = task[t].old
      /\ q.pc = step
  BY <1>1, TaskFields DEF Task, Core
<1>3. CASE step = "idle"
  <2>1. task' = [task EXCEPT ![t] = Idle]
    BY <1>1, <1>2, <1>3 DEF Finish, Carry
  <2>2. QED BY <1>3, <2>1 DEF Ends, Others, TypeOK
<1>4. CASE step # "idle"
  <2>1. task' = [task EXCEPT ![t] = q]
    BY <1>1, <1>2, <1>4 DEF Finish, Carry
  <2>2. task'[t] = q /\ Others(t)
    BY <2>1 DEF Others, TypeOK
  <2>3. QED BY <1>2, <1>4, <2>2 DEF Goes
<1>5. QED BY <1>3, <1>4

\* A fold writes the row but leaves the instance as it is.
FoldsUser(t, u) ==
    LET r == task[t]
        q == task'[t]
        b == r.snap[u]
    IN  /\ Others(t) /\ r.pc = "fold" /\ u \in r.todo
        /\ \A v \in Users : v # u \/ ~There(u) => row'[v] = row[v]
        /\ There(u) =>
              /\ row'[u].is = row[u].is /\ row'[u].source = row[u].source /\ row'[u].enabled = row[u].enabled
              /\ row'[u].pw = row[u].pw /\ row'[u].config = row[u].config
              /\ row'[u].rh = IF r.ok /\ b.rh # b.pw THEN b.pw ELSE row[u].rh
              /\ row'[u].synced = IF b.synced = (r.ok /\ u \notin r.bad) THEN row[u].synced ELSE (r.ok /\ u \notin r.bad)
        /\ IF r.todo = {u} THEN IF r.then = "idle" THEN q = Idle ELSE Goes(t, r.then)
           ELSE /\ Core(q, r) /\ q.todo = r.todo \ {u} /\ q.ok = r.ok /\ q.bad = r.bad /\ q.old = r.old
                /\ q.pc = "fold"
        /\ suspect' = (IF r.ok /\ u \notin r.bad /\ r.alone THEN suspect \ {u} ELSE suspect)
        /\ item' = item /\ live' = live /\ known' = known /\ strays' = strays /\ torn' = torn

LEMMA FoldUserIs ==
    ASSUME TypeOK, TypeOK', NEW t \in Tasks, NEW u \in Users, FoldUser(t, u)
    PROVE  FoldsUser(t, u)
<1>1. PICK r \in Task : r = task[t]
  BY TaskFields
<1>2. PICK b \in Row : b = r.snap[u]
  BY <1>1 DEF Task
<1>3. PICK good \in BOOLEAN : good = (r.ok /\ u \notin r.bad)
  OBVIOUS
<1>4. PICK h \in Secrets : h = IF r.ok THEN b.pw ELSE b.rh
  BY <1>2, RowsOK
<1>5. PICK a \in Row : a = [b EXCEPT !.rh = h, !.synced = good]
  BY <1>2 DEF Row
<1>6. /\ a.is = b.is /\ a.source = b.source /\ a.enabled = b.enabled /\ a.pw = b.pw /\ a.config = b.config
      /\ a.rh = h /\ a.synced = good
  BY <1>2, <1>5 DEF Row
<1>7. /\ Save(u, b, a) /\ r.pc = "fold" /\ u \in r.todo
      /\ IF r.todo = {u} THEN Finish(t, r.then) ELSE task' = [task EXCEPT ![t].todo = @ \ {u}]
      /\ suspect' = (IF good /\ r.alone THEN suspect \ {u} ELSE suspect)
      /\ item' = item /\ live' = live /\ known' = known /\ strays' = strays /\ torn' = torn
  BY <1>1, <1>2, <1>3, <1>4, <1>5 DEF FoldUser, At, boxVars, counters
<1>8. /\ \A v \in Users : v # u \/ ~There(u) => row'[v] = row[v]
      /\ There(u) =>
             /\ row'[u].is = IF b.is = a.is THEN row[u].is ELSE a.is
             /\ row'[u].source = IF b.source = a.source THEN row[u].source ELSE a.source
             /\ row'[u].enabled = IF b.enabled = a.enabled THEN row[u].enabled ELSE a.enabled
             /\ row'[u].pw = IF b.pw = a.pw THEN row[u].pw ELSE a.pw
             /\ row'[u].rh = IF b.rh = a.rh THEN row[u].rh ELSE a.rh
             /\ row'[u].config = IF b.config = a.config THEN row[u].config ELSE a.config
             /\ row'[u].synced = IF b.synced = a.synced THEN row[u].synced ELSE a.synced
  BY <1>7, SaveOK
<1>9. There(u) => /\ row'[u].is = row[u].is /\ row'[u].source = row[u].source /\ row'[u].enabled = row[u].enabled
                  /\ row'[u].pw = row[u].pw /\ row'[u].config = row[u].config
                  /\ row'[u].rh = IF r.ok /\ b.rh # b.pw THEN b.pw ELSE row[u].rh
                  /\ row'[u].synced = IF b.synced = good THEN row[u].synced ELSE good
  <2> SUFFICES ASSUME There(u) PROVE
                  /\ row'[u].is = row[u].is /\ row'[u].source = row[u].source /\ row'[u].enabled = row[u].enabled
                  /\ row'[u].pw = row[u].pw /\ row'[u].config = row[u].config
                  /\ row'[u].rh = IF r.ok /\ b.rh # b.pw THEN b.pw ELSE row[u].rh
                  /\ row'[u].synced = IF b.synced = good THEN row[u].synced ELSE good
    OBVIOUS
  <2>1. /\ row'[u].is = row[u].is /\ row'[u].source = row[u].source /\ row'[u].enabled = row[u].enabled
        /\ row'[u].pw = row[u].pw /\ row'[u].config = row[u].config
    BY <1>6, <1>8
  <2>2. row'[u].rh = IF r.ok /\ b.rh # b.pw THEN b.pw ELSE row[u].rh
    BY <1>4, <1>6, <1>8
  <2>3. row'[u].synced = IF b.synced = good THEN row[u].synced ELSE good
    BY <1>6, <1>8
  <2>4. QED BY <2>1, <2>2, <2>3
<1>10. CASE r.todo = {u}
  <2>1. Finish(t, r.then)
    BY <1>7, <1>10
  <2>2. IF r.then = "idle" THEN Ends(t) ELSE Goes(t, r.then)
    BY <2>1, FinishIs
  <2>3. Others(t) /\ (IF r.then = "idle" THEN task'[t] = Idle ELSE Goes(t, r.then))
    BY <2>2 DEF Ends, Goes
  <2>4. QED BY <1>1, <1>2, <1>3, <1>7, <1>8, <1>9, <1>10, <2>3 DEF FoldsUser
<1>11. CASE r.todo # {u}
  <2>1. PICK q : q = [r EXCEPT !.todo = @ \ {u}]
    OBVIOUS
  <2>2. /\ Core(q, r) /\ q.todo = r.todo \ {u} /\ q.ok = r.ok /\ q.bad = r.bad /\ q.old = r.old /\ q.pc = r.pc
    BY <2>1 DEF Task, Core
  <2>3. task' = [task EXCEPT ![t] = q]
    BY <1>1, <1>7, <1>11, <2>1
  <2>4. task'[t] = q /\ Others(t)
    BY <2>3 DEF Others, TypeOK
  <2>5. QED BY <1>1, <1>2, <1>3, <1>7, <1>8, <1>9, <1>11, <2>2, <2>4 DEF FoldsUser
<1>12. QED BY <1>10, <1>11

LEMMA WriteItemsIs ==
    ASSUME TypeOK, TypeOK', NEW t \in Tasks, NEW u \in Users, WriteItems(t, u)
    PROVE  /\ Ends(t) /\ task[t].pc = "items" /\ u \in task[t].rows
           /\ \A v \in Users : v # u => item'[v] = item[v]
           /\ item'[u] = IF item[u] = None THEN None ELSE task[t].snap[u].config
           /\ torn' = (IF task[t].alone THEN torn \ {u} ELSE torn)
           /\ row' = row /\ live' = live /\ known' = known /\ strays' = strays /\ suspect' = suspect
BY FinishIs DEF WriteItems, At, TypeOK, counters

LEMMA AssignIs ==
    ASSUME TypeOK, TypeOK', NEW t \in Tasks, NEW u \in Users, Assign(t, u)
    PROVE  /\ Ends(t) /\ task[t].pc = "assign" /\ u \in task[t].rows
           /\ \A v \in Users : v # u => item'[v] = item[v]
           /\ item'[u] = task[t].snap[u].config
           /\ row' = row /\ live' = live /\ known' = known /\ strays' = strays /\ suspect' = suspect /\ torn' = torn
BY FinishIs DEF Assign, At, TypeOK, boxVars, counters

LEMMA UnlinkItemsIs ==
    ASSUME TypeOK, TypeOK', NEW t \in Tasks, NEW u \in Users, UnlinkItems(t, u)
    PROVE  /\ Goes(t, "destroy") /\ task[t].pc = "unlink" /\ u \in task[t].rows
           /\ \A v \in Users : v # u => item'[v] = item[v]
           /\ item'[u] = None
           /\ row' = row /\ live' = live /\ known' = known /\ strays' = strays /\ suspect' = suspect /\ torn' = torn
BY FinishIs DEF UnlinkItems, At, TypeOK, boxVars, counters

LEMMA DestroyRowIs ==
    ASSUME TypeOK, TypeOK', NEW t \in Tasks, NEW u \in Users, DestroyRow(t, u)
    PROVE  /\ Ends(t) /\ task[t].pc = "destroy" /\ u \in task[t].rows
           /\ \A v \in Users : v # u => row'[v] = row[v]
           /\ row'[u].is = "gone"
           /\ item' = item /\ live' = live /\ known' = known /\ strays' = strays
           /\ suspect' = suspect \ {u} /\ torn' = torn \ {u}
<1>1. [Unborn EXCEPT !.is = "gone"].is = "gone"
  BY DEF Unborn
<1>2. row'[u].is = "gone" /\ \A v \in Users : v # u => row'[v] = row[v]
  BY <1>1 DEF DestroyRow, TypeOK
<1>3. QED BY <1>2, FinishIs DEF DestroyRow, At, boxVars, counters

LEMMA FetchLiveIs ==
    ASSUME TypeOK, TypeOK', NEW t \in Tasks, FetchLive(t)
    PROVE  /\ task[t].pc = "i_list" /\ (Ends(t) \/ (Goes(t, "i_rows") /\ task'[t].listed = live))
           /\ row' = row /\ item' = item /\ live' = live /\ known' = known
           /\ strays' = strays /\ suspect' = suspect /\ torn' = torn
<1>1. CASE Finish(t, "idle")
  BY <1>1, FinishIs DEF FetchLive, At, boxVars, counters
<1>2. CASE task' = [task EXCEPT ![t].listed = live, ![t].pc = "i_rows"]
  <2>1. PICK q : q = [task[t] EXCEPT !.listed = live, !.pc = "i_rows"]
    OBVIOUS
  <2>2. /\ Core(q, task[t]) /\ q.todo = task[t].todo /\ q.ok = task[t].ok /\ q.bad = task[t].bad /\ q.old = task[t].old
        /\ q.pc = "i_rows" /\ q.listed = live
    BY <2>1, TaskFields DEF Task, Core
  <2>3. task' = [task EXCEPT ![t] = q]
    BY <1>2, <2>1
  <2>4. task'[t] = q /\ Others(t)
    BY <2>3 DEF Others, TypeOK
  <2>5. QED BY <2>2, <2>4 DEF Goes, FetchLive, At, boxVars, counters
<1>3. QED BY <1>1, <1>2 DEF FetchLive

LEMMA FindKnownIs ==
    ASSUME TypeOK, TypeOK', NEW t \in Tasks, FindKnown(t)
    PROVE  /\ task[t].pc = "i_rows" /\ Goes(t, "i_create")
           /\ \A h \in task'[t].listed : h \in task[t].listed /\ \A u \in Users : There(u) => HashOf(row[u]) # h
           /\ row' = row /\ item' = item /\ live' = live /\ known' = known
           /\ strays' = strays /\ suspect' = suspect /\ torn' = torn
<1>0. PICK l : l = task[t].listed \ {HashOf(row[u]) : u \in {v \in Users : There(v)}}
  OBVIOUS
<1>1. PICK q : q = [task[t] EXCEPT !.listed = l, !.pc = "i_create"]
  OBVIOUS
<1>2. /\ Core(q, task[t]) /\ q.todo = task[t].todo /\ q.ok = task[t].ok /\ q.bad = task[t].bad /\ q.old = task[t].old
      /\ q.pc = "i_create" /\ q.listed = l
  BY <1>1, TaskFields DEF Task, Core
<1>3. task' = [task EXCEPT ![t] = q]
  BY <1>0, <1>1 DEF FindKnown
<1>4. task'[t] = q /\ Others(t)
  BY <1>3 DEF Others, TypeOK
<1>5. QED BY <1>0, <1>2, <1>4, ZenonT(30) DEF Goes, FindKnown, At, boxVars, counters

LEMMA ImportOneIs ==
    ASSUME TypeOK, TypeOK', NEW t \in Tasks, NEW u \in Users, NEW h \in Passwords, ImportOne(t, u, h)
    PROVE  /\ task[t].pc = "i_create" /\ Goes(t, "i_create") /\ task'[t].listed = task[t].listed \ {h}
           /\ h \in task[t].listed /\ row[u].is = "unborn"
           /\ \A v \in Users : v # u => row'[v] = row[v]
           /\ row'[u].is = "there" /\ row'[u].source = "imported" /\ row'[u].pw = Placeholder /\ row'[u].rh = h
           /\ item' = item /\ live' = live /\ known' = known
           /\ strays' = strays /\ suspect' = suspect /\ torn' = torn
<1>1. PICK q : q = [task[t] EXCEPT !.listed = @ \ {h}]
  OBVIOUS
<1>2. /\ Core(q, task[t]) /\ q.todo = task[t].todo /\ q.ok = task[t].ok /\ q.bad = task[t].bad /\ q.old = task[t].old
      /\ q.pc = task[t].pc /\ q.listed = task[t].listed \ {h}
  BY <1>1, TaskFields DEF Task, Core
<1>3. task' = [task EXCEPT ![t] = q]
  BY <1>1 DEF ImportOne
<1>4. task'[t] = q /\ Others(t)
  BY <1>3 DEF Others, TypeOK
<1>5. Imported(h).is = "there" /\ Imported(h).source = "imported" /\ Imported(h).pw = Placeholder /\ Imported(h).rh = h
  BY DEF Imported, Unborn
<1>6. row'[u] = Imported(h) /\ \A v \in Users : v # u => row'[v] = row[v]
  BY DEF ImportOne, TypeOK
<1>7. QED BY <1>2, <1>4, <1>5, <1>6 DEF Goes, ImportOne, At, boxVars, counters

LEMMA EndImportIs ==
    ASSUME TypeOK, TypeOK', NEW t \in Tasks, EndImport(t)
    PROVE  /\ Ends(t) /\ task[t].pc = "i_create"
           /\ row' = row /\ item' = item /\ live' = live /\ known' = known
           /\ strays' = strays /\ suspect' = suspect /\ torn' = torn
BY FinishIs DEF EndImport, At, boxVars, counters

-----------------------------------------------------------------------------
(* How tasks begin *)

\* q is r but for what disturbed it.
Like(q, r) ==
    /\ q.pc = r.pc /\ q.rows = r.rows /\ q.snap = r.snap /\ q.new = r.new /\ q.push = r.push /\ q.old = r.old
    /\ q.then = r.then /\ q.listed = r.listed /\ q.todo = r.todo /\ q.bad = r.bad /\ q.ok = r.ok

\* The others are as they were, but may have been met.
Stays(o) ==
    /\ Like(task'[o], task[o]) /\ (task'[o].alone => task[o].alone)
    /\ task[o].pc = "idle" => task'[o] = task[o]

Begins(t) ==
    LET q == task'[t]
    IN  /\ task' \in [Tasks -> Task] /\ task[t].pc = "idle"
        /\ \A o \in Tasks : o # t =>
              /\ Stays(o)
              /\ \/ task'[o] = task[o] /\ (task[o].pc = "idle" \/ \A v \in Users : ~(v \in q.rows /\ v \in task[o].rows))
                 \/ /\ ~task'[o].alone /\ ~q.alone /\ Mentioned(task[o]) \subseteq strays'
                    /\ \A v \in task[o].rows : There(v) \/ q.snap[v].is = "there" => v \in suspect' /\ v \in torn'
        /\ \/ q.alone
           \/ /\ Mentioned(q) \subseteq strays'
              /\ \A v \in q.rows : There(v) \/ q.snap[v].is = "there" => v \in suspect' /\ v \in torn'
        /\ strays \subseteq strays' /\ suspect \subseteq suspect' /\ torn \subseteq torn'

LEMMA BeginIs ==
    ASSUME TypeOK, TypeOK', NEW t \in Tasks, NEW r \in Task, Begin(t, r)
    PROVE  Begins(t) /\ Like(task'[t], r)
<1>1. PICK met \in SUBSET Tasks : met = {o \in Tasks : ~At(o, "idle") /\ task[o].rows \cap r.rows # {}}
  OBVIOUS
<1>2. PICK hashes : hashes = Mentioned(r) \cup UNION {Mentioned(task[o]) : o \in met}
  OBVIOUS
<1>3. PICK rows : rows = {u \in r.rows \cup UNION {task[o].rows : o \in met} : There(u) \/ r.snap[u].is = "there"}
  OBVIOUS
<1>4. /\ task[t].pc = "idle"
      /\ task' = [o \in Tasks |->
              IF o = t THEN [r EXCEPT !.alone = (met = {})]
              ELSE IF o \in met THEN [task[o] EXCEPT !.alone = FALSE]
              ELSE task[o]]
      /\ strays' = strays \cup (IF met = {} THEN {} ELSE hashes)
      /\ suspect' = suspect \cup (IF met = {} THEN {} ELSE rows)
      /\ torn' = torn \cup (IF met = {} THEN {} ELSE rows)
  BY <1>1, <1>2, <1>3 DEF Begin, At
<1>5. Like(task'[t], r) /\ task'[t].alone = (met = {})
  <2>1. PICK q : q = [r EXCEPT !.alone = (met = {})]
    OBVIOUS
  <2>2. Like(q, r) /\ q.alone = (met = {})
    BY <2>1 DEF Like, Task
  <2>3. task'[t] = q
    BY <1>4, <2>1
  <2>4. QED BY <2>2, <2>3
<1>6. Mentioned(task'[t]) = Mentioned(r) /\ task'[t].rows = r.rows /\ task'[t].snap = r.snap
  BY <1>5 DEF Like, Mentioned
<1>7. ASSUME NEW o \in Tasks, o # t, o \in met
      PROVE  /\ Stays(o) /\ ~task'[o].alone /\ ~task'[t].alone /\ Mentioned(task[o]) \subseteq strays'
             /\ \A v \in task[o].rows : There(v) \/ r.snap[v].is = "there" => v \in suspect' /\ v \in torn'
  <2>1. PICK q : q = [task[o] EXCEPT !.alone = FALSE]
    OBVIOUS
  <2>2. Like(q, task[o]) /\ q.alone = FALSE
    BY <2>1, TaskFields DEF Like, Task
  <2>3. task'[o] = q
    BY <1>4, <1>7, <2>1
  <2>4. task[o].pc # "idle"
    BY <1>1, <1>7 DEF At
  <2>5. QED BY <1>2, <1>3, <1>4, <1>5, <1>7, <2>2, <2>3, <2>4 DEF Stays
<1>8. ASSUME NEW o \in Tasks, o # t, o \notin met
      PROVE  Stays(o) /\ task'[o] = task[o] /\ (task[o].pc = "idle" \/ \A v \in Users : ~(v \in r.rows /\ v \in task[o].rows))
  <2>1. task'[o] = task[o]
    BY <1>4, <1>8
  <2>2. QED BY <1>1, <1>8, <2>1 DEF Stays, Like, At
<1>9. met = {} \/ /\ Mentioned(r) \subseteq strays'
                  /\ \A v \in r.rows : There(v) \/ r.snap[v].is = "there" => v \in suspect' /\ v \in torn'
  BY <1>2, <1>3, <1>4
<1>10. task' \in [Tasks -> Task] /\ strays \subseteq strays' /\ suspect \subseteq suspect' /\ torn \subseteq torn'
  BY <1>4 DEF TypeOK
<1>11. \A o \in Tasks : o # t =>
              /\ Stays(o)
              /\ \/ task'[o] = task[o] /\ (task[o].pc = "idle" \/ \A v \in Users : ~(v \in task'[t].rows /\ v \in task[o].rows))
                 \/ /\ ~task'[o].alone /\ ~task'[t].alone /\ Mentioned(task[o]) \subseteq strays'
                    /\ \A v \in task[o].rows : There(v) \/ task'[t].snap[v].is = "there" => v \in suspect' /\ v \in torn'
  BY <1>6, <1>7, <1>8
<1>12. QED BY <1>4, <1>5, <1>6, <1>9, <1>10, <1>11 DEF Begins

\* q starts on u alone, with nothing to push yet.
Fresh1(q, u) ==
    /\ q.rows = {u} /\ q.todo = {} /\ ~q.ok /\ q.push = {}
    /\ \A v \in Users : v # u => q.snap[v] = Unborn

Reads(t, u) ==
    /\ Fresh1(task'[t], u) /\ There(u) /\ task'[t].snap[u] = row[u] /\ row' = row

Makes(t, u, p, h) ==
    LET q == task'[t]
    IN  /\ Fresh1(q, u) /\ row[u].is = "unborn" /\ p \in Passwords \ known /\ known' = known \cup {p}
        /\ q.snap[u].is = "there" /\ q.snap[u].source = "managed" /\ q.snap[u].pw = p /\ q.snap[u].rh = h
        /\ q.snap[u].synced = FALSE
        /\ row'[u] = q.snap[u] /\ \A v \in Users : v # u => row'[v] = row[v]
        /\ q.new = None /\ q.old = {} /\ q.then = "idle"

Created(t, u, p) == Makes(t, u, p, p) /\ p \notin Foreign /\ task'[t].pc = "config"
DefaultMade(t, u, p) == Makes(t, u, p, None) /\ p \notin Foreign /\ task'[t].pc = "defaults"
Adopted(t, u, p) == Makes(t, u, p, p) /\ p \in Foreign /\ task'[t].pc = "adopt"

Adopting(t, u, p) ==
    /\ Reads(t, u) /\ p \in Foreign \ known /\ known' = known \cup {p}
    /\ task'[t].pc = "adopt" /\ task'[t].new = p /\ task'[t].old = {} /\ task'[t].then = "idle"

Updating(t, u, p) ==
    /\ Reads(t, u) /\ row[u].source = "managed"
    /\ IF p = None THEN known' = known ELSE p \in Passwords \ (Foreign \cup known) /\ known' = known \cup {p}
    /\ task'[t].pc = "patch" /\ task'[t].new = p /\ task'[t].old = {} /\ task'[t].then = "items"

Reading(t, u) ==
    /\ Reads(t, u) /\ known' = known /\ task'[t].new = None
    /\ \/ row[u].source = "managed" /\ task'[t].pc \in {"defaults", "assign"} /\ task'[t].old = {} /\ task'[t].then = "idle"
       \/ row[u].source # "managed" /\ task'[t].pc = "unlink" /\ task'[t].old = {} /\ task'[t].then = "idle"
       \/ row[u].source = "managed" /\ task'[t].pc = "connect" /\ task'[t].then = "unlink"
          /\ task'[t].old = {HashOf(row[u])}

Sweeping(t) ==
    LET q == task'[t]
    IN  /\ row' = row /\ known' = known /\ q.todo = {} /\ ~q.ok /\ q.new = None /\ q.old = {} /\ q.then = "idle"
        /\ \/ /\ q.pc = "connect" /\ q.rows = {u \in Users : There(u)}
              /\ \A u \in Users : q.snap[u] = IF There(u) THEN row[u] ELSE Unborn
              /\ q.push = {u \in Users : There(u) /\ row[u].source = "managed"}
           \/ q.pc = "i_list" /\ q.rows = Users /\ q.push = {} /\ \A u \in Users : q.snap[u] = Unborn

Launches(t) ==
    /\ Begins(t) /\ item' = item /\ live' = live
    /\ \/ \E u \in Users, p \in Passwords \cup {None} :
              Created(t, u, p) \/ DefaultMade(t, u, p) \/ Adopted(t, u, p) \/ Adopting(t, u, p) \/ Updating(t, u, p)
       \/ \E u \in Users : Reading(t, u)
       \/ Sweeping(t)

Held1(x, u, b, step) ==
    /\ x.rows = {u} /\ x.todo = {} /\ x.ok = FALSE /\ x.push = {} /\ x.snap[u] = b /\ x.pc = step
    /\ \A v \in Users : v # u => x.snap[v] = Unborn
    /\ x.new = None /\ x.old = {} /\ x.then = "idle"

LEMMA HoldingIs ==
    ASSUME NEW u \in Users, NEW b \in Row, NEW step
    PROVE  Held1(Holding(u, b, step), u, b, step)
BY DEF Holding, Idle, Held1

LEMMA HeldIs ==
    ASSUME NEW t \in Tasks, NEW u \in Users, NEW b \in Row, NEW step, NEW x, Like(task'[t], x),
           x = Holding(u, b, step)
    PROVE  /\ Fresh1(task'[t], u) /\ task'[t].snap[u] = b /\ task'[t].pc = step
           /\ task'[t].new = None /\ task'[t].old = {} /\ task'[t].then = "idle"
<1>1. Held1(x, u, b, step)
  BY HoldingIs
<1>2. QED BY <1>1 DEF Like, Fresh1, Held1

LEMMA LaunchIs ==
    ASSUME TypeOK, TypeOK', NEW t \in Tasks, Request(t), EditImported = FALSE
    PROVE  Launches(t)
<1> USE DEF Steps
<1>1. \A u \in Users : row[u] \in Row /\ row[u].source \in {"managed", "imported"}
  BY RowsOK DEF TypeOK
<1>2. ASSUME NEW u \in Users, NEW p \in Passwords, NEW on \in BOOLEAN, CreateUser(t, u, p, on)
      PROVE  Created(t, u, p) /\ Begins(t)
  <2>0. PICK m \in Row : m = Managed(p)
    BY RowsOK
  <2>1. PICK b \in Row : b = [m EXCEPT !.enabled = on]
    BY DEF Row
  <2>2. PICK x \in Task : x = Holding(u, b, "config")
    BY HoldingOK
  <2>3. Begin(t, x) /\ row[u].is = "unborn" /\ Fresh(p) /\ row' = [row EXCEPT ![u] = b] /\ known' = known \cup {p}
    BY <1>2, <2>0, <2>1, <2>2 DEF CreateUser
  <2>4. Begins(t) /\ Like(task'[t], x)
    BY <2>3, BeginIs
  <2>5. /\ Fresh1(task'[t], u) /\ task'[t].snap[u] = b /\ task'[t].pc = "config"
        /\ task'[t].new = None /\ task'[t].old = {} /\ task'[t].then = "idle"
    BY <2>2, <2>4, HeldIs
  <2>6. b.is = "there" /\ b.source = "managed" /\ b.pw = p /\ b.rh = p /\ b.synced = FALSE
    BY <2>0, <2>1 DEF Managed, Unborn
  <2>7. row'[u] = b /\ \A v \in Users : v # u => row'[v] = row[v]
    BY <2>3 DEF TypeOK
  <2>8. QED BY <2>3, <2>4, <2>5, <2>6, <2>7 DEF Created, Makes, Fresh
<1>3. ASSUME NEW u \in Users, NEW p \in Passwords, MakeDefault(t, u, p) PROVE DefaultMade(t, u, p) /\ Begins(t)
  <2>0. PICK m \in Row : m = Managed(p)
    BY RowsOK
  <2>1. PICK b \in Row : b = [m EXCEPT !.rh = None]
    BY DEF Row, Secrets
  <2>2. PICK x \in Task : x = Holding(u, b, "defaults")
    BY HoldingOK
  <2>3. Begin(t, x) /\ row[u].is = "unborn" /\ Fresh(p) /\ row' = [row EXCEPT ![u] = b] /\ known' = known \cup {p}
    BY <1>3, <2>0, <2>1, <2>2 DEF MakeDefault
  <2>4. Begins(t) /\ Like(task'[t], x)
    BY <2>3, BeginIs
  <2>5. /\ Fresh1(task'[t], u) /\ task'[t].snap[u] = b /\ task'[t].pc = "defaults"
        /\ task'[t].new = None /\ task'[t].old = {} /\ task'[t].then = "idle"
    BY <2>2, <2>4, HeldIs
  <2>9. m.is = "there" /\ m.source = "managed" /\ m.pw = p /\ m.synced = FALSE
    BY <2>0 DEF Managed, Unborn
  <2>6. b.is = "there" /\ b.source = "managed" /\ b.pw = p /\ b.rh = None /\ b.synced = FALSE
    BY <2>1, <2>9 DEF Row
  <2>7. row'[u] = b /\ \A v \in Users : v # u => row'[v] = row[v]
    BY <2>3 DEF TypeOK
  <2>8. QED BY <2>3, <2>4, <2>5, <2>6, <2>7 DEF DefaultMade, Makes, Fresh
<1>4. ASSUME NEW u \in Users, NEW p \in Passwords, AdoptNew(t, u, p) PROVE Adopted(t, u, p) /\ Begins(t)
  <2>1. PICK b \in Row : b = Managed(p)
    BY RowsOK
  <2>2. PICK x \in Task : x = Holding(u, b, "adopt")
    BY HoldingOK
  <2>3. Begin(t, x) /\ row[u].is = "unborn" /\ p \in Foreign \ known /\ row' = [row EXCEPT ![u] = b] /\ known' = known \cup {p}
    BY <1>4, <2>1, <2>2 DEF AdoptNew
  <2>4. Begins(t) /\ Like(task'[t], x)
    BY <2>3, BeginIs
  <2>5. /\ Fresh1(task'[t], u) /\ task'[t].snap[u] = b /\ task'[t].pc = "adopt"
        /\ task'[t].new = None /\ task'[t].old = {} /\ task'[t].then = "idle"
    BY <2>2, <2>4, HeldIs
  <2>6. b.is = "there" /\ b.source = "managed" /\ b.pw = p /\ b.rh = p /\ b.synced = FALSE
    BY <2>1 DEF Managed, Unborn
  <2>7. row'[u] = b /\ \A v \in Users : v # u => row'[v] = row[v]
    BY <2>3 DEF TypeOK
  <2>8. QED BY <2>3, <2>4, <2>5, <2>6, <2>7 DEF Adopted, Makes
<1>5. ASSUME NEW u \in Users, NEW p \in Passwords, AdoptOver(t, u, p) PROVE Adopting(t, u, p) /\ Begins(t)
  <2>1. PICK h \in Task : h = Holding(u, row[u], "adopt")
    BY <1>1, HoldingOK
  <2>2. PICK x \in Task : x = [h EXCEPT !.new = p]
    BY DEF Task, Secrets
  <2>3. Begin(t, x) /\ There(u) /\ p \in Foreign \ known /\ row' = row /\ known' = known \cup {p}
    BY <1>5, <2>1, <2>2 DEF AdoptOver
  <2>4. Begins(t) /\ Like(task'[t], x)
    BY <2>3, BeginIs
  <2>5. /\ h.rows = {u} /\ h.todo = {} /\ h.ok = FALSE /\ h.push = {} /\ h.snap[u] = row[u] /\ h.pc = "adopt"
        /\ \A v \in Users : v # u => h.snap[v] = Unborn
        /\ h.old = {} /\ h.then = "idle"
    <3>1. Held1(h, u, row[u], "adopt")
      BY <1>1, <2>1, HoldingIs
    <3>2. QED BY <3>1 DEF Held1
  <2>6. /\ x.rows = h.rows /\ x.todo = h.todo /\ x.ok = h.ok /\ x.push = h.push /\ x.snap = h.snap /\ x.pc = h.pc
        /\ x.new = p /\ x.old = h.old /\ x.then = h.then
    BY <2>2 DEF Task
  <2>7. QED BY <2>3, <2>4, <2>5, <2>6 DEF Adopting, Reads, Fresh1, Like
<1>6. ASSUME NEW u \in Users, NEW p \in Passwords \cup {None}, NEW on \in BOOLEAN, StartUpdate(t, u, p, on)
      PROVE  Updating(t, u, p) /\ Begins(t)
  <2>1. PICK h \in Task : h = Holding(u, row[u], "patch")
    BY <1>1, HoldingOK
  <2>2. PICK x \in Task : x = [h EXCEPT !.new = p, !.on = on, !.then = "items"]
    BY DEF Task, Secrets
  <2>3. Begin(t, x) /\ There(u) /\ row[u].source = "managed" /\ row' = row
        /\ IF p = None THEN known' = known ELSE Fresh(p) /\ known' = known \cup {p}
    BY <1>1, <1>6, <2>1, <2>2 DEF StartUpdate
  <2>4. Begins(t) /\ Like(task'[t], x)
    BY <2>3, BeginIs
  <2>5. /\ h.rows = {u} /\ h.todo = {} /\ h.ok = FALSE /\ h.push = {} /\ h.snap[u] = row[u] /\ h.pc = "patch"
        /\ \A v \in Users : v # u => h.snap[v] = Unborn
        /\ h.old = {}
    <3>1. Held1(h, u, row[u], "patch")
      BY <1>1, <2>1, HoldingIs
    <3>2. QED BY <3>1 DEF Held1
  <2>6. /\ x.rows = h.rows /\ x.todo = h.todo /\ x.ok = h.ok /\ x.push = h.push /\ x.snap = h.snap /\ x.pc = h.pc
        /\ x.new = p /\ x.old = h.old /\ x.then = "items"
    BY <2>2 DEF Task
  <2>7. QED BY <2>3, <2>4, <2>5, <2>6 DEF Updating, Reads, Fresh1, Like, Fresh
<1>7. ASSUME NEW u \in Users, FindDefault(t, u) \/ StartAssign(t, u) PROVE Reading(t, u) /\ Begins(t)
  <2>1. PICK step \in {"defaults", "assign"} : Begin(t, Holding(u, row[u], step))
    BY <1>7 DEF FindDefault, StartAssign
  <2>2. PICK x \in Task : x = Holding(u, row[u], step)
    BY <1>1, HoldingOK
  <2>3. Begin(t, x) /\ There(u) /\ row[u].source = "managed" /\ row' = row /\ known' = known
    BY <1>7, <2>1, <2>2 DEF FindDefault, StartAssign
  <2>4. Begins(t) /\ Like(task'[t], x)
    BY <2>3, BeginIs
  <2>5. /\ Fresh1(task'[t], u) /\ task'[t].snap[u] = row[u] /\ task'[t].pc = step
        /\ task'[t].new = None /\ task'[t].old = {} /\ task'[t].then = "idle"
    BY <1>1, <2>2, <2>4, HeldIs
  <2>6. QED BY <2>3, <2>4, <2>5 DEF Reading, Reads
<1>8. ASSUME NEW u \in Users, StartDelete(t, u) PROVE Reading(t, u) /\ Begins(t)
  <2>1. CASE row[u].source = "imported"
    <3>2. PICK x \in Task : x = Holding(u, row[u], "unlink")
      BY <1>1, HoldingOK
    <3>3. Begin(t, x) /\ There(u) /\ row' = row /\ known' = known
      BY <1>8, <2>1, <3>2 DEF StartDelete
    <3>4. Begins(t) /\ Like(task'[t], x)
      BY <3>3, BeginIs
    <3>5. /\ Fresh1(task'[t], u) /\ task'[t].snap[u] = row[u] /\ task'[t].pc = "unlink"
          /\ task'[t].new = None /\ task'[t].old = {} /\ task'[t].then = "idle"
      BY <1>1, <3>2, <3>4, HeldIs
    <3>6. QED BY <2>1, <3>3, <3>4, <3>5 DEF Reading, Reads
  <2>2. CASE row[u].source # "imported"
    <3>1. PICK h \in Task : h = Holding(u, row[u], "connect")
      BY <1>1, HoldingOK
    <3>0. HashOf(row[u]) \in Secrets
      BY <1>1, HashIs
    <3>2. PICK x \in Task : x = [h EXCEPT !.old = {HashOf(row[u])}, !.then = "unlink"]
      BY <3>0, ZenonT(30) DEF Task
    <3>3. Begin(t, x) /\ There(u) /\ row[u].source = "managed" /\ row' = row /\ known' = known
      BY <1>1, <1>8, <2>2, <3>1, <3>2 DEF StartDelete
    <3>4. Begins(t) /\ Like(task'[t], x)
      BY <3>3, BeginIs
    <3>5. /\ h.rows = {u} /\ h.todo = {} /\ h.ok = FALSE /\ h.push = {} /\ h.snap[u] = row[u] /\ h.pc = "connect"
          /\ \A v \in Users : v # u => h.snap[v] = Unborn
          /\ h.new = None
      <4>1. Held1(h, u, row[u], "connect")
        BY <1>1, <3>1, HoldingIs
      <4>2. QED BY <4>1 DEF Held1
    <3>6. /\ x.rows = h.rows /\ x.todo = h.todo /\ x.ok = h.ok /\ x.push = h.push /\ x.snap = h.snap /\ x.pc = h.pc
          /\ x.new = h.new /\ x.old = {HashOf(row[u])} /\ x.then = "unlink"
      BY <3>2 DEF Task
    <3>7. QED BY <3>3, <3>4, <3>5, <3>6 DEF Reading, Reads, Fresh1, Like
  <2>3. QED BY <2>1, <2>2
<1>9. ASSUME StartSync(t) PROVE Sweeping(t) /\ Begins(t)
  <2>1. PICK users \in SUBSET Users : users = {u \in Users : There(u)}
    OBVIOUS
  <2>2. PICK s \in [Users -> Row] : s = [u \in Users |-> IF There(u) THEN row[u] ELSE Unborn]
    BY <1>1, RowsOK
  <2>3. PICK r \in Task : r = [Idle EXCEPT !.rows = users, !.snap = s]
    BY IdleOK DEF Task
  <2>4. /\ r.rows = users /\ r.snap = s /\ r.new = None /\ r.todo = {} /\ r.ok = FALSE
    BY <2>3 DEF Idle
  <2>5. PICK x \in Task : x = PushOf(r, users, {}, "idle")
    BY PushOK
  <2>6. x.pc # "idle" /\ Begin(t, x) /\ row' = row /\ known' = known
    BY <1>9, <2>1, <2>2, <2>3, <2>5 DEF StartSync
  <2>7. Begins(t) /\ Like(task'[t], x)
    BY <2>6, BeginIs
  <2>8. PICK m : m = {u \in users : r.snap[u].source = "managed"}
    OBVIOUS
  <2>9. x = [r EXCEPT !.pc = "connect", !.push = m, !.old = {}, !.then = "idle"]
    <3>1. x = [r EXCEPT !.pc = "connect", !.push = m, !.old = {}, !.then = "idle"] \/ x = [r EXCEPT !.pc = "idle"]
      BY <2>5, <2>8 DEF PushOf
    <3>2. QED BY <2>6, <3>1 DEF Task
  <2>10. /\ x.rows = users /\ x.snap = s /\ x.new = None /\ x.todo = {} /\ x.ok = FALSE
         /\ x.pc = "connect" /\ x.push = m /\ x.old = {} /\ x.then = "idle"
    BY <2>4, <2>9 DEF Task
  <2>11. m = {u \in Users : There(u) /\ row[u].source = "managed"}
    BY <2>1, <2>2, <2>4, <2>8
  <2>12. \A u \in Users : s[u] = IF There(u) THEN row[u] ELSE Unborn
    BY <2>2
  <2>13. QED BY <2>1, <2>6, <2>7, <2>10, <2>11, <2>12 DEF Sweeping, Like
<1>10. ASSUME StartImport(t) PROVE Sweeping(t) /\ Begins(t)
  <2>1. PICK x \in Task : x = [Idle EXCEPT !.pc = "i_list", !.rows = Users]
    BY IdleOK DEF Task
  <2>2. Begin(t, x) /\ row' = row /\ known' = known
    BY <1>10, <2>1 DEF StartImport
  <2>3. Begins(t) /\ Like(task'[t], x)
    BY <2>2, BeginIs
  <2>4. /\ x.pc = "i_list" /\ x.rows = Users /\ x.push = {} /\ x.todo = {} /\ x.ok = FALSE /\ x.new = None
        /\ x.old = {} /\ x.then = "idle" /\ \A u \in Users : x.snap[u] = Unborn
    BY <2>1 DEF Idle
  <2>5. QED BY <2>2, <2>3, <2>4 DEF Sweeping, Like
<1>11. item' = item /\ live' = live
  BY ZenonT(30) DEF Request, CreateUser, MakeDefault, AdoptNew, AdoptOver, StartUpdate, FindDefault, StartAssign, StartDelete,
         StartSync, StartImport
<1>12. QED BY <1>2, <1>3, <1>4, <1>5, <1>6, <1>7, <1>8, <1>9, <1>10, <1>11 DEF Request, Launches

LEMMA CrashIs ==
    ASSUME TypeOK, TypeOK', Crash
    PROVE  /\ \A t \in Tasks : task'[t] = Idle
           /\ \A t \in Tasks : \A h \in Mentioned(task[t]) : h \in live => h \in strays'
           /\ \A t \in Tasks : \A u \in task[t].rows : There(u) => u \in suspect' /\ u \in torn'
           /\ strays \subseteq strays' /\ suspect \subseteq suspect' /\ torn \subseteq torn'
           /\ row' = row /\ item' = item /\ live' = live /\ known' = known
BY DEF Crash, boxVars

LEMMA BoxRestartIs ==
    ASSUME TypeOK, TypeOK', Shape, BoxRestart
    PROVE  /\ \A t \in Tasks : Stays(t) /\ task'[t].alone = (task[t].pc = "idle")
           /\ live' = live \cap Foreign /\ \A u \in Users : u \in suspect' <=> There(u)
           /\ row' = row /\ item' = item /\ known' = known /\ strays' = strays /\ torn' = torn
<1>1. ASSUME NEW t \in Tasks PROVE Like(task'[t], task[t]) /\ task'[t].alone = (task[t].pc = "idle")
  <2>1. PICK q : q = [task[t] EXCEPT !.alone = At(t, "idle")]
    OBVIOUS
  <2>2. Like(q, task[t]) /\ q.alone = (task[t].pc = "idle")
    BY <2>1, TaskFields DEF Like, Task, At
  <2>3. task'[t] = q
    BY <2>1 DEF BoxRestart
  <2>4. QED BY <2>2, <2>3
<1>2. ASSUME NEW t \in Tasks, task[t].pc = "idle" PROVE task'[t] = task[t]
  <2>1. task[t] = Idle
    BY <1>2 DEF Shape, ShapeOf
  <2>2. PICK q : q = [Idle EXCEPT !.alone = TRUE]
    OBVIOUS
  <2>3. task'[t] = q
    BY <1>2, <2>1, <2>2 DEF BoxRestart, At
  <2>4. q = Idle
    BY <2>2 DEF Idle
  <2>5. QED BY <2>1, <2>3, <2>4
<1>3. QED BY <1>1, <1>2 DEF BoxRestart, Stays

-----------------------------------------------------------------------------
(* Shape and Rows are inductive *)

LEMMA UnbornIs == Unborn.is = "unborn" /\ Unborn.pw = None /\ Unborn.rh = None /\ Proper(Unborn)
BY DEF Unborn, Proper

LEMMA ShapeIdle == ShapeOf(Idle)
BY UnbornIs DEF ShapeOf, Idle, Single, OnBox, Importing

LEMMA PatchShape ==
    ASSUME TypeOK, TypeOK', Shape, NEW t \in Tasks, NEW u \in Users, PatchRow(t, u)
    PROVE  ShapeOf(task'[t])
<1>1. PICK r : r = task[t]
  OBVIOUS
<1>2. PICK q : q = task'[t]
  OBVIOUS
<1>3. /\ Saves(t, u) /\ r.pc = "patch"
      /\ q.snap[u].source = r.snap[u].source /\ q.snap[u].rh = r.snap[u].rh
      /\ q.snap[u].pw = IF r.new = None THEN r.snap[u].pw ELSE r.new
      /\ q.new = None /\ q.then = r.then /\ q.push = r.push
      /\ IF r.new = None THEN q.pc = "config" /\ q.old = {} ELSE q.pc = "hash" /\ q.old = {HashOf(r.snap[u])}
      /\ HashOf(r.snap[u]) \in {r.snap[u].rh, r.snap[u].pw}
      /\ r.snap[u].rh # None => HashOf(r.snap[u]) = r.snap[u].rh
  BY <1>1, <1>2, PatchRowIs
<1>4. /\ u \in r.rows /\ q.rows = r.rows /\ q.todo = r.todo /\ q.ok = r.ok
      /\ \A v \in Users : v # u => q.snap[v] = r.snap[v]
      /\ q.snap[u].is = r.snap[u].is
  BY <1>1, <1>2, <1>3 DEF Saves
<1>5. ShapeOf(r)
  BY <1>1 DEF Shape
<1>6. ShapeOf(q)
  BY <1>3, <1>4, <1>5 DEF ShapeOf, Single, OnBox, Importing, Kept, Proper
<1>7. QED BY <1>2, <1>6

LEMMA HashShape ==
    ASSUME TypeOK, TypeOK', Shape, NEW t \in Tasks, NEW u \in Users, WriteHash(t, u)
    PROVE  ShapeOf(task'[t])
<1>1. PICK r : r = task[t]
  OBVIOUS
<1>2. PICK q : q = task'[t]
  OBVIOUS
<1>3. /\ Saves(t, u) /\ r.pc = "hash" /\ q.pc = "config"
      /\ q.snap[u].source = r.snap[u].source /\ q.snap[u].pw = r.snap[u].pw /\ q.snap[u].rh = r.snap[u].pw
      /\ q.new = r.new /\ q.then = r.then /\ q.push = r.push /\ q.old = r.old
  BY <1>1, <1>2, WriteHashIs
<1>4. /\ u \in r.rows /\ q.rows = r.rows /\ q.todo = r.todo /\ q.ok = r.ok
      /\ \A v \in Users : v # u => q.snap[v] = r.snap[v]
      /\ q.snap[u].is = r.snap[u].is
  BY <1>1, <1>2, <1>3 DEF Saves
<1>5. ShapeOf(r)
  BY <1>1 DEF Shape
<1>6. ShapeOf(q)
  BY <1>3, <1>4, <1>5 DEF ShapeOf, Single, OnBox, Importing, Kept, Proper
<1>7. QED BY <1>2, <1>6

LEMMA ConfigShape ==
    ASSUME TypeOK, TypeOK', Shape, NEW t \in Tasks, NEW u \in Users, WriteConfig(t, u)
    PROVE  ShapeOf(task'[t])
<1>1. PICK r : r = task[t]
  OBVIOUS
<1>2. PICK q : q = task'[t]
  OBVIOUS
<1>3. /\ Saves(t, u) /\ r.pc = "config" /\ q.pc = "connect"
      /\ q.snap[u].source = r.snap[u].source /\ q.snap[u].config = r.snap[u].pw
      /\ q.snap[u].pw = r.snap[u].pw /\ q.snap[u].rh = r.snap[u].rh
      /\ q.new = r.new /\ q.then = r.then /\ q.push = {u} /\ q.old = r.old
  BY <1>1, <1>2, WriteConfigIs
<1>4. /\ u \in r.rows /\ q.rows = r.rows /\ q.todo = r.todo /\ q.ok = r.ok
      /\ \A v \in Users : v # u => q.snap[v] = r.snap[v]
      /\ q.snap[u].is = r.snap[u].is
  BY SMTT(30), <1>1, <1>2, <1>3 DEF Saves
<1>5. ShapeOf(r)
  BY <1>1 DEF Shape
<1>6. ShapeOf(q)
  BY <1>3, <1>4, <1>5 DEF ShapeOf, Single, OnBox, Importing, Kept, Proper
<1>7. QED BY <1>2, <1>6

LEMMA AdoptShape ==
    ASSUME TypeOK, TypeOK', Shape, NEW t \in Tasks, NEW u \in Users, AdoptRow(t, u)
    PROVE  ShapeOf(task'[t])
<1>1. PICK r : r = task[t]
  OBVIOUS
<1>2. PICK q : q = task'[t]
  OBVIOUS
<1>3. /\ Saves(t, u) /\ r.pc = "adopt" /\ q.pc = "connect"
      /\ q.snap[u].source = "managed" /\ q.snap[u].rh = q.snap[u].pw
      /\ q.snap[u].pw = IF r.new = None THEN r.snap[u].pw ELSE r.new
      /\ q.new = r.new /\ q.then = "idle" /\ q.push = {u} /\ q.old = {}
  BY <1>1, <1>2, AdoptRowIs
<1>4. /\ u \in r.rows /\ q.rows = r.rows /\ q.todo = r.todo /\ q.ok = r.ok
      /\ \A v \in Users : v # u => q.snap[v] = r.snap[v]
      /\ q.snap[u].is = r.snap[u].is
  BY <1>1, <1>2, <1>3 DEF Saves
<1>5. ShapeOf(r)
  BY <1>1 DEF Shape
<1>6. ShapeOf(q)
  BY <1>3, <1>4, <1>5 DEF ShapeOf, Single, OnBox, Importing, Kept, Proper
<1>7. QED BY <1>2, <1>6

LEMMA DefaultsShape ==
    ASSUME TypeOK, TypeOK', Shape, NEW t \in Tasks, NEW u \in Users, WriteDefaults(t, u)
    PROVE  ShapeOf(task'[t])
<1>1. PICK r : r = task[t]
  OBVIOUS
<1>2. PICK q : q = task'[t]
  OBVIOUS
<1>3. /\ Saves(t, u) /\ r.pc = "defaults"
      /\ q.snap[u].source = r.snap[u].source /\ q.snap[u].config = r.snap[u].pw
      /\ q.snap[u].pw = r.snap[u].pw /\ q.snap[u].rh = r.snap[u].pw /\ q.new = r.new
      /\ \/ q.pc = "connect" /\ q.then = "assign" /\ q.push = {u} /\ q.old = {}
         \/ q.pc = "assign" /\ q.then = r.then /\ q.push = r.push /\ q.old = r.old
  BY <1>1, <1>2, WriteDefaultsIs
<1>4. /\ u \in r.rows /\ q.rows = r.rows /\ q.todo = r.todo /\ q.ok = r.ok
      /\ \A v \in Users : v # u => q.snap[v] = r.snap[v]
      /\ q.snap[u].is = r.snap[u].is
  BY SMTT(30), <1>1, <1>2, <1>3 DEF Saves
<1>5. ShapeOf(r)
  BY <1>1 DEF Shape
<1>6. ShapeOf(q)
  BY <1>3, <1>4, <1>5 DEF ShapeOf, Single, OnBox, Importing, Kept, Proper
<1>7. QED BY <1>2, <1>6

LEMMA PurgeShape ==
    ASSUME TypeOK, TypeOK', Shape, NEW t \in Tasks, PurgeOld(t)
    PROVE  ShapeOf(task'[t])
<1>1. PICK r : r = task[t]
  OBVIOUS
<1>2. PICK q : q = task'[t]
  OBVIOUS
<1>3. Core(q, r) /\ r.pc = "connect" /\ q.pc = "list" /\ q.old = {} /\ q.todo = r.todo /\ q.ok = r.ok
  BY <1>1, <1>2, PurgeOldIs
<1>4. /\ q.rows = r.rows /\ q.snap = r.snap /\ q.new = r.new /\ q.push = r.push /\ q.then = r.then
  BY <1>3 DEF Core
<1>5. ShapeOf(r)
  BY <1>1 DEF Shape
<1>6. ShapeOf(q)
  BY <1>3, <1>4, <1>5 DEF ShapeOf, Single, OnBox, Importing, Kept, Proper
<1>7. QED BY <1>2, <1>6

LEMMA ListShape ==
    ASSUME TypeOK, TypeOK', Shape, NEW t \in Tasks, ListUsers(t)
    PROVE  ShapeOf(task'[t])
<1>1. PICK r : r = task[t]
  OBVIOUS
<1>2. PICK q : q = task'[t]
  OBVIOUS
<1>3. Core(q, r) /\ r.pc = "list" /\ q.pc = "apply" /\ q.old = r.old /\ q.todo = r.push /\ q.ok = TRUE
  BY <1>1, <1>2, ListUsersIs
<1>4. /\ q.rows = r.rows /\ q.snap = r.snap /\ q.new = r.new /\ q.push = r.push /\ q.then = r.then
  BY <1>3 DEF Core
<1>5. ShapeOf(r)
  BY <1>1 DEF Shape
<1>6. ShapeOf(q)
  BY <1>3, <1>4, <1>5 DEF ShapeOf, Single, OnBox, Importing, Kept, Proper
<1>7. QED BY <1>2, <1>6

LEMMA ApplyShape ==
    ASSUME TypeOK, TypeOK', Shape, NEW t \in Tasks, NEW u \in Users, ApplyUser(t, u)
    PROVE  ShapeOf(task'[t])
<1>1. PICK r : r = task[t]
  OBVIOUS
<1>2. PICK q : q = task'[t]
  OBVIOUS
<1>3. Core(q, r) /\ r.pc = "apply" /\ q.pc = "apply" /\ q.old = r.old /\ q.todo = r.todo \ {u} /\ q.ok = r.ok
  BY <1>1, <1>2, ApplyUserIs
<1>4. /\ q.rows = r.rows /\ q.snap = r.snap /\ q.new = r.new /\ q.push = r.push /\ q.then = r.then
  BY <1>3 DEF Core
<1>5. ShapeOf(r)
  BY <1>1 DEF Shape
<1>6. ShapeOf(q)
  BY <1>3, <1>4, <1>5 DEF ShapeOf, Single, OnBox, Importing, Kept, Proper
<1>7. QED BY <1>2, <1>6

LEMMA FailsShape ==
    ASSUME TypeOK, TypeOK', Shape, NEW t \in Tasks, NEW u \in Users, NEW told \in BOOLEAN, CommandFails(t, u, told)
    PROVE  ShapeOf(task'[t])
<1>1. PICK r : r = task[t]
  OBVIOUS
<1>2. PICK q : q = task'[t]
  OBVIOUS
<1>3. Core(q, r) /\ r.pc = "apply" /\ q.pc = "apply" /\ q.old = r.old /\ q.todo = r.todo \ {u} /\ q.ok = r.ok
  BY <1>1, <1>2, CommandFailsIs
<1>4. /\ q.rows = r.rows /\ q.snap = r.snap /\ q.new = r.new /\ q.push = r.push /\ q.then = r.then
  BY <1>3 DEF Core
<1>5. ShapeOf(r)
  BY <1>1 DEF Shape
<1>6. ShapeOf(q)
  BY <1>3, <1>4, <1>5 DEF ShapeOf, Single, OnBox, Importing, Kept, Proper
<1>7. QED BY <1>2, <1>6

\* Wherever the push of t ends.
LEMMA FoldShape ==
    ASSUME TypeOK, Shape, NEW t \in Tasks, NEW ok, NEW bad, NEW old, NEW alone, Folding(t, ok, bad, old, alone),
           old = {} \/ (old = task[t].old /\ task[t].pc = "apply"), task[t].pc \in {"connect", "list", "apply"}
    PROVE  ShapeOf(task'[t])
<1>1. PICK r : r = task[t]
  OBVIOUS
<1>2. PICK q : q = task'[t]
  OBVIOUS
<1>3. ShapeOf(r) /\ r.pc \in {"connect", "list", "apply"}
  BY <1>1 DEF Shape
<1>4. CASE q = Idle
  BY <1>2, <1>4, ShapeIdle
<1>5. CASE r.push = {} /\ r.then # "idle" /\ q.pc = r.then /\ q.rows = r.rows /\ Bare(q)
  <2>1. q.rows # {} => r.then = "unlink"
    BY <1>3, <1>5 DEF ShapeOf, OnBox
  <2>2. \A v \in Users : q.snap[v] = Unborn /\ Proper(q.snap[v]) /\ ~Kept(q, v)
    BY <1>5, UnbornIs DEF Bare, Kept
  <2>3. q.rows \subseteq Users /\ q.pc \in {"items", "assign", "unlink"}
    BY <1>1, <1>3, <1>5, TaskFields DEF ShapeOf, OnBox
  <2>4. \A v, w \in q.rows : v = w
    BY <1>3, <1>5 DEF ShapeOf, OnBox
  <2>5. ShapeOf(q)
    BY <1>5, <2>1, <2>2, <2>3, <2>4 DEF ShapeOf, Single, OnBox, Importing, Bare
  <2>6. QED BY <1>2, <2>5
<1>6. CASE /\ r.push # {} /\ q.pc = "fold" /\ q.rows = r.rows /\ q.snap = r.snap
           /\ q.new = r.new /\ q.push = r.push /\ q.then = r.then /\ q.todo = r.push
           /\ q.old = old
  <2>1. q.old = {}
    BY <1>1, <1>3, <1>6 DEF ShapeOf
  <2>2. ShapeOf(q)
    BY <1>3, <1>6, <2>1 DEF ShapeOf, Single, OnBox, Importing, Kept, Proper
  <2>3. QED BY <1>2, <2>2
<1>7. QED BY <1>1, <1>2, <1>4, <1>5, <1>6 DEF Folding

LEMMA FoldUserShape ==
    ASSUME TypeOK, TypeOK', Shape, NEW t \in Tasks, NEW u \in Users, FoldUser(t, u)
    PROVE  ShapeOf(task'[t])
<1>1. PICK r : r = task[t]
  OBVIOUS
<1>2. PICK q : q = task'[t]
  OBVIOUS
<1>3. ShapeOf(r) /\ r.pc = "fold"
  BY <1>1, FoldUserIs DEF Shape, FoldsUser
<1>4. CASE q = Idle
  BY <1>2, <1>4, ShapeIdle
<1>5. CASE /\ q.rows = r.rows /\ q.snap = r.snap /\ q.new = r.new /\ q.push = r.push /\ q.then = r.then
           /\ q.todo \subseteq r.todo /\ q.old = r.old /\ q.pc \in {"fold", r.then} /\ q.pc # "idle"
  <2>1. CASE q.pc = "fold"
    BY <1>2, <1>3, <1>5, <2>1 DEF ShapeOf, Single, OnBox, Importing, Kept, Proper
  <2>2. CASE q.pc # "fold"
    <3>1. q.pc = r.then /\ r.then # "unlink"
      BY <1>1, <1>3, <1>5, <2>2, FoldUserIs DEF ShapeOf, OnBox, FoldsUser
    <3>2. q.pc \in {"items", "assign"} /\ q.pc = r.then
      BY <1>3, <1>5, <2>2, <3>1 DEF ShapeOf, OnBox
    <3>3. ShapeOf(q)
      BY <1>3, <1>5, <3>2 DEF ShapeOf, Single, OnBox, Importing, Kept, Proper
    <3>4. QED BY <1>2, <3>3
  <2>3. QED BY <2>1, <2>2
<1>6. QED BY <1>1, <1>2, <1>4, <1>5, FoldUserIs DEF FoldsUser, Goes, Core

\* Steps at which a task changes nothing but its place.
LEMMA GoShape ==
    ASSUME TypeOK, Shape, NEW t \in Tasks, NEW step, Goes(t, step),
           (task[t].pc = "unlink" /\ step = "destroy") \/ (task[t].pc \in Importing /\ step \in Importing)
    PROVE  ShapeOf(task'[t])
<1>1. PICK r : r = task[t]
  OBVIOUS
<1>2. PICK q : q = task'[t]
  OBVIOUS
<1>3. ShapeOf(r)
  BY <1>1 DEF Shape
<1>4. /\ q.rows = r.rows /\ q.snap = r.snap /\ q.new = r.new /\ q.push = r.push /\ q.then = r.then
      /\ q.todo = r.todo /\ q.ok = r.ok /\ q.old = r.old
      /\ (r.pc = "unlink" /\ q.pc = "destroy") \/ (r.pc \in Importing /\ q.pc \in Importing)
  BY <1>1, <1>2 DEF Goes, Core
<1>5. ShapeOf(q)
  BY <1>3, <1>4 DEF ShapeOf, Single, OnBox, Importing, Kept, Proper
<1>6. QED BY <1>2, <1>5

LEMMA LaunchShape ==
    ASSUME TypeOK, TypeOK', Shape, Rows, Owner, NEW t \in Tasks, Launches(t)
    PROVE  ShapeOf(task'[t])
<1>1. PICK q : q = task'[t]
  OBVIOUS
<1>2. \A u \in Users : There(u) => Proper(row[u]) /\ row[u].source \in {"managed", "imported"}
  BY RowsOK DEF Rows, There, TypeOK
<1>3. ASSUME NEW u \in Users, NEW p \in Passwords \cup {None},
             Created(t, u, p) \/ DefaultMade(t, u, p) \/ Adopted(t, u, p)
      PROVE  ShapeOf(q)
  <2>1. /\ q.rows = {u} /\ q.todo = {} /\ ~q.ok /\ q.push = {}
        /\ \A v \in Users : v # u => q.snap[v] = Unborn
        /\ p \in Passwords
        /\ q.snap[u].is = "there" /\ q.snap[u].source = "managed" /\ q.snap[u].pw = p
        /\ \/ q.pc \in {"config", "adopt"} /\ q.snap[u].rh = p
           \/ q.pc = "defaults" /\ q.snap[u].rh = None
        /\ q.new = None /\ q.old = {} /\ q.then = "idle"
    BY <1>1, <1>3 DEF Created, DefaultMade, Adopted, Makes, Fresh1
  <2>2. QED BY SMTT(30), <2>1, UnbornIs DEF ShapeOf, Single, OnBox, Importing, Kept, Proper
<1>4. ASSUME NEW u \in Users, NEW p \in Passwords \cup {None}, Adopting(t, u, p) \/ Updating(t, u, p) \/ Reading(t, u)
      PROVE  /\ q.rows = {u} /\ q.todo = {} /\ ~q.ok /\ q.push = {}
             /\ \A v \in Users : v # u => q.snap[v] = Unborn
             /\ q.snap[u].is = "there" /\ Proper(q.snap[u]) /\ q.snap[u].source \in {"managed", "imported"}
             /\ q.snap[u] = row[u]
  BY <1>1, <1>2, <1>4 DEF Adopting, Updating, Reading, Reads, Fresh1, There
<1>5. ASSUME NEW u \in Users, NEW p \in Passwords \cup {None}, Adopting(t, u, p)
      PROVE  ShapeOf(q)
  <2>1. /\ q.rows = {u} /\ q.todo = {} /\ ~q.ok /\ q.push = {}
        /\ \A v \in Users : v # u => q.snap[v] = Unborn
        /\ q.snap[u].is = "there" /\ Proper(q.snap[u])
    BY <1>4, <1>5
  <2>2. q.pc = "adopt" /\ q.new = p /\ q.old = {} /\ q.then = "idle" /\ p \in Passwords
    BY <1>1, <1>5 DEF Adopting
  <2>3. q.snap[u].pw # p
    <3>1. There(u) /\ p \in Passwords \ known /\ q.snap[u] = row[u] /\ Proper(row[u])
      BY <1>2, <1>4, <1>5 DEF Adopting, Reads
    <3>2. CASE row[u].source = "managed"
      <4>1. row[u].pw \in Passwords => row[u].pw \in known
        BY <3>1, <3>2 DEF Owner, Has, RowHas
      <4>2. QED BY <3>1, <4>1
    <3>3. CASE row[u].source = "imported"
      BY <3>1, <3>3 DEF Proper, There
    <3>4. QED BY <1>2, <3>1, <3>2, <3>3
  <2>4. QED BY <2>1, <2>2, <2>3, UnbornIs DEF ShapeOf, Single, OnBox, Importing, Kept
<1>6. ASSUME NEW u \in Users, NEW p \in Passwords \cup {None}, Updating(t, u, p)
      PROVE  ShapeOf(q)
  <2>1. /\ q.rows = {u} /\ q.todo = {} /\ ~q.ok /\ q.push = {}
        /\ \A v \in Users : v # u => q.snap[v] = Unborn
        /\ q.snap[u].is = "there" /\ Proper(q.snap[u]) /\ q.snap[u].source = "managed"
    BY <1>4, <1>6 DEF Updating
  <2>2. q.pc = "patch" /\ q.new = p /\ q.old = {} /\ q.then = "items"
    BY <1>1, <1>6 DEF Updating
  <2>3. QED BY <2>1, <2>2, UnbornIs DEF ShapeOf, Single, OnBox, Importing, Kept
<1>7. ASSUME NEW u \in Users, Reading(t, u)
      PROVE  ShapeOf(q)
  <2>1. /\ q.rows = {u} /\ q.todo = {} /\ ~q.ok /\ q.push = {}
        /\ \A v \in Users : v # u => q.snap[v] = Unborn
        /\ q.snap[u].is = "there" /\ Proper(q.snap[u]) /\ q.new = None
    BY <1>1, <1>4, <1>7 DEF Reading
  <2>2. \/ q.snap[u].source = "managed" /\ q.pc \in {"defaults", "assign"} /\ q.old = {} /\ q.then = "idle"
        \/ q.snap[u].source # "managed" /\ q.pc = "unlink" /\ q.old = {} /\ q.then = "idle"
        \/ q.snap[u].source = "managed" /\ q.pc = "connect" /\ q.old = {HashOf(q.snap[u])} /\ q.then = "unlink"
    BY <1>1, <1>4, <1>7 DEF Reading
  <2>3. CASE q.snap[u].source = "managed" /\ q.pc = "connect" /\ q.old = {HashOf(q.snap[u])} /\ q.then = "unlink"
    <3>1. HashOf(q.snap[u]) \in Passwords \cup {None} /\ (q.snap[u].rh # None => HashOf(q.snap[u]) = q.snap[u].rh)
      BY <2>1, <2>3 DEF Proper, HashOf
    <3>2. QED BY <2>1, <2>3, <3>1, UnbornIs DEF ShapeOf, Single, OnBox, Importing, Kept
  <2>4. CASE q.snap[u].source = "managed" /\ q.pc \in {"defaults", "assign"} /\ q.old = {} /\ q.then = "idle"
    BY <2>1, <2>4, UnbornIs DEF ShapeOf, Single, OnBox, Importing, Kept
  <2>5. CASE q.snap[u].source # "managed" /\ q.pc = "unlink" /\ q.old = {} /\ q.then = "idle"
    BY <2>1, <2>5, UnbornIs DEF ShapeOf, Single, OnBox, Importing, Kept
  <2>6. QED BY <2>2, <2>3, <2>4, <2>5
<1>8. CASE Sweeping(t)
  <2>1. q.todo = {} /\ ~q.ok /\ q.new = None /\ q.old = {} /\ q.then = "idle"
    BY <1>1, <1>8 DEF Sweeping
  <2>2. CASE /\ q.pc = "connect" /\ q.rows = {u \in Users : There(u)}
             /\ \A u \in Users : q.snap[u] = IF There(u) THEN row[u] ELSE Unborn
             /\ q.push = {u \in Users : There(u) /\ row[u].source = "managed"}
    <3>1. \A u \in Users : /\ Proper(q.snap[u]) /\ (u \notin q.rows => q.snap[u] = Unborn)
                           /\ (u \in q.rows => q.snap[u].is = "there")
                           /\ (u \in q.push <=> Kept(q, u))
      BY <1>2, <2>2, UnbornIs DEF Kept, There
    <3>2. q.rows \subseteq Users /\ q.push \subseteq q.rows
      BY <2>2
    <3>3. q.push = {u \in q.rows : Kept(q, u)}
      BY <3>1, <3>2
    <3>4. ShapeOf(q)
      BY <2>1, <2>2, <3>1, <3>2, <3>3 DEF ShapeOf, Single, OnBox, Importing
    <3>5. QED BY <1>1, <3>4
  <2>3. CASE q.pc = "i_list" /\ q.rows = Users /\ q.push = {} /\ \A u \in Users : q.snap[u] = Unborn
    <3>1. \A u \in Users : Proper(q.snap[u]) /\ (u \notin q.rows => q.snap[u] = Unborn)
      BY <2>3, UnbornIs
    <3>2. ShapeOf(q)
      BY <2>1, <2>3, <3>1 DEF ShapeOf, Single, OnBox, Importing
    <3>3. QED BY <1>1, <3>2
  <2>4. QED BY <1>1, <1>8, <2>2, <2>3 DEF Sweeping
<1>9. QED BY <1>1, <1>3, <1>5, <1>6, <1>7, <1>8 DEF Launches

LEMMA LikeShape ==
    ASSUME NEW r, NEW q, ShapeOf(r), Like(q, r), r.pc = "idle" => q = r
    PROVE  ShapeOf(q)
BY DEF ShapeOf, Like, Kept

LEMMA RowStepShape ==
    ASSUME TypeOK, TypeOK', Shape, NEW t \in Tasks, RowStep(t)
    PROVE  Shape'
<1>0. PICK u \in Users :
        \/ PatchRow(t, u) \/ WriteHash(t, u) \/ WriteConfig(t, u) \/ WriteItems(t, u)
        \/ WriteDefaults(t, u)
        \/ Assign(t, u) \/ UnlinkItems(t, u) \/ DestroyRow(t, u) \/ AdoptRow(t, u)
  BY DEF RowStep
<1>1. ASSUME Others(t), ShapeOf(task'[t]) PROVE Shape'
  BY <1>1 DEF Others, Shape
<1>2. CASE PatchRow(t, u)
  BY <1>1, <1>2, PatchShape, PatchRowIs DEF Saves
<1>3. CASE WriteHash(t, u)
  BY <1>1, <1>3, HashShape, WriteHashIs DEF Saves
<1>4. CASE WriteConfig(t, u)
  BY <1>1, <1>4, ConfigShape, WriteConfigIs DEF Saves
<1>5. CASE WriteDefaults(t, u)
  BY <1>1, <1>5, DefaultsShape, WriteDefaultsIs DEF Saves
<1>6. CASE AdoptRow(t, u)
  BY <1>1, <1>6, AdoptShape, AdoptRowIs DEF Saves
<1>7. ASSUME Ends(t) PROVE Shape'
  BY <1>1, <1>7, ShapeIdle DEF Ends
<1>8. CASE WriteItems(t, u) \/ Assign(t, u) \/ DestroyRow(t, u)
  BY <1>7, <1>8, WriteItemsIs, AssignIs, DestroyRowIs
<1>9. CASE UnlinkItems(t, u)
  <2>1. Goes(t, "destroy") /\ task[t].pc = "unlink"
    BY <1>9, UnlinkItemsIs
  <2>2. QED BY <1>1, <2>1, GoShape DEF Goes
<1>10. QED BY <1>0, <1>2, <1>3, <1>4, <1>5, <1>6, <1>8, <1>9

LEMMA BoxStepShape ==
    ASSUME TypeOK, TypeOK', Shape, NEW t \in Tasks, BoxStep(t)
    PROVE  Shape'
<1>1. ASSUME Others(t), ShapeOf(task'[t]) PROVE Shape'
  BY <1>1 DEF Others, Shape
<1>2. CASE BoxUnreachable(t)
  <2>1. Folding(t, FALSE, task[t].bad, {}, task[t].alone) /\ task[t].pc \in {"connect", "list"}
    BY <1>2, BoxUnreachableIs
  <2>2. ShapeOf(task'[t])
    BY <2>1, FoldShape
  <2>3. QED BY <1>1, <2>1, <2>2 DEF Folding
<1>3. CASE Verify(t)
  <2>1. PICK bad \in SUBSET Users : Folding(t, task[t].ok, bad, task[t].old, task[t].alone)
    BY <1>3, VerifyIs
  <2>2. task[t].pc = "apply"
    BY <1>3, VerifyIs
  <2>3. ShapeOf(task'[t])
    BY <2>1, <2>2, FoldShape
  <2>4. QED BY <1>1, <2>1, <2>3 DEF Folding
<1>4. CASE SkipVerify(t)
  <2>1. Folding(t, task[t].ok, task[t].bad, task[t].old, FALSE) /\ task[t].pc = "apply"
    BY <1>4, SkipVerifyIs
  <2>2. ShapeOf(task'[t])
    BY <2>1, FoldShape
  <2>3. QED BY <1>1, <2>1, <2>2 DEF Folding
<1>5. CASE PurgeOld(t)
  BY <1>1, <1>5, PurgeOldIs, PurgeShape
<1>6. CASE ListUsers(t)
  BY <1>1, <1>6, ListUsersIs, ListShape
<1>7. ASSUME NEW u \in Users, ApplyUser(t, u) PROVE Shape'
  BY <1>1, <1>7, ApplyUserIs, ApplyShape
<1>8. ASSUME NEW u \in Users, NEW told \in BOOLEAN, CommandFails(t, u, told) PROVE Shape'
  BY <1>1, <1>8, CommandFailsIs, FailsShape
<1>9. ASSUME NEW u \in Users, FoldUser(t, u) PROVE Shape'
  BY <1>1, <1>9, FoldUserIs, FoldUserShape DEF FoldsUser
<1>10. QED BY <1>2, <1>3, <1>4, <1>5, <1>6, <1>7, <1>8, <1>9 DEF BoxStep

LEMMA ImportStepShape ==
    ASSUME TypeOK, TypeOK', Shape, NEW t \in Tasks, ImportStep(t)
    PROVE  Shape'
<1>1. ASSUME Others(t), ShapeOf(task'[t]) PROVE Shape'
  BY <1>1 DEF Others, Shape
<1>2. ASSUME Ends(t) PROVE Shape'
  BY <1>1, <1>2, ShapeIdle DEF Ends
<1>3. ASSUME NEW step \in Importing, Goes(t, step), task[t].pc \in Importing PROVE Shape'
  BY <1>1, <1>3, GoShape DEF Goes
<1>4. CASE FetchLive(t)
  BY <1>2, <1>3, <1>4, FetchLiveIs DEF Importing
<1>5. CASE FindKnown(t)
  BY <1>2, <1>3, <1>5, FindKnownIs DEF Importing
<1>6. CASE EndImport(t)
  BY <1>2, <1>6, EndImportIs
<1>7. ASSUME NEW u \in Users, NEW h \in Passwords, ImportOne(t, u, h) PROVE Shape'
  BY <1>3, <1>7, ImportOneIs DEF Importing
<1>8. QED BY <1>4, <1>5, <1>6, <1>7 DEF ImportStep

LEMMA ShapeStep ==
    ASSUME TypeOK, TypeOK', Shape, Rows, Owner, [Next]_vars, EditImported = FALSE
    PROVE  Shape'
<1>1. ASSUME NEW t \in Tasks, Request(t) PROVE Shape'
  <2>1. Launches(t)
    BY <1>1, LaunchIs
  <2>2. ShapeOf(task'[t])
    BY <2>1, LaunchShape
  <2>3. \A o \in Tasks : o # t => Stays(o)
    BY <2>1 DEF Launches, Begins
  <2>4. ASSUME NEW o \in Tasks, o # t PROVE ShapeOf(task'[o])
    BY <2>3, <2>4, LikeShape DEF Stays, Shape
  <2>5. QED BY <2>2, <2>4 DEF Shape
<1>2. CASE Crash
  BY <1>2, CrashIs, ShapeIdle DEF Shape
<1>3. CASE BoxRestart
  <2>1. ASSUME NEW o \in Tasks PROVE ShapeOf(task'[o])
    <3>1. Stays(o)
      BY <1>3, BoxRestartIs
    <3>2. QED BY <3>1, LikeShape DEF Stays, Shape
  <2>2. QED BY <2>1 DEF Shape
<1>4. CASE UNCHANGED vars
  BY <1>4 DEF vars, Shape
<1>5. ASSUME NEW t \in Tasks, RowStep(t) \/ BoxStep(t) \/ ImportStep(t) PROVE Shape'
  BY <1>5, RowStepShape, BoxStepShape, ImportStepShape
<1>6. QED BY <1>1, <1>2, <1>3, <1>4, <1>5 DEF Next

-----------------------------------------------------------------------------
(* What a step of a task may do to what the others see *)

\* t writes a row it holds, and the passwords are its own.
Writes(t, u) ==
    LET r == task[t]
        q == task'[t]
        b == r.snap[u]
        a == q.snap[u]
    IN  /\ Saves(t, u) /\ Holds(t, u) /\ a.source = "managed"
        /\ r.pc \in {"patch", "hash", "config", "defaults", "adopt"} /\ q.pc \in {"hash", "config", "connect", "assign"}
        /\ q.pc = "assign" => q.push = {}
        /\ \/ /\ b.source = "managed" /\ a.pw \in {b.pw, r.new} /\ a.rh \in {b.rh, a.pw}
              /\ q.old \subseteq r.old \cup {b.rh, b.pw}
           \/ b.source # "managed" /\ a.pw = r.new /\ a.rh = r.new /\ q.old = {}
        /\ q.new \in {r.new, None}
        /\ strays \subseteq strays' /\ suspect \subseteq suspect' /\ torn \subseteq torn'

LEMMA WritesIs ==
    ASSUME TypeOK, TypeOK', Shape, NEW t \in Tasks, NEW u \in Users,
           PatchRow(t, u) \/ WriteHash(t, u) \/ WriteConfig(t, u) \/ WriteDefaults(t, u) \/ AdoptRow(t, u)
    PROVE  Writes(t, u)
<1>1. PICK r : r = task[t]
  OBVIOUS
<1>2. PICK q : q = task'[t]
  OBVIOUS
<1>3. ShapeOf(r)
  BY <1>1 DEF Shape
<1>4. CASE PatchRow(t, u)
  <2>1. /\ Saves(t, u) /\ r.pc = "patch"
        /\ q.snap[u].source = r.snap[u].source /\ q.snap[u].rh = r.snap[u].rh
        /\ q.snap[u].pw = IF r.new = None THEN r.snap[u].pw ELSE r.new
        /\ q.new = None /\ q.old \subseteq {r.snap[u].rh, r.snap[u].pw} /\ q.pc \in {"hash", "config"}
        /\ strays' = strays /\ suspect' = suspect /\ torn' = torn
    BY <1>1, <1>2, <1>4, PatchRowIs
  <2>2. Kept(r, u)
    BY <1>1, <1>3, <2>1 DEF ShapeOf, Single, Saves
  <2>3. QED BY <1>1, <1>2, <2>1, <2>2 DEF Writes, Kept, Holds
<1>5. CASE WriteHash(t, u)
  <2>1. /\ Saves(t, u) /\ r.pc = "hash" /\ q.pc = "config"
        /\ q.snap[u].source = r.snap[u].source /\ q.snap[u].rh = r.snap[u].pw
        /\ q.snap[u].pw = r.snap[u].pw /\ q.new = r.new /\ q.old = r.old
        /\ strays' = strays /\ suspect' = suspect /\ torn' = torn
    BY SMTT(30), <1>1, <1>2, <1>5, WriteHashIs
  <2>2. Kept(r, u)
    BY <1>1, <1>3, <2>1 DEF ShapeOf, Single, Saves
  <2>3. QED BY <1>1, <1>2, <2>1, <2>2 DEF Writes, Kept, Holds
<1>6. CASE WriteConfig(t, u)
  <2>1. /\ Saves(t, u) /\ r.pc = "config" /\ q.pc = "connect"
        /\ q.snap[u].source = r.snap[u].source /\ q.snap[u].rh = r.snap[u].rh
        /\ q.snap[u].pw = r.snap[u].pw /\ q.new = r.new /\ q.old = r.old
        /\ strays' = strays /\ suspect' = suspect /\ torn' = torn
    BY <1>1, <1>2, <1>6, WriteConfigIs
  <2>2. Kept(r, u)
    BY <1>1, <1>3, <2>1 DEF ShapeOf, Single, Saves
  <2>3. QED BY <1>1, <1>2, <2>1, <2>2 DEF Writes, Kept, Holds
<1>7. CASE WriteDefaults(t, u)
  <2>1. /\ Saves(t, u) /\ r.pc = "defaults" /\ (q.pc = "connect" \/ (q.pc = "assign" /\ q.push = r.push))
        /\ q.snap[u].source = r.snap[u].source /\ q.snap[u].rh = r.snap[u].pw
        /\ q.snap[u].pw = r.snap[u].pw /\ q.new = r.new /\ (q.old = r.old \/ q.old = {})
        /\ strays' = strays /\ (suspect' = suspect \/ suspect' = suspect \cup {u}) /\ torn' = torn
    BY <1>1, <1>2, <1>7, WriteDefaultsIs
  <2>2. Kept(r, u)
    BY <1>1, <1>3, <2>1 DEF ShapeOf, Single, Saves
  <2>3. r.push = {}
    BY <1>3, <2>1 DEF ShapeOf
  <2>4. QED BY <1>1, <1>2, <2>1, <2>2, <2>3 DEF Writes, Kept, Holds
<1>8. CASE AdoptRow(t, u)
  <2>1. /\ Saves(t, u) /\ r.pc = "adopt" /\ q.pc = "connect"
        /\ q.snap[u].source = "managed" /\ q.snap[u].rh = q.snap[u].pw
        /\ q.snap[u].pw = IF r.new = None THEN r.snap[u].pw ELSE r.new
        /\ q.new = r.new /\ q.old = {}
        /\ strays \subseteq strays' /\ suspect' = suspect /\ torn \subseteq torn'
    BY <1>1, <1>2, <1>8, AdoptRowIs
  <2>2. u \in r.rows /\ r.snap[u].is = "there" /\ (r.new = None => Kept(r, u))
    BY <1>1, <1>3, <2>1 DEF ShapeOf, Single, Saves
  <2>3. QED BY <1>1, <1>2, <2>1, <2>2 DEF Writes, Kept, Holds
<1>9. QED BY <1>4, <1>5, <1>6, <1>7, <1>8

\* t writes no row, and forgets rather than learns.
Stills(t) ==
    LET r == task[t]
        q == task'[t]
    IN  /\ Others(t) /\ row' = row /\ known' = known /\ strays \subseteq strays'
        /\ \A u \in Users : (u \in q.rows => u \in r.rows) /\ (q.snap[u] = r.snap[u] \/ q.snap[u] = Unborn)
        /\ q.old \subseteq r.old /\ q.new \in {r.new, None}
        /\ \A u \in Users : q.snap[u].is = "there" /\ q.alone => r.alone
        /\ \A u \in Users : /\ u \in suspect => u \in suspect'
                            /\ u \in torn => u \in torn' \/ (r.alone /\ Holds(t, u))
        /\ \A u \in Users : q.snap[u].is = "there" =>
              /\ r.pc \notin {"items", "assign", "fold", "hash"} /\ q.pc \notin {"items", "assign", "hash", "patch"}
              /\ q.push = r.push /\ (r.ok => q.ok) /\ (q.pc = "fold" => q.todo = q.push)
        /\ \A u \in Users : Holds(t, u) /\ q.snap[u].is # "there" =>
              r.pc \in {"items", "assign"} \/ (r.push = {} /\ r.pc # "hash")
        /\ q.pc # "patch"

LEMMA EndsStill ==
    ASSUME TypeOK, NEW t \in Tasks, Ends(t), row' = row, known' = known, strays \subseteq strays', suspect' = suspect,
           task[t].pc \in {"items", "assign"} \/ \A u \in Users : ~Holds(t, u),
           torn' = torn \/ \E u \in Users : Holds(t, u) /\ torn' = (IF task[t].alone THEN torn \ {u} ELSE torn)
    PROVE  Stills(t)
<1>1. /\ Others(t) /\ task'[t].rows = {} /\ (\A u \in Users : task'[t].snap[u] = Unborn)
      /\ task'[t].old = {} /\ task'[t].new = None /\ task'[t].pc = "idle"
  BY DEF Ends, Idle
<1>2. QED BY <1>1, UnbornIs DEF Stills

LEMMA GoesStill ==
    ASSUME TypeOK, NEW t \in Tasks, NEW step, Goes(t, step), {task[t].pc, step} \subseteq {"unlink", "destroy"} \cup Importing,
           row' = row, known' = known, strays \subseteq strays',
           suspect' = suspect, torn' = torn
    PROVE  Stills(t)
BY DEF Stills, Goes, Core, Importing, Holds

LEMMA FoldStill ==
    ASSUME TypeOK, NEW t \in Tasks, NEW ok, NEW bad, NEW old, NEW alone, Folding(t, ok, bad, old, alone),
           old \subseteq task[t].old, alone => task[t].alone, task[t].ok => ok,
           task[t].pc \in {"connect", "list", "apply"}, ShapeOf(task[t]), row' = row, known' = known, strays \subseteq strays',
           suspect \subseteq suspect', torn' = torn
    PROVE  Stills(t)
<1>1. CASE task'[t] = Idle /\ task[t].push = {}
  <2>1. /\ task'[t].rows = {} /\ (\A u \in Users : task'[t].snap[u] = Unborn)
        /\ task'[t].old = {} /\ task'[t].new = None /\ task'[t].pc = "idle"
    BY <1>1 DEF Idle
  <2>2. QED BY <1>1, <2>1, UnbornIs DEF Folding, Stills
<1>2. CASE task'[t].rows = task[t].rows /\ Bare(task'[t]) /\ task[t].push = {} /\ task'[t].pc # "patch"
  BY <1>2, UnbornIs DEF Folding, Stills, Bare
<1>3. CASE /\ task'[t].rows = task[t].rows /\ task'[t].snap = task[t].snap /\ task'[t].new = task[t].new
           /\ task'[t].old = old /\ task'[t].alone = alone /\ task'[t].pc = "fold" /\ task'[t].push = task[t].push
           /\ task'[t].todo = task[t].push /\ task'[t].ok = ok
  BY <1>3 DEF Folding, Stills, Holds
<1>4. task[t].then # "patch"
  BY DEF ShapeOf, OnBox
<1>5. QED BY <1>1, <1>2, <1>3, <1>4 DEF Folding

LEMMA CoreStill ==
    ASSUME TypeOK, NEW t \in Tasks, Others(t), Core(task'[t], task[t]), task'[t].old \subseteq task[t].old,
           task[t].pc \in {"connect", "list", "apply"}, task'[t].pc \in {"connect", "list", "apply"},
           task[t].ok => task'[t].ok,
           row' = row, known' = known, strays \subseteq strays', suspect' = suspect, torn' = torn
    PROVE  Stills(t)
BY DEF Stills, Core, Holds

LEMMA StillsIs ==
    ASSUME TypeOK, TypeOK', Shape, NEW t \in Tasks, RowStep(t) \/ BoxStep(t) \/ ImportStep(t)
    PROVE  \/ Stills(t)
           \/ \E u \in Users : Writes(t, u)
           \/ \E u \in Users : FoldsUser(t, u)
           \/ \E u \in Users : DestroyRow(t, u)
           \/ \E u \in Users, h \in Passwords : ImportOne(t, u, h)
<1>1. ASSUME NEW u \in Users,
             PatchRow(t, u) \/ WriteHash(t, u) \/ WriteConfig(t, u) \/ WriteDefaults(t, u) \/ AdoptRow(t, u)
      PROVE  Writes(t, u)
  BY <1>1, WritesIs
<1>2. ASSUME NEW u \in Users, WriteItems(t, u) PROVE Stills(t)
  <2>1. /\ Ends(t) /\ task[t].pc = "items" /\ u \in task[t].rows
        /\ torn' = (IF task[t].alone THEN torn \ {u} ELSE torn)
        /\ row' = row /\ known' = known /\ strays' = strays /\ suspect' = suspect
    BY <1>2, WriteItemsIs
  <2>2. Holds(t, u)
    BY <2>1 DEF Shape, ShapeOf, Single, Holds
  <2>3. QED BY <2>1, <2>2, EndsStill
<1>3. ASSUME NEW u \in Users, Assign(t, u) PROVE Stills(t)
  BY <1>3, AssignIs, EndsStill
<1>4. ASSUME NEW u \in Users, UnlinkItems(t, u) PROVE Stills(t)
  BY <1>4, UnlinkItemsIs, GoesStill
<1>5. ASSUME BoxUnreachable(t) PROVE Stills(t)
  <2>1. /\ Folding(t, FALSE, task[t].bad, {}, task[t].alone) /\ strays' = strays \cup (task[t].old \cap live)
        /\ row' = row /\ known' = known /\ suspect' = suspect /\ torn' = torn
    BY <1>5, BoxUnreachableIs
  <2>2. \A ok, none : ok = FALSE /\ none = {} => Folding(t, ok, task[t].bad, none, task[t].alone)
    BY <2>1
  <2>3. PICK ok, none : ok = FALSE /\ none = {}
    OBVIOUS
  <2>4. Folding(t, ok, task[t].bad, none, task[t].alone) /\ none \subseteq task[t].old
        /\ strays \subseteq strays' /\ suspect \subseteq suspect'
    BY <2>1, <2>2, <2>3
  <2>5. row' = row /\ known' = known /\ torn' = torn /\ ShapeOf(task[t]) /\ ~task[t].ok
        /\ task[t].pc \in {"connect", "list"}
    BY <1>5, <2>1, BoxUnreachableIs DEF Shape, ShapeOf
  <2>6. QED BY <2>4, <2>5, FoldStill
<1>6. ASSUME Verify(t) PROVE Stills(t)
  <2>1. PICK bad \in SUBSET Users : Folding(t, task[t].ok, bad, task[t].old, task[t].alone)
    BY <1>6, VerifyIs
  <2>2. row' = row /\ known' = known /\ suspect' = suspect /\ torn' = torn /\ strays' = strays
        /\ task[t].pc = "apply" /\ ShapeOf(task[t])
    BY <1>6, VerifyIs DEF Shape
  <2>3. QED BY <2>1, <2>2, FoldStill
<1>7. ASSUME SkipVerify(t) PROVE Stills(t)
  <2>1. /\ Folding(t, task[t].ok, task[t].bad, task[t].old, FALSE) /\ strays' = strays
        /\ row' = row /\ known' = known /\ suspect \subseteq suspect' /\ torn' = torn
        /\ task[t].pc = "apply" /\ ShapeOf(task[t])
    BY <1>7, SkipVerifyIs DEF Shape
  <2>2. QED BY <2>1, FoldStill
<1>8. ASSUME PurgeOld(t) PROVE Stills(t)
  BY <1>8, PurgeOldIs, CoreStill
<1>9. ASSUME ListUsers(t) PROVE Stills(t)
  BY <1>9, ListUsersIs, CoreStill
<1>10. ASSUME NEW u \in Users, ApplyUser(t, u) PROVE Stills(t)
  BY <1>10, ApplyUserIs, CoreStill
<1>11. ASSUME NEW u \in Users, NEW told \in BOOLEAN, CommandFails(t, u, told) PROVE Stills(t)
  BY <1>11, CommandFailsIs, CoreStill
<1>12. ASSUME NEW u \in Users, FoldUser(t, u) PROVE FoldsUser(t, u)
  BY <1>12, FoldUserIs
<1>20. ASSUME task[t].pc \in Importing PROVE \A u \in Users : ~Holds(t, u)
  BY <1>20, UnbornIs DEF Shape, ShapeOf, Holds
<1>13. ASSUME FetchLive(t) PROVE Stills(t)
  BY <1>13, <1>20, FetchLiveIs, EndsStill, GoesStill DEF Importing
<1>14. ASSUME FindKnown(t) PROVE Stills(t)
  BY <1>14, FindKnownIs, GoesStill DEF Importing
<1>15. ASSUME EndImport(t) PROVE Stills(t)
  BY <1>15, <1>20, EndImportIs, EndsStill DEF Importing
<1>16. ASSUME RowStep(t)
       PROVE  Stills(t) \/ (\E u \in Users : Writes(t, u)) \/ (\E u \in Users : DestroyRow(t, u))
  BY <1>1, <1>2, <1>3, <1>4, <1>16 DEF RowStep
<1>17. ASSUME BoxStep(t) PROVE Stills(t) \/ (\E u \in Users : FoldsUser(t, u))
  BY <1>5, <1>6, <1>7, <1>8, <1>9, <1>10, <1>11, <1>12, <1>17 DEF BoxStep
<1>18. ASSUME ImportStep(t) PROVE Stills(t) \/ (\E u \in Users, h \in Passwords : ImportOne(t, u, h))
  BY <1>13, <1>14, <1>15, <1>18 DEF ImportStep
<1>19. QED BY <1>16, <1>17, <1>18

RowMoves(t, u) ==
    \/ row'[u] = row[u]
    \/ row[u].is = "unborn" /\ row'[u].is = "there" /\ row'[u].source = "imported" /\ row'[u].pw = Placeholder
       /\ row'[u].rh \in Passwords /\ At(t, "i_create") /\ row'[u].rh \in task[t].listed
    \/ u \in task[t].rows /\ row'[u].is = "gone" /\ At(t, "destroy")
    \/ /\ Holds(t, u) /\ There(u) /\ row'[u].is = "there" /\ row'[u].source = "managed"
       /\ row'[u].pw = row[u].pw \/ row'[u].pw \in Mentioned(task[t])
       /\ row'[u].rh = row[u].rh \/ row'[u].rh \in Mentioned(task[t])
       /\ row'[u].pw \in Passwords /\ row'[u].rh \in Passwords \cup {None}
       /\ row[u].source = "managed" \/ (row'[u].pw \in Mentioned(task[t]) /\ row'[u].rh \in Mentioned(task[t]))
       /\ \A h \in Passwords : h \in {row'[u].pw, row'[u].rh} => RowHas(u, h) \/ TaskHas(t, u, h)

Moves(t) ==
    LET r == task[t]
        q == task'[t]
    IN  /\ Others(t) /\ known' = known /\ strays \subseteq strays'
        /\ \A u \in Users :
              /\ u \in q.rows => u \in r.rows
              /\ Holds(t, u)' => Holds(t, u) /\ (q.alone => r.alone)
              /\ Holds(t, u)' => q.snap[u] = r.snap[u] \/ row'[u].is # "there" \/ row'[u].source = "managed"
              /\ RowMoves(t, u)
              /\ u \in suspect => u \in suspect' \/ row'[u].is # "there" \/ (r.alone /\ Holds(t, u))
              /\ u \in torn => u \in torn' \/ row'[u].is # "there" \/ (r.alone /\ Holds(t, u))
              /\ \A h \in Passwords : TaskHas(t, u, h)' => TaskHas(t, u, h)
        /\ Mentioned(q) \subseteq Mentioned(r)

LEMMA MentionsIs ==
    \A r \in Task : \A h : h \in Mentioned(r) <=>
        h \in Passwords /\ ((\E u \in r.rows : h = r.snap[u].pw \/ h = r.snap[u].rh) \/ h \in r.old \/ h = r.new)
<1> SUFFICES ASSUME NEW r \in Task, NEW h
             PROVE  h \in Mentioned(r) <=>
                        /\ h \in Passwords
                        /\ (\E u \in r.rows : h = r.snap[u].pw \/ h = r.snap[u].rh) \/ h \in r.old \/ h = r.new
  OBVIOUS
<1>1. h \in UNION {{r.snap[u].pw, r.snap[u].rh} : u \in r.rows}
        <=> \E u \in r.rows : h = r.snap[u].pw \/ h = r.snap[u].rh
  <2>1. ASSUME NEW u \in r.rows, h = r.snap[u].pw \/ h = r.snap[u].rh
        PROVE  h \in UNION {{r.snap[v].pw, r.snap[v].rh} : v \in r.rows}
    BY <2>1
  <2>2. ASSUME h \in UNION {{r.snap[v].pw, r.snap[v].rh} : v \in r.rows}
        PROVE  \E u \in r.rows : h = r.snap[u].pw \/ h = r.snap[u].rh
    BY <2>2
  <2>3. QED BY <2>1, <2>2
<1>2. PICK U : U = UNION {{r.snap[u].pw, r.snap[u].rh} : u \in r.rows}
  OBVIOUS
<1>3. Mentioned(r) = Passwords \cap (U \cup r.old \cup {r.new})
  BY <1>2 DEF Mentioned
<1>4. h \in U <=> \E u \in r.rows : h = r.snap[u].pw \/ h = r.snap[u].rh
  BY <1>1, <1>2
<1>5. QED BY <1>3, <1>4

LEMMA StillMoves ==
    ASSUME TypeOK, TypeOK', NEW t \in Tasks, Stills(t)
    PROVE  Moves(t)
<1>1. PICK r \in Task : r = task[t]
  BY TaskFields
<1>2. PICK q \in Task : q = task'[t]
  BY DEF TypeOK
<1>3. /\ Others(t) /\ row' = row /\ known' = known /\ strays \subseteq strays'
      /\ \A u \in Users : (u \in q.rows => u \in r.rows) /\ (q.snap[u] = r.snap[u] \/ q.snap[u] = Unborn)
      /\ q.old \subseteq r.old /\ q.new \in {r.new, None}
      /\ \A u \in Users : q.snap[u].is = "there" /\ q.alone => r.alone
      /\ \A u \in Users : /\ u \in suspect => u \in suspect'
                          /\ u \in torn => u \in torn' \/ (r.alone /\ Holds(t, u))
  BY <1>1, <1>2 DEF Stills
<1>4. q.rows \subseteq Users /\ r.rows \subseteq Users
  BY DEF Task
<1>5. Mentioned(q) \subseteq Mentioned(r)
  BY <1>3, <1>4, MentionsIs, UnbornIs
<1>6. ASSUME NEW u \in Users
      PROVE  /\ u \in q.rows => u \in r.rows
             /\ Holds(t, u)' => Holds(t, u) /\ (q.alone => r.alone) /\ q.snap[u] = r.snap[u]
             /\ RowMoves(t, u)
             /\ \A h \in Passwords : TaskHas(t, u, h)' => TaskHas(t, u, h)
  <2>1. Holds(t, u)' => Holds(t, u) /\ (q.alone => r.alone) /\ q.snap[u] = r.snap[u]
    BY <1>1, <1>2, <1>3, UnbornIs DEF Holds
  <2>2. \A h \in Passwords : TaskHas(t, u, h)' => TaskHas(t, u, h)
    BY <1>1, <1>2, <1>3, UnbornIs DEF TaskHas, Keeps, Kept
  <2>3. QED BY <1>3, <2>1, <2>2 DEF RowMoves
<1>7. QED BY <1>1, <1>2, <1>3, <1>5, <1>6 DEF Moves

LEMMA WriteMoves ==
    ASSUME TypeOK, TypeOK', Shape, Shape', Rows, NEW t \in Tasks, NEW u \in Users, Writes(t, u)
    PROVE  Moves(t)
<1>1. PICK r \in Task : r = task[t]
  BY TaskFields
<1>2. PICK q \in Task : q = task'[t]
  BY DEF TypeOK
<1>3. PICK b : b = r.snap[u]
  OBVIOUS
<1>4. PICK a : a = q.snap[u]
  BY SMTT(30)
<1>5. /\ Others(t) /\ u \in r.rows /\ b.is = "there" /\ a.is = "there" /\ a.source = "managed"
      /\ q.rows = r.rows /\ q.alone = r.alone /\ known' = known
      /\ \A v \in Users : v # u => q.snap[v] = r.snap[v]
      /\ \/ /\ b.source = "managed" /\ a.pw \in {b.pw, r.new} /\ a.rh \in {b.rh, a.pw}
            /\ q.old \subseteq r.old \cup {b.rh, b.pw}
         \/ b.source # "managed" /\ a.pw = r.new /\ a.rh = r.new /\ q.old = {}
      /\ q.new \in {r.new, None}
      /\ strays \subseteq strays' /\ suspect \subseteq suspect' /\ torn \subseteq torn'
      /\ Holds(t, u)
  <2>1. Holds(t, u) /\ Others(t) /\ u \in r.rows /\ a.source = "managed"
        /\ q.rows = r.rows /\ q.alone = r.alone /\ known' = known /\ a.is = b.is
    BY <1>1, <1>2, <1>3, <1>4 DEF Writes, Saves
  <2>2. b.is = "there" /\ a.is = "there"
    BY <1>1, <1>3, <2>1 DEF Holds
  <2>3. \A v \in Users : v # u => q.snap[v] = r.snap[v]
    BY <1>1, <1>2 DEF Writes, Saves
  <2>4. /\ \/ /\ b.source = "managed" /\ a.pw \in {b.pw, r.new} /\ a.rh \in {b.rh, a.pw}
              /\ q.old \subseteq r.old \cup {b.rh, b.pw}
           \/ b.source # "managed" /\ a.pw = r.new /\ a.rh = r.new /\ q.old = {}
        /\ q.new \in {r.new, None}
        /\ strays \subseteq strays' /\ suspect \subseteq suspect' /\ torn \subseteq torn'
    BY ZenonT(30), <1>1, <1>2, <1>3, <1>4 DEF Writes
  <2>5. QED BY ZenonT(30), <2>1, <2>2, <2>3, <2>4
<1>6. /\ \A v \in Users : v # u \/ ~There(u) => row'[v] = row[v]
      /\ There(u) =>
              /\ row'[u].is = "there"
              /\ row'[u].source = IF b.source = a.source THEN row[u].source ELSE a.source
              /\ row'[u].pw = IF b.pw = a.pw THEN row[u].pw ELSE a.pw
              /\ row'[u].rh = IF b.rh = a.rh THEN row[u].rh ELSE a.rh
  BY <1>1, <1>2, <1>3, <1>4 DEF Writes, Saves, There
<1>7. a.pw \in Passwords /\ a.rh \in Passwords \cup {None} /\ Proper(b) /\ b.source \in {"managed", "imported"}
  <2>1. Proper(a) /\ Proper(b)
    BY <1>1, <1>2, <1>3, <1>4 DEF Shape, ShapeOf
  <2>2. b.source \in {"managed", "imported"}
    BY <1>1, <1>3, TaskFields, RowsOK
  <2>3. QED BY <1>5, <2>1, <2>2 DEF Proper
<1>8. Mentioned(q) \subseteq Mentioned(r)
  <2>1. r.rows \subseteq Users
    BY DEF Task
  <2>2. ASSUME NEW h \in Passwords, h \in {a.pw, a.rh} \/ h \in q.old \/ h = q.new PROVE h \in Mentioned(r)
    BY <1>3, <1>5, <2>2, MentionsIs
  <2>3. ASSUME NEW v \in r.rows, v # u, NEW h \in Passwords, h \in {q.snap[v].pw, q.snap[v].rh} PROVE h \in Mentioned(r)
    BY <1>5, <2>1, <2>3, MentionsIs
  <2>4. QED BY <1>4, <1>5, <2>2, <2>3, MentionsIs
<1>9. ASSUME NEW v \in Users, NEW h \in Passwords, TaskHas(t, v, h)' PROVE TaskHas(t, v, h)
  <2>1. \/ Kept(q, v) /\ h \in {q.snap[v].pw, q.snap[v].rh}
        \/ v \in q.rows /\ (h \in q.old \/ h = q.new)
    BY <1>2, <1>9 DEF TaskHas, Keeps
  <2>2. \/ Kept(r, v) /\ h \in {r.snap[v].pw, r.snap[v].rh}
        \/ v \in r.rows /\ (h \in r.old \/ h = r.new)
        => TaskHas(t, v, h)
    BY <1>1 DEF TaskHas, Keeps
  <2>3. CASE v = u
    BY <1>3, <1>4, <1>5, <2>1, <2>2, <2>3 DEF Kept
  <2>4. CASE v # u
    <3>1. v \in r.rows => v = u \/ (q.old \subseteq r.old)
      <4>1. r.old # {} \/ r.pc \in Single \/ r.pc \notin Single
        OBVIOUS
      <4>2. q.old # {} => \A w, x \in q.rows : w = x
        BY <1>2 DEF Shape, ShapeOf
      <4>3. QED BY <1>5, <4>2
    <3>2. QED BY <1>5, <2>1, <2>2, <2>4, <3>1 DEF Kept
  <2>5. QED BY <2>3, <2>4
<1>10. ASSUME NEW v \in Users PROVE RowMoves(t, v)
  <2>1. CASE v # u \/ ~There(u)
    BY <1>6, <2>1 DEF RowMoves
  <2>2. CASE v = u /\ There(u)
    <3>1. row[u].source = "imported" \/ row[u].source = "managed"
      BY RowsOK DEF TypeOK
    <3>2. Proper(row[u])
      BY <2>2 DEF Rows, There
    <3>3. CASE row[u].source = "managed"
      <4>1. row'[u].source = "managed"
        BY <1>5, <1>6, <2>2, <3>3
      <4>2. row[u].pw \in Passwords /\ row[u].rh \in Passwords \cup {None}
        BY <2>2, <3>2, <3>3 DEF Proper, There
      <4>3. row'[u].pw = row[u].pw \/ (row'[u].pw = a.pw /\ a.pw # b.pw)
        BY <1>6, <2>2
      <4>4. row'[u].rh = row[u].rh \/ (row'[u].rh = a.rh /\ a.rh # b.rh)
        BY <1>6, <2>2
      <4>5. ASSUME NEW h \in Passwords, h = a.pw \/ h = a.rh PROVE TaskHas(t, u, h) /\ h \in Mentioned(r)
        BY <1>1, <1>3, <1>5, <4>5, MentionsIs DEF TaskHas, Keeps, Kept
      <4>6. a.rh # b.rh => a.rh \in Passwords
        BY <1>5, <1>7
      <4>7. row'[u].pw = row[u].pw \/ row'[u].pw \in Mentioned(r)
        BY <1>7, <4>3, <4>5
      <4>8. row'[u].rh = row[u].rh \/ row'[u].rh \in Mentioned(r)
        BY <1>7, <4>4, <4>5, <4>6
      <4>9. \A h \in Passwords : h \in {row'[u].pw, row'[u].rh} => RowHas(u, h) \/ TaskHas(t, u, h)
        BY <2>2, <3>3, <4>3, <4>4, <4>5 DEF RowHas
      <4>10. row'[u].pw \in Passwords /\ row'[u].rh \in Passwords \cup {None}
        BY <1>7, <4>2, <4>3, <4>4
      <4>11. QED BY <1>1, <1>5, <1>6, <2>2, <3>3, <4>1, <4>7, <4>8, <4>9, <4>10 DEF RowMoves
    <3>4. CASE row[u].source = "imported"
      <4>1. b.source # "managed" /\ row[u].rh = b.rh
        BY <1>1, <1>3, <1>5, <2>2, <3>4 DEF Rows, Keeps, Kept, Holds
      <4>2. a.pw = r.new /\ a.rh = r.new /\ b.pw = Placeholder /\ b.source = "imported"
        BY <1>5, <1>7, <4>1 DEF Proper
      <4>3. row'[u].source = "managed" /\ row'[u].pw = r.new /\ row'[u].rh = r.new
        BY <1>5, <1>6, <1>7, <2>2, <4>1, <4>2
      <4>4. r.new \in Passwords /\ r.new \in Mentioned(r) /\ TaskHas(t, u, r.new)
        BY <1>1, <1>5, <1>7, <4>2, MentionsIs DEF TaskHas
      <4>5. QED BY <1>1, <1>5, <1>6, <2>2, <4>3, <4>4 DEF RowMoves
    <3>5. QED BY <3>1, <3>3, <3>4
  <2>3. QED BY <2>1, <2>2
<1>11. \A v \in Users : Holds(t, v)' =>
          Holds(t, v) /\ (q.snap[v] = r.snap[v] \/ row'[v].is # "there" \/ row'[v].source = "managed")
  <2>1. row[u].source = "managed" \/ b.source # "managed" \/ ~There(u)
    BY <1>1, <1>3, <1>5 DEF Rows, Keeps, Kept
  <2>2. row'[u].is # "there" \/ row'[u].source = "managed"
    BY <1>5, <1>6, <2>1 DEF There
  <2>3. QED BY <1>1, <1>2, <1>5, <2>2 DEF Holds
<1>12. QED BY <1>1, <1>2, <1>5, <1>8, <1>9, <1>10, <1>11 DEF Moves

LEMMA FoldMoves ==
    ASSUME TypeOK, TypeOK', Shape, Rows, NEW t \in Tasks, NEW u \in Users, FoldsUser(t, u)
    PROVE  Moves(t) /\ Keeps(t, u)
<1>1. PICK r \in Task : r = task[t]
  BY TaskFields
<1>2. PICK q \in Task : q = task'[t]
  BY DEF TypeOK
<1>3. PICK b : b = r.snap[u]
  OBVIOUS
<1>4. Kept(r, u)
  BY <1>1 DEF FoldsUser, Shape, ShapeOf, OnBox
<1>5. /\ Others(t) /\ known' = known /\ strays' = strays /\ torn' = torn
      /\ \A v \in Users : v # u \/ ~There(u) => row'[v] = row[v]
      /\ There(u) =>
            /\ row'[u].is = "there" /\ row'[u].source = row[u].source /\ row'[u].pw = row[u].pw
            /\ row'[u].rh = IF r.ok /\ b.rh # b.pw THEN b.pw ELSE row[u].rh
      /\ \/ q = Idle
         \/ q.rows = r.rows /\ q.snap = r.snap /\ q.old = r.old /\ q.new = r.new /\ q.alone = r.alone
      /\ \A v \in suspect : v \in suspect' \/ (v = u /\ r.alone)
  BY <1>1, <1>2, <1>3 DEF FoldsUser, Goes, Core, There
<1>6. b.pw \in Passwords /\ r.rows \subseteq Users
  BY <1>1, <1>3, <1>4 DEF Shape, ShapeOf, Kept, Proper, Task
<1>7. ASSUME q = Idle
      PROVE  q.rows = {} /\ q.old = {} /\ q.new = None /\ \A v \in Users : q.snap[v] = Unborn
  BY <1>7 DEF Idle
<1>8. Mentioned(q) \subseteq Mentioned(r)
  BY <1>5, <1>6, <1>7, MentionsIs
<1>9. ASSUME NEW v \in Users
      PROVE  /\ v \in q.rows => v \in r.rows
             /\ Holds(t, v)' => Holds(t, v) /\ (q.alone => r.alone) /\ q.snap[v] = r.snap[v]
             /\ \A h \in Passwords : TaskHas(t, v, h)' => TaskHas(t, v, h)
  <2>1. CASE q = Idle
    BY <1>2, <1>7, <2>1 DEF Holds, TaskHas, Keeps, Kept
  <2>2. CASE q.rows = r.rows /\ q.snap = r.snap /\ q.old = r.old /\ q.new = r.new /\ q.alone = r.alone
    BY <1>1, <1>2, <2>2 DEF Holds, TaskHas, Keeps, Kept
  <2>3. QED BY <1>5, <2>1, <2>2
<1>10. Holds(t, u)
  BY <1>1, <1>4 DEF Holds, Kept
<1>11. ASSUME NEW v \in Users PROVE RowMoves(t, v)
  <2>1. CASE v # u \/ ~There(u)
    BY <1>5, <2>1 DEF RowMoves
  <2>2. CASE v = u /\ There(u)
    <3>1. row[u].source = "managed" /\ row[u].pw \in Passwords /\ row[u].rh \in Passwords \cup {None}
      BY <1>1, <1>4, <2>2 DEF Rows, Keeps, Proper, There
    <3>2. TaskHas(t, u, b.pw) /\ b.pw \in Mentioned(r)
      BY <1>1, <1>3, <1>4, <1>6, MentionsIs DEF TaskHas, Keeps, Kept
    <3>3. /\ row'[u].is = "there" /\ row'[u].source = "managed" /\ row'[u].pw = row[u].pw
          /\ (row'[u].rh = row[u].rh \/ row'[u].rh = b.pw)
      BY <1>5, <2>2, <3>1
    <3>4. \A h \in Passwords : h \in {row'[u].pw, row'[u].rh} => RowHas(u, h) \/ TaskHas(t, u, h)
      BY <2>2, <3>1, <3>2, <3>3 DEF RowHas
    <3>5. QED BY <1>1, <1>6, <1>10, <2>2, <3>1, <3>2, <3>3, <3>4 DEF RowMoves
  <2>3. QED BY <2>1, <2>2
<1>12. QED BY <1>1, <1>2, <1>4, <1>5, <1>8, <1>9, <1>10, <1>11 DEF Moves, Keeps

LEMMA DestroyMoves ==
    ASSUME TypeOK, TypeOK', NEW t \in Tasks, NEW u \in Users, DestroyRow(t, u)
    PROVE  Moves(t)
<1>1. /\ Others(t) /\ task'[t] = Idle /\ task[t].pc = "destroy" /\ u \in task[t].rows
      /\ \A v \in Users : v # u => row'[v] = row[v]
      /\ row'[u].is = "gone"
      /\ known' = known /\ strays' = strays
      /\ suspect' = suspect \ {u} /\ torn' = torn \ {u}
  BY DestroyRowIs DEF Ends
<1>2. task'[t].rows = {} /\ task'[t].old = {} /\ task'[t].new = None /\ \A v \in Users : task'[t].snap[v] = Unborn
  BY <1>1 DEF Idle
<1>3. Mentioned(task'[t]) \subseteq Mentioned(task[t])
  BY <1>2, MentionsIs DEF TypeOK
<1>4. \A v \in Users : /\ ~Holds(t, v)'
                       /\ \A h \in Passwords : ~TaskHas(t, v, h)'
  BY <1>2 DEF Holds, TaskHas, Keeps, Kept
<1>5. \A v \in Users : RowMoves(t, v)
  BY <1>1 DEF RowMoves, At
<1>6. QED BY <1>1, <1>2, <1>3, <1>4, <1>5 DEF Moves

LEMMA ImportMoves ==
    ASSUME TypeOK, TypeOK', NEW t \in Tasks, NEW u \in Users, NEW h \in Passwords, ImportOne(t, u, h)
    PROVE  Moves(t)
<1>1. PICK r \in Task : r = task[t]
  BY TaskFields
<1>2. PICK q \in Task : q = task'[t]
  BY DEF TypeOK
<1>3. /\ r.pc = "i_create" /\ Others(t) /\ h \in r.listed /\ row[u].is = "unborn"
      /\ \A v \in Users : v # u => row'[v] = row[v]
      /\ row'[u].is = "there" /\ row'[u].source = "imported" /\ row'[u].pw = Placeholder /\ row'[u].rh = h
      /\ known' = known /\ strays' = strays /\ suspect' = suspect /\ torn' = torn
      /\ q.rows = r.rows /\ q.snap = r.snap /\ q.old = r.old /\ q.new = r.new /\ q.alone = r.alone
  BY <1>1, <1>2, ImportOneIs DEF Goes, Core
<1>4. r.rows \subseteq Users
  BY DEF Task
<1>5. Mentioned(q) \subseteq Mentioned(r)
  BY <1>3, <1>4, MentionsIs
<1>6. ASSUME NEW v \in Users
      PROVE  /\ Holds(t, v)' => Holds(t, v) /\ q.snap[v] = r.snap[v]
             /\ \A p \in Passwords : TaskHas(t, v, p)' => TaskHas(t, v, p)
  BY <1>1, <1>2, <1>3 DEF Holds, TaskHas, Keeps, Kept
<1>7. \A v \in Users : RowMoves(t, v)
  BY <1>1, <1>3 DEF RowMoves, At
<1>8. QED BY <1>1, <1>2, <1>3, <1>5, <1>6, <1>7 DEF Moves

LEMMA MovesIs ==
    ASSUME TypeOK, TypeOK', Shape, Shape', Rows, NEW t \in Tasks, RowStep(t) \/ BoxStep(t) \/ ImportStep(t)
    PROVE  Moves(t)
BY StillsIs, StillMoves, WriteMoves, FoldMoves, DestroyMoves, ImportMoves

\* What a step of t takes off the box it has; what it puts there it pushes.
LiveMoves(t) ==
    /\ \A h \in live : h \in live' \/ \E u \in Users : TaskHas(t, u, h)
    /\ \A h \in live' : \/ h \in live
                        \/ \E u \in Users : /\ Keeps(t, u) /\ h = task[t].snap[u].pw /\ h \in Passwords
                                            /\ task[t].pc = "apply" /\ task'[t].pc = "apply"
                                            /\ u \in task[t].push /\ task[t].ok
                                            /\ task'[t].rows = task[t].rows /\ task'[t].snap = task[t].snap

LEMMA LiveMovesIs ==
    ASSUME TypeOK, TypeOK', Shape, NEW t \in Tasks, RowStep(t) \/ BoxStep(t) \/ ImportStep(t)
    PROVE  LiveMoves(t)
<1>1. ASSUME live' = live PROVE LiveMoves(t)
  BY <1>1 DEF LiveMoves
<1>2. ShapeOf(task[t]) /\ task[t].rows \subseteq Users /\ live \subseteq Passwords
  BY TaskFields DEF Shape, TypeOK
<1>3. CASE PurgeOld(t)
  <2>1. live' = live \ task[t].old \/ live' = live
    BY <1>3, PurgeOldIs
  <2>2. ASSUME NEW h \in task[t].old PROVE \E u \in Users : TaskHas(t, u, h)
    <3>1. task[t].rows # {}
      BY <1>2, <2>2 DEF ShapeOf
    <3>2. PICK u \in task[t].rows : TRUE
      BY <3>1
    <3>3. QED BY <1>2, <2>2, <3>2 DEF TaskHas
  <2>3. QED BY <2>1, <2>2 DEF LiveMoves
<1>4. ASSUME NEW u \in Users, ApplyUser(t, u) PROVE LiveMoves(t)
  <2>1. /\ task[t].pc = "apply" /\ task'[t].pc = "apply" /\ u \in task[t].todo /\ Command(t, u)
        /\ task'[t].rows = task[t].rows /\ task'[t].snap = task[t].snap
    BY <1>4, ApplyUserIs DEF Core
  <2>2. Keeps(t, u) /\ task[t].ok /\ u \in task[t].push
    BY <1>2, <2>1 DEF ShapeOf, OnBox, Keeps
  <2>3. TaskHas(t, u, task[t].snap[u].pw) /\ task[t].snap[u].pw \in Passwords
    BY <1>2, <2>2 DEF TaskHas, ShapeOf, Keeps, Kept, Proper
  <2>4. live' = live \/ live' = live \ {task[t].snap[u].pw} \/ live' = live \cup {task[t].snap[u].pw}
    BY <2>1 DEF Command
  <2>5. QED BY <2>1, <2>2, <2>3, <2>4 DEF LiveMoves
<1>5. ASSUME RowStep(t) PROVE live' = live
  BY <1>5, ZenonT(30) DEF RowStep, PatchRow, WriteHash, WriteConfig, WriteItems, WriteDefaults, Assign, UnlinkItems, DestroyRow,
              AdoptRow, boxVars
<1>6. ASSUME ImportStep(t) PROVE live' = live
  BY <1>6 DEF ImportStep, FetchLive, FindKnown, EndImport, ImportOne, boxVars
<1>7. ASSUME BoxUnreachable(t) \/ ListUsers(t) \/ Verify(t) \/ SkipVerify(t) PROVE live' = live
  BY <1>7, BoxUnreachableIs, ListUsersIs, VerifyIs, SkipVerifyIs
<1>8. ASSUME NEW u \in Users, FoldUser(t, u) PROVE live' = live
  BY <1>8, FoldUserIs DEF FoldsUser
<1>9. ASSUME NEW u \in Users, NEW told \in BOOLEAN, CommandFails(t, u, told) PROVE live' = live
  BY <1>9, CommandFailsIs
<1>10. ASSUME BoxStep(t) PROVE LiveMoves(t)
  BY <1>1, <1>3, <1>4, <1>7, <1>8, <1>9, <1>10 DEF BoxStep
<1>11. QED BY <1>1, <1>5, <1>6, <1>10

\* What a step of t does to the catalog.
ItemMoves(t) ==
    \A u \in Users : \/ item'[u] = item[u]
                     \/ /\ u \in task[t].rows /\ row'[u] = row[u] /\ task[t].pc \notin Importing
                        /\ item'[u] = None \/ (Keeps(t, u) /\ item'[u] = task[t].snap[u].config)

LEMMA ItemMovesIs ==
    ASSUME TypeOK, TypeOK', Shape, NEW t \in Tasks, RowStep(t) \/ BoxStep(t) \/ ImportStep(t)
    PROVE  ItemMoves(t)
<1>1. ASSUME item' = item PROVE ItemMoves(t)
  BY <1>1 DEF ItemMoves
<1>2. ASSUME NEW u \in Users, WriteItems(t, u) \/ Assign(t, u) PROVE ItemMoves(t)
  <2>1. /\ task[t].pc \in {"items", "assign"} /\ u \in task[t].rows /\ row' = row
        /\ \A v \in Users : v # u => item'[v] = item[v]
        /\ item'[u] = None \/ item'[u] = task[t].snap[u].config
    BY <1>2, WriteItemsIs, AssignIs
  <2>2. Keeps(t, u)
    BY <2>1 DEF Shape, ShapeOf, Single, Keeps
  <2>3. QED BY <2>1, <2>2 DEF ItemMoves, Importing
<1>3. ASSUME NEW u \in Users, UnlinkItems(t, u) PROVE ItemMoves(t)
  BY <1>3, UnlinkItemsIs DEF ItemMoves, Importing
<1>4. ASSUME NEW u \in Users,
             PatchRow(t, u) \/ WriteHash(t, u) \/ WriteConfig(t, u) \/ WriteDefaults(t, u) \/ DestroyRow(t, u)
             \/ AdoptRow(t, u)
      PROVE  item' = item
  BY <1>4, ZenonT(30) DEF PatchRow, WriteHash, WriteConfig, WriteDefaults, DestroyRow, AdoptRow
<1>5. ASSUME BoxStep(t) PROVE item' = item
  BY <1>5, ZenonT(30) DEF BoxStep, BoxUnreachable, PurgeOld, ListUsers, ApplyUser, FoldUser, CommandFails, Verify, SkipVerify
<1>6. ASSUME ImportStep(t) PROVE item' = item
  BY <1>6 DEF ImportStep, FetchLive, FindKnown, EndImport, ImportOne
<1>7. ASSUME RowStep(t) PROVE ItemMoves(t)
  BY <1>1, <1>2, <1>3, <1>4, <1>7 DEF RowStep
<1>8. QED BY <1>1, <1>5, <1>6, <1>7

\* What a task brings as it begins.
LaunchMoves(t) ==
    LET q == task'[t]
    IN  /\ \A v \in Users :
              \/ row'[v] = row[v]
              \/ /\ row[v].is = "unborn" /\ v \in q.rows /\ q.snap[v].is = "there"
                 /\ row'[v].is = "there" /\ row'[v].source = "managed" /\ row'[v].pw \in Passwords
                 /\ row'[v].rh = row'[v].pw \/ (row'[v].rh = None /\ row'[v].pw \notin Foreign)
                 /\ row'[v].pw \notin known
        /\ \A v \in Users : Holds(t, v)' => row'[v] = q.snap[v] /\ row'[v].is = "there"
        /\ \A v \in Users, h \in Passwords :
              TaskHas(t, v, h)' \/ RowHas(v, h)' => RowHas(v, h) \/ (h \notin known /\ h \in known' /\ v \in q.rows)
        /\ \A v, w \in q.rows : v = w \/ known' = known
        /\ known \subseteq known' /\ \A h, p \in known' : h \in known \/ p \in known \/ h = p
        /\ \A h \in known' : \/ h \in known \/ h \notin Foreign
                              \/ \E u \in Users : Claimed(u, h)' \/ TaskHas(t, u, h)'
        /\ q.pc = "patch" => q.new \notin Foreign \cup known
        /\ \A u \in Users : Parting(t, u)' => row'[u].source # "managed"
        /\ ~q.ok /\ q.todo = {}
        /\ q.pc \notin {"hash", "list", "apply", "fold", "items", "destroy", "i_rows", "i_create"}
        /\ q.push = {} \/ q.pc = "connect"

LEMMA LaunchMovesIs ==
    ASSUME TypeOK, TypeOK', Shape, NEW t \in Tasks, Launches(t)
    PROVE  LaunchMoves(t)
<1>1. PICK q \in Task : q = task'[t]
  BY DEF TypeOK
<1>2. ASSUME NEW u \in Users, NEW p \in Passwords \cup {None},
             Created(t, u, p) \/ DefaultMade(t, u, p) \/ Adopted(t, u, p)
      PROVE  LaunchMoves(t)
  <2>1. /\ q.rows = {u} /\ q.todo = {} /\ ~q.ok /\ q.push = {}
        /\ \A v \in Users : v # u => q.snap[v] = Unborn
        /\ row[u].is = "unborn" /\ p \in Passwords \ known /\ known' = known \cup {p}
        /\ q.snap[u].is = "there" /\ q.snap[u].source = "managed" /\ q.snap[u].pw = p
        /\ q.snap[u].synced = FALSE
        /\ row'[u] = q.snap[u] /\ \A v \in Users : v # u => row'[v] = row[v]
        /\ q.new = None /\ q.old = {}
    BY <1>1, <1>2 DEF Created, DefaultMade, Adopted, Makes, Fresh1
  <2>2. q.snap[u].rh \in {p, None} /\ q.pc \in {"config", "defaults", "adopt"}
    BY <1>1, <1>2 DEF Created, DefaultMade, Adopted, Makes
  <2>3. \A v \in Users, h \in Passwords :
              TaskHas(t, v, h)' \/ RowHas(v, h)' => RowHas(v, h) \/ (h \notin known /\ h \in known' /\ v \in q.rows)
    BY <1>1, <2>1, <2>2, UnbornIs DEF TaskHas, Keeps, Kept, RowHas, There
  <2>4. \A v \in Users : Holds(t, v)' => row'[v] = q.snap[v] /\ row'[v].is = "there"
    BY <1>1, <2>1 DEF Holds
  <2>5. \A h \in known' : h \in known \/ h \notin Foreign \/ \E v \in Users : Claimed(v, h)'
    <3>1. p \notin Foreign \/ (row'[u].rh = p /\ row'[u].is = "there" /\ row'[u].source = "managed")
      BY <1>1, <1>2, <2>1 DEF Created, DefaultMade, Adopted, Makes
    <3>2. p \notin Foreign \/ Claimed(u, p)'
      BY <3>1 DEF Claimed, There
    <3>3. QED BY <2>1, <3>2
  <2>6. \A v \in Users : ~Parting(t, v)'
    BY <1>1, <2>2 DEF Parting
  <2>7. row'[u].rh = p \/ (row'[u].rh = None /\ p \notin Foreign)
    BY <1>1, <1>2, <2>1 DEF Created, DefaultMade, Adopted, Makes
  <2>8. QED BY SMTT(30), <1>1, <2>1, <2>2, <2>3, <2>4, <2>5, <2>6, <2>7 DEF LaunchMoves
<1>3. ASSUME NEW u \in Users, NEW p \in Passwords \cup {None}, Adopting(t, u, p) \/ Updating(t, u, p)
      PROVE  LaunchMoves(t)
  <2>1. /\ q.rows = {u} /\ q.todo = {} /\ ~q.ok /\ q.push = {}
        /\ \A v \in Users : v # u => q.snap[v] = Unborn
        /\ There(u) /\ q.snap[u] = row[u] /\ row' = row
        /\ q.new = p /\ q.old = {} /\ q.pc \in {"adopt", "patch"}
        /\ (p = None /\ known' = known) \/ (p \in Passwords \ known /\ known' = known \cup {p})
    BY <1>1, <1>3 DEF Adopting, Updating, Reads, Fresh1
  <2>2. \A v \in Users, h \in Passwords :
              TaskHas(t, v, h)' \/ RowHas(v, h)' => RowHas(v, h) \/ (h \notin known /\ h \in known' /\ v \in q.rows)
    BY <1>1, <2>1, UnbornIs DEF TaskHas, Keeps, Kept, RowHas, There
  <2>3. \A v \in Users : Holds(t, v)' => row'[v] = q.snap[v] /\ row'[v].is = "there"
    BY <1>1, <2>1 DEF Holds, There
  <2>4. \A h \in known' : h \in known \/ h \notin Foreign \/ \E v \in Users : TaskHas(t, v, h)'
    BY <1>1, <2>1 DEF TaskHas
  <2>5. \A v \in Users : ~Parting(t, v)'
    BY <1>1, <2>1 DEF Parting
  <2>6. q.pc = "patch" => q.new \notin Foreign \cup known
    BY <1>1, <1>3 DEF Adopting, Updating, TypeOK
  <2>7. QED BY <1>1, <2>1, <2>2, <2>3, <2>4, <2>5, <2>6 DEF LaunchMoves
<1>4. ASSUME NEW u \in Users, Reading(t, u)
      PROVE  LaunchMoves(t)
  <2>1. /\ q.rows = {u} /\ q.todo = {} /\ ~q.ok /\ q.push = {}
        /\ \A v \in Users : v # u => q.snap[v] = Unborn
        /\ There(u) /\ q.snap[u] = row[u] /\ row' = row
        /\ q.new = None /\ known' = known
        /\ q.old = {} \/ (q.old \subseteq {row[u].rh, row[u].pw} /\ row[u].source = "managed")
        /\ q.pc \in {"defaults", "assign", "unlink", "connect"}
    BY <1>1, <1>4, HashIs DEF Reading, Reads, Fresh1, TypeOK
  <2>2. \A v \in Users, h \in Passwords :
              TaskHas(t, v, h)' \/ RowHas(v, h)' => RowHas(v, h)
    BY <1>1, <2>1, UnbornIs DEF TaskHas, Keeps, Kept, RowHas, There
  <2>3. \A v \in Users : Holds(t, v)' => row'[v] = q.snap[v] /\ row'[v].is = "there"
    BY <1>1, <2>1 DEF Holds, There
  <2>4. q.pc = "unlink" => row'[u].source # "managed"
    BY <1>1, <1>4, <2>1 DEF Reading
  <2>5. \A v \in Users : Parting(t, v)' => row'[v].source # "managed"
    BY <1>1, <2>1, <2>4 DEF Parting
  <2>6. QED BY <1>1, <2>1, <2>2, <2>3, <2>5 DEF LaunchMoves
<1>5. CASE Sweeping(t)
  <2>1. row' = row /\ known' = known /\ q.todo = {} /\ ~q.ok /\ q.new = None /\ q.old = {}
    BY <1>1, <1>5 DEF Sweeping
  <2>2. /\ q.pc = "connect" \/ (q.pc = "i_list" /\ q.push = {})
        /\ \A u \in Users : (q.snap[u] = row[u] /\ There(u)) \/ q.snap[u] = Unborn
    BY <1>1, <1>5 DEF Sweeping
  <2>3. \A v \in Users, h \in Passwords :
              TaskHas(t, v, h)' \/ RowHas(v, h)' => RowHas(v, h)
    BY <1>1, <2>1, <2>2, UnbornIs DEF TaskHas, Keeps, Kept, RowHas, There
  <2>4. \A v \in Users : Holds(t, v)' => row'[v] = q.snap[v] /\ row'[v].is = "there"
    BY <1>1, <2>1, <2>2, UnbornIs DEF Holds, There
  <2>5. \A v \in Users : ~Parting(t, v)'
    BY <1>1, <2>2 DEF Parting
  <2>6. QED BY <1>1, <2>1, <2>2, <2>3, <2>4, <2>5 DEF LaunchMoves
<1>6. QED BY <1>2, <1>3, <1>4, <1>5 DEF Launches

LEMMA StaysIs ==
    ASSUME NEW o \in Tasks, Stays(o)
    PROVE  /\ \A u \in Users : Holds(o, u)' <=> Holds(o, u)
           /\ \A u \in Users : Keeps(o, u)' <=> Keeps(o, u)
           /\ \A u \in Users, h \in Passwords : TaskHas(o, u, h)' <=> TaskHas(o, u, h)
           /\ Mentioned(task'[o]) = Mentioned(task[o])
BY DEF Stays, Like, Holds, Keeps, Kept, TaskHas, Mentioned

LEMMA OthersStay ==
    ASSUME NEW o \in Tasks, task'[o] = task[o]
    PROVE  Stays(o)
BY DEF Stays, Like

-----------------------------------------------------------------------------
(* Rows and Owner are inductive *)

LEMMA RowsMove ==
    ASSUME TypeOK, TypeOK', Rows, NEW t \in Tasks, Moves(t), ItemMoves(t)
    PROVE  Rows'
<1>1. \A u \in Users : RowMoves(t, u)
  BY DEF Moves
<1>2. \A o \in Tasks : o # t => task'[o] = task[o]
  BY DEF Moves, Others
<1>3. ASSUME NEW u \in Users, row'[u].is # "gone" PROVE Proper(row'[u])
  <2>1. RowMoves(t, u)
    BY <1>1
  <2>2. CASE row'[u] = row[u]
    BY <1>3, <2>2 DEF Rows
  <2>3. CASE row'[u] # row[u]
    BY <1>3, <2>1, <2>3 DEF RowMoves, Proper
  <2>4. QED BY <2>2, <2>3
<1>4. ASSUME NEW u \in Users, row'[u].is = "unborn" PROVE item'[u] = None /\ \A o \in Tasks : ~Holds(o, u)'
  <2>1. row'[u] = row[u]
    BY <1>1, <1>4 DEF RowMoves
  <2>2. item[u] = None /\ \A o \in Tasks : ~Holds(o, u)
    BY <1>4, <2>1 DEF Rows
  <2>3. item'[u] = None
    BY <2>2 DEF ItemMoves, Keeps, Kept, Holds
  <2>4. \A o \in Tasks : ~Holds(o, u)'
    BY <1>2, <2>2 DEF Moves, Holds
  <2>5. QED BY <2>3, <2>4
<1>5. ASSUME NEW u \in Users, NEW o \in Tasks, Holds(o, u)', row'[u].is = "there", row'[u].source # "managed"
      PROVE  row'[u] = row[u] /\ Holds(o, u) /\ task'[o].snap[u] = task[o].snap[u]
  <2>1. Holds(o, u) /\ (task'[o].snap[u] = task[o].snap[u] \/ o = t)
    BY <1>2, <1>5 DEF Moves, Holds
  <2>2. row[u].is # "unborn"
    BY <2>1 DEF Rows
  <2>3. row'[u] = row[u]
    BY <1>1, <1>5, <2>2 DEF RowMoves
  <2>4. task'[o].snap[u] = task[o].snap[u]
    BY <1>5, <2>1 DEF Moves
  <2>5. QED BY <2>1, <2>3, <2>4
<1>6. ASSUME NEW u \in Users, NEW o \in Tasks, Keeps(o, u)', row'[u].is = "there" PROVE row'[u].source = "managed"
  <2>1. SUFFICES ASSUME row'[u].source # "managed" PROVE FALSE
    OBVIOUS
  <2>2. Holds(o, u)'
    BY <1>6 DEF Keeps, Kept, Holds
  <2>3. row'[u] = row[u] /\ Holds(o, u) /\ task'[o].snap[u] = task[o].snap[u]
    BY <1>5, <1>6, <2>1, <2>2
  <2>4. Keeps(o, u)
    BY <1>6, <2>3 DEF Keeps, Kept, Holds
  <2>5. QED BY <1>6, <2>1, <2>3, <2>4 DEF Rows, There
<1>7. ASSUME NEW u \in Users, NEW o \in Tasks, Holds(o, u)', row'[u].is = "there", row'[u].source = "imported"
      PROVE  row'[u].rh = task'[o].snap[u].rh
  BY <1>5, <1>7 DEF Rows, There
<1>8. QED BY <1>3, <1>4, <1>6, <1>7 DEF Rows, There

LEMMA RowsLaunch ==
    ASSUME TypeOK, TypeOK', Shape', Rows, NEW t \in Tasks, Launches(t), LaunchMoves(t)
    PROVE  Rows'
<1>1. item' = item /\ \A o \in Tasks : o # t => Stays(o)
  BY DEF Launches, Begins
<1>2. \A v \in Users :
              \/ row'[v] = row[v]
              \/ /\ row[v].is = "unborn" /\ row'[v].is = "there" /\ row'[v].source = "managed" /\ row'[v].pw \in Passwords
                 /\ row'[v].rh \in {row'[v].pw, None}
  BY DEF LaunchMoves
<1>3. \A v \in Users : Holds(t, v)' => row'[v] = task'[t].snap[v] /\ row'[v].is = "there"
  BY DEF LaunchMoves
<1>4. \A u \in Users : row'[u].is # "gone" => Proper(row'[u])
  BY <1>2 DEF Rows, Proper
<1>5. \A u \in Users : row'[u].is = "unborn" => row'[u] = row[u] /\ item'[u] = None
  BY <1>1, <1>2 DEF Rows
<1>6. ASSUME NEW o \in Tasks, o # t, NEW u \in Users
      PROVE  /\ Holds(o, u)' => Holds(o, u) /\ task'[o].snap[u] = task[o].snap[u] /\ row'[u] = row[u]
             /\ Keeps(o, u)' => Keeps(o, u) /\ Holds(o, u)
  <2>1. Stays(o)
    BY <1>1, <1>6
  <2>2. Holds(o, u)' => Holds(o, u) /\ task'[o].snap[u] = task[o].snap[u]
    BY <2>1 DEF Stays, Like, Holds
  <2>3. Keeps(o, u)' => Keeps(o, u) /\ Holds(o, u)
    BY <2>1 DEF Stays, Like, Holds, Keeps, Kept
  <2>4. Holds(o, u) => row'[u] = row[u]
    BY <1>2 DEF Rows
  <2>5. QED BY <2>2, <2>3, <2>4
<1>7. \A u \in Users : Keeps(t, u)' => Holds(t, u)' /\ task'[t].snap[u].source = "managed"
  BY DEF Keeps, Kept, Holds
<1>8. ASSUME NEW u \in Users, NEW o \in Tasks
      PROVE  /\ row'[u].is = "unborn" => ~Holds(o, u)'
             /\ Keeps(o, u)' /\ row'[u].is = "there" => row'[u].source = "managed"
             /\ Holds(o, u)' /\ row'[u].is = "there" /\ row'[u].source = "imported" => row'[u].rh = task'[o].snap[u].rh
  <2>1. CASE o = t
    BY <1>3, <1>7, <2>1
  <2>2. CASE o # t
    <3>1. row'[u].is = "unborn" => ~Holds(o, u)'
      BY <1>5, <1>6, <2>2 DEF Rows
    <3>2. ASSUME Keeps(o, u)', row'[u].is = "there" PROVE row'[u].source = "managed"
      <4>1. Keeps(o, u) /\ Holds(o, u)
        BY <1>6, <2>2, <3>2
      <4>2. row'[u] = row[u]
        BY <1>2, <4>1 DEF Rows
      <4>3. QED BY <3>2, <4>1, <4>2 DEF Rows, There
    <3>3. ASSUME Holds(o, u)', row'[u].is = "there", row'[u].source = "imported"
          PROVE  row'[u].rh = task'[o].snap[u].rh
      <4>1. Holds(o, u) /\ task'[o].snap[u] = task[o].snap[u] /\ row'[u] = row[u]
        BY <1>6, <2>2, <3>3
      <4>2. QED BY <3>3, <4>1 DEF Rows, There
    <3>4. QED BY <3>1, <3>2, <3>3
  <2>3. QED BY <2>1, <2>2
<1>9. QED BY <1>4, <1>5, <1>8 DEF Rows, There

LEMMA RowsStep ==
    ASSUME TypeOK, TypeOK', Shape, Shape', Rows, [Next]_vars, EditImported = FALSE
    PROVE  Rows'
<1>1. ASSUME NEW t \in Tasks, Request(t) PROVE Rows'
  BY <1>1, LaunchIs, LaunchMovesIs, RowsLaunch
<1>2. ASSUME NEW t \in Tasks, RowStep(t) \/ BoxStep(t) \/ ImportStep(t) PROVE Rows'
  BY <1>2, MovesIs, ItemMovesIs, RowsMove
<1>3. CASE Crash
  <2>1. row' = row /\ item' = item /\ \A o \in Tasks, u \in Users : ~Holds(o, u)' /\ ~Keeps(o, u)'
    BY <1>3, CrashIs DEF Idle, Holds, Keeps, Kept
  <2>2. QED BY <2>1 DEF Rows, There
<1>4. CASE BoxRestart
  <2>1. row' = row /\ item' = item /\ \A o \in Tasks : Stays(o)
    BY <1>4, BoxRestartIs
  <2>2. \A o \in Tasks, u \in Users : /\ Holds(o, u)' <=> Holds(o, u)
                                      /\ Keeps(o, u)' <=> Keeps(o, u)
                                      /\ task'[o].snap[u] = task[o].snap[u]
    BY <2>1, StaysIs DEF Stays, Like
  <2>3. QED BY <2>1, <2>2 DEF Rows, There
<1>5. CASE UNCHANGED vars
  BY <1>5 DEF vars, Rows, There, Holds, Keeps
<1>6. QED BY <1>1, <1>2, <1>3, <1>4, <1>5 DEF Next

LEMMA OwnerMove ==
    ASSUME TypeOK, TypeOK', Rows, Owner, NEW t \in Tasks, Moves(t), LiveMoves(t)
    PROVE  Owner'
<1>1. known' = known /\ \A o \in Tasks : o # t => task'[o] = task[o]
  BY DEF Moves, Others
<1>2. ASSUME NEW u \in Users, NEW h \in Passwords, RowHas(u, h)' PROVE Has(u, h)
  <2>1. RowMoves(t, u)
    BY DEF Moves
  <2>2. RowHas(u, h) \/ TaskHas(t, u, h)
    BY <1>2, <2>1 DEF RowMoves, RowHas, There
  <2>3. QED BY <2>2 DEF Has
<1>3. ASSUME NEW u \in Users, NEW h \in Passwords, NEW o \in Tasks, TaskHas(o, u, h)' PROVE Has(u, h)
  <2>1. TaskHas(o, u, h)
    BY <1>1, <1>3 DEF Moves, TaskHas, Keeps
  <2>2. QED BY <2>1 DEF Has
<1>4. \A u \in Users, h \in Passwords : Has(u, h)' => Has(u, h)
  BY <1>2, <1>3 DEF Has
<1>5. ASSUME NEW h \in live' PROVE h \in Foreign' \cup known'
  <2>1. CASE h \in live
    BY <1>1, <2>1 DEF Owner
  <2>2. CASE h \notin live
    <3>1. PICK u \in Users : Keeps(t, u) /\ h = task[t].snap[u].pw /\ h \in Passwords
      BY SMTT(30), <2>2 DEF LiveMoves
    <3>2. Has(u, h)
      BY <3>1 DEF Has, TaskHas
    <3>3. QED BY <1>1, <3>1, <3>2 DEF Owner
  <2>3. QED BY <2>1, <2>2
<1>6. QED BY <1>1, <1>4, <1>5 DEF Owner

LEMMA OwnerLaunch ==
    ASSUME TypeOK, TypeOK', Owner, NEW t \in Tasks, Launches(t), LaunchMoves(t)
    PROVE  Owner'
<1>1. live' = live /\ \A o \in Tasks : o # t => Stays(o)
  BY DEF Launches, Begins
<1>2. ASSUME NEW u \in Users, NEW h \in Passwords, Has(u, h)'
      PROVE  Has(u, h) \/ (h \notin known /\ h \in known' /\ u \in task'[t].rows)
  <2>1. CASE RowHas(u, h)'
    BY <2>1 DEF LaunchMoves, Has
  <2>2. CASE \E o \in Tasks : TaskHas(o, u, h)'
    <3>1. PICK o \in Tasks : TaskHas(o, u, h)'
      BY <2>2
    <3>2. CASE o = t
      BY <3>1, <3>2 DEF LaunchMoves, Has
    <3>3. CASE o # t
      BY <1>1, <3>1, <3>3, StaysIs DEF Has
    <3>4. QED BY <3>2, <3>3
  <2>3. QED BY <1>2, <2>1, <2>2 DEF Has
<1>3. known \subseteq known' /\ \A v, w \in task'[t].rows : v = w \/ known' = known
  BY DEF LaunchMoves
<1>4. live' \subseteq Foreign' \cup known'
  BY <1>1, <1>3 DEF Owner
<1>5. \A u \in Users, h \in Passwords : Has(u, h)' => h \in known'
  BY <1>2, <1>3 DEF Owner
<1>6. ASSUME NEW u \in Users, NEW v \in Users, NEW h \in Passwords, Has(u, h)', Has(v, h)' PROVE u = v
  <2>1. CASE h \in known
    BY <1>2, <1>6, <2>1 DEF Owner
  <2>2. CASE h \notin known
    <3>1. ~Has(u, h) /\ ~Has(v, h)
      BY <2>2 DEF Owner
    <3>2. h \in known' /\ u \in task'[t].rows /\ v \in task'[t].rows
      BY <1>2, <1>6, <3>1
    <3>3. QED BY <1>3, <2>2, <3>2
  <2>3. QED BY <2>1, <2>2
<1>7. QED BY <1>4, <1>5, <1>6 DEF Owner

LEMMA OwnerStep ==
    ASSUME TypeOK, TypeOK', Shape, Shape', Rows, Owner, [Next]_vars, EditImported = FALSE
    PROVE  Owner'
<1>1. ASSUME NEW t \in Tasks, Request(t) PROVE Owner'
  BY <1>1, LaunchIs, LaunchMovesIs, OwnerLaunch
<1>2. ASSUME NEW t \in Tasks, RowStep(t) \/ BoxStep(t) \/ ImportStep(t) PROVE Owner'
  BY <1>2, MovesIs, LiveMovesIs, OwnerMove
<1>3. CASE Crash
  <2>1. row' = row /\ live' = live /\ known' = known /\ \A o \in Tasks, u \in Users, h \in Passwords : ~TaskHas(o, u, h)'
    BY <1>3, CrashIs DEF Idle, TaskHas, Keeps, Kept
  <2>2. \A u \in Users, h \in Passwords : Has(u, h)' => Has(u, h)
    BY <2>1 DEF Has, RowHas, There
  <2>3. QED BY <2>1, <2>2 DEF Owner
<1>4. CASE BoxRestart
  <2>1. row' = row /\ live' \subseteq live /\ known' = known /\ \A o \in Tasks : Stays(o)
    BY <1>4, BoxRestartIs
  <2>2. \A o \in Tasks, u \in Users, h \in Passwords : TaskHas(o, u, h)' <=> TaskHas(o, u, h)
    BY <2>1, StaysIs
  <2>3. \A u \in Users, h \in Passwords : Has(u, h)' => Has(u, h)
    BY <2>1, <2>2 DEF Has, RowHas, There
  <2>4. QED BY <2>1, <2>3 DEF Owner
<1>5. CASE UNCHANGED vars
  <2>1. \A u \in Users, h \in Passwords : Has(u, h)' <=> Has(u, h)
    BY <1>5 DEF vars, Has, RowHas, TaskHas, Keeps, There
  <2>2. QED BY <1>5, <2>1 DEF vars, Owner
<1>6. QED BY <1>1, <1>2, <1>3, <1>4, <1>5 DEF Next

LEMMA IdleRows ==
    ASSUME Shape, NEW t \in Tasks, task[t].pc = "idle"
    PROVE  task[t].rows = {} /\ task[t].old = {} /\ task[t].new = None /\ \A u \in Users : task[t].snap[u] = Unborn
BY DEF Shape, ShapeOf, Idle

LEMMA OverlapsMove ==
    ASSUME TypeOK, TypeOK', Rows, Overlaps, NEW t \in Tasks, Moves(t)
    PROVE  Overlaps'
<1>1. \A a \in Tasks : a # t => task'[a] = task[a]
  BY DEF Moves, Others
<1>2. ASSUME NEW a \in Tasks, NEW o \in Tasks, NEW u \in Users, a # o, u \in task'[a].rows, u \in task'[o].rows
      PROVE  /\ Mentioned(task'[a]) \subseteq strays'
             /\ Holds(a, u)' => ~task'[a].alone /\ (There(u)' => u \in suspect' /\ u \in torn')
  <2>1. u \in task[a].rows /\ u \in task[o].rows
    BY <1>1, <1>2 DEF Moves
  <2>2. Mentioned(task[a]) \subseteq strays /\ (Holds(a, u) => Upset(a) /\ (There(u) => Marked(u)))
    BY <1>2, <2>1 DEF Overlaps
  <2>3. Mentioned(task'[a]) \subseteq Mentioned(task[a]) /\ strays \subseteq strays'
    BY <1>1 DEF Moves
  <2>4. ASSUME Holds(a, u)' PROVE ~task'[a].alone /\ (There(u)' => u \in suspect' /\ u \in torn')
    <3>1. Holds(a, u) /\ (task'[a].alone => task[a].alone)
      BY <1>1, <2>4 DEF Moves, Holds
    <3>2. Upset(a) /\ (There(u) => Marked(u))
      BY <2>2, <3>1
    <3>3. There(u)' => There(u)
      <4>1. RowMoves(t, u) /\ row[u].is # "unborn"
        BY <3>1 DEF Moves, Rows
      <4>2. QED BY <4>1 DEF RowMoves, There
    <3>4. ASSUME Holds(t, u) PROVE ~task[t].alone
      <4>1. PICK x \in Tasks : x # t /\ u \in task[x].rows
        BY <1>2, <2>1
      <4>2. Upset(t)
        BY <3>4, <4>1 DEF Overlaps, Holds
      <4>3. QED BY <4>2 DEF Upset
    <3>5. u \in suspect /\ There(u)' => u \in suspect'
      BY <3>4 DEF Moves, There
    <3>6. u \in torn /\ There(u)' => u \in torn'
      BY <3>4 DEF Moves, There
    <3>7. QED BY <3>1, <3>2, <3>3, <3>5, <3>6 DEF Upset, Marked
  <2>5. QED BY <2>2, <2>3, <2>4
<1>3. QED BY <1>2 DEF Overlaps, Upset, Marked

LEMMA OverlapsLaunch ==
    ASSUME TypeOK, TypeOK', Shape, Rows, Overlaps, NEW t \in Tasks, Launches(t), LaunchMoves(t)
    PROVE  Overlaps'
<1>1. Begins(t) /\ \A a \in Tasks : a # t => Stays(a)
  BY DEF Launches, Begins
<1>2. ASSUME NEW a \in Tasks, a # t, NEW u \in Users, Holds(a, u) PROVE There(u)' => There(u)
  BY <1>2 DEF LaunchMoves, Rows, There
<1>3. ASSUME NEW o \in Tasks, o # t, NEW u \in Users, u \in task'[t].rows, u \in task'[o].rows
      PROVE  /\ ~task'[o].alone /\ ~task'[t].alone /\ Mentioned(task[o]) \subseteq strays'
             /\ \A v \in task[o].rows : There(v) \/ task'[t].snap[v].is = "there" => v \in suspect' /\ v \in torn'
  <2>1. u \in task[o].rows /\ task[o].pc # "idle"
    BY <1>1, <1>3, IdleRows DEF Stays, Like
  <2>2. QED BY <1>1, <1>3, <2>1 DEF Begins
<1>4. ASSUME NEW a \in Tasks, NEW o \in Tasks, NEW u \in Users, a # o, u \in task'[a].rows, u \in task'[o].rows
      PROVE  /\ Mentioned(task'[a]) \subseteq strays'
             /\ Holds(a, u)' => ~task'[a].alone /\ (There(u)' => u \in suspect' /\ u \in torn')
  <2>1. CASE a = t
    <3>1. ~task'[t].alone
      BY <1>3, <1>4, <2>1
    <3>2. /\ Mentioned(task'[t]) \subseteq strays'
          /\ task'[t].snap[u].is = "there" => u \in suspect' /\ u \in torn'
      BY <1>1, <1>4, <2>1, <3>1 DEF Begins
    <3>3. QED BY <2>1, <3>1, <3>2 DEF Holds
  <2>2. CASE o = t
    <3>1. a # t /\ Stays(a)
      BY <1>1, <1>4, <2>2
    <3>2. Mentioned(task'[a]) = Mentioned(task[a]) /\ (Holds(a, u)' <=> Holds(a, u)) /\ u \in task[a].rows
      BY <1>4, <3>1, StaysIs DEF Stays, Like
    <3>3. /\ ~task'[a].alone /\ Mentioned(task[a]) \subseteq strays'
          /\ There(u) => u \in suspect' /\ u \in torn'
      BY <1>3, <1>4, <2>2, <3>1, <3>2
    <3>4. QED BY <1>2, <3>1, <3>2, <3>3
  <2>3. CASE a # t /\ o # t
    <3>1. Stays(a) /\ Stays(o)
      BY <1>1, <2>3
    <3>2. /\ Mentioned(task'[a]) = Mentioned(task[a]) /\ (Holds(a, u)' <=> Holds(a, u)) /\ u \in task[a].rows
          /\ u \in task[o].rows /\ (task'[a].alone => task[a].alone)
      BY <1>4, <3>1, StaysIs DEF Stays, Like
    <3>3. Mentioned(task[a]) \subseteq strays /\ (Holds(a, u) => Upset(a) /\ (There(u) => Marked(u)))
      BY <1>4, <3>2 DEF Overlaps
    <3>4. strays \subseteq strays' /\ suspect \subseteq suspect' /\ torn \subseteq torn'
      BY <1>1 DEF Begins
    <3>5. QED BY <1>2, <2>3, <3>2, <3>3, <3>4 DEF Upset, Marked
  <2>4. QED BY <2>1, <2>2, <2>3
<1>5. QED BY <1>4 DEF Overlaps, Upset, Marked

LEMMA OverlapsStep ==
    ASSUME TypeOK, TypeOK', Shape, Shape', Rows, Overlaps, [Next]_vars, EditImported = FALSE
    PROVE  Overlaps'
<1>1. ASSUME NEW t \in Tasks, Request(t) PROVE Overlaps'
  BY <1>1, LaunchIs, LaunchMovesIs, OverlapsLaunch
<1>2. ASSUME NEW t \in Tasks, RowStep(t) \/ BoxStep(t) \/ ImportStep(t) PROVE Overlaps'
  BY <1>2, MovesIs, OverlapsMove
<1>3. CASE Crash
  <2>1. \A o \in Tasks : task'[o].rows = {}
    BY <1>3, CrashIs DEF Idle
  <2>2. QED BY <2>1 DEF Overlaps
<1>4. CASE BoxRestart
  <2>1. /\ \A o \in Tasks : Stays(o) /\ task'[o].alone = (task[o].pc = "idle")
        /\ \A u \in Users : u \in suspect' <=> There(u)
        /\ row' = row /\ strays' = strays /\ torn' = torn
    BY <1>4, BoxRestartIs
  <2>2. ASSUME NEW a \in Tasks, NEW o \in Tasks, NEW u \in Users, a # o, u \in task'[a].rows, u \in task'[o].rows
        PROVE  /\ Mentioned(task'[a]) \subseteq strays'
               /\ Holds(a, u)' => ~task'[a].alone /\ (There(u)' => u \in suspect' /\ u \in torn')
    <3>1. /\ Mentioned(task'[a]) = Mentioned(task[a]) /\ (Holds(a, u)' <=> Holds(a, u)) /\ u \in task[a].rows
          /\ u \in task[o].rows
      BY <2>1, <2>2, StaysIs DEF Stays, Like
    <3>2. Mentioned(task[a]) \subseteq strays /\ (Holds(a, u) => Upset(a) /\ (There(u) => Marked(u)))
      BY <2>2, <3>1 DEF Overlaps
    <3>3. ~task'[a].alone
      BY <2>1, <3>1, IdleRows
    <3>4. QED BY <2>1, <3>1, <3>2, <3>3 DEF Marked, There
  <2>3. QED BY <2>2 DEF Overlaps, Upset, Marked
<1>5. CASE UNCHANGED vars
  BY <1>5 DEF vars, Overlaps, Upset, Marked, There, Holds
<1>6. QED BY <1>1, <1>2, <1>3, <1>4, <1>5 DEF Next

LEMMA RowEq ==
    ASSUME NEW a \in Row, NEW b \in Row, a.is = b.is, a.source = b.source, a.enabled = b.enabled,
           a.pw = b.pw, a.rh = b.rh, a.config = b.config, a.synced = b.synced
    PROVE  a = b
BY DEF Row

\* What a task knows of a row is the row, in its passwords.
LEMMA NowNoted ==
    ASSUME TypeOK, NEW a \in Tasks, NEW u \in Users, Holds(a, u), Mentioned(task[a]) \subseteq strays,
           row[u] = Now(a, u)
    PROVE  Noted(row[u].pw) /\ Noted(row[u].rh)
<1>1. PICK b \in Row : b = task[a].snap[u]
  BY TaskFields
<1>2. row[u].pw = b.pw /\ (row[u].rh = b.rh \/ row[u].rh = b.pw)
  BY <1>1 DEF Now, Row
<1>3. \A h \in Passwords : h = b.pw \/ h = b.rh => h \in Mentioned(task[a])
  BY <1>1, MentionsIs, TaskFields DEF Holds
<1>4. QED BY <1>2, <1>3 DEF Noted

\* A step leaves blurred what was.
LEMMA BlurredKept ==
    ASSUME TypeOK, TypeOK', Rows, Overlaps, NEW t \in Tasks, Moves(t), NEW a \in Tasks, NEW u \in Users,
           Holds(a, u), Holds(a, u)', Blurred(a, u)
    PROVE  Blurred(a, u)'
<1>1. /\ ~task[a].alone /\ Mentioned(task[a]) \subseteq strays
      /\ There(u) => u \in suspect /\ u \in torn /\ Noted(row[u].pw) /\ Noted(row[u].rh)
  BY DEF Blurred, Upset, Marked
<1>2. ~task'[a].alone /\ Mentioned(task'[a]) \subseteq strays' /\ strays \subseteq strays'
  BY <1>1 DEF Moves, Others
<1>3. Holds(t, u) => ~task[t].alone /\ Mentioned(task[t]) \subseteq strays
  BY <1>1 DEF Overlaps, Upset, Holds
<1>4. ASSUME There(u)'
      PROVE  There(u) /\ (row'[u].pw = row[u].pw \/ row'[u].pw \in strays)
             /\ (row'[u].rh = row[u].rh \/ row'[u].rh \in strays)
  <2>1. RowMoves(t, u) /\ row[u].is # "unborn"
    BY DEF Moves, Rows
  <2>2. CASE row'[u] = row[u]
    BY <1>4, <2>2 DEF There
  <2>3. CASE /\ Holds(t, u) /\ There(u)
             /\ row'[u].pw = row[u].pw \/ row'[u].pw \in Mentioned(task[t])
             /\ row'[u].rh = row[u].rh \/ row'[u].rh \in Mentioned(task[t])
    BY <1>3, <2>3
  <2>4. QED BY <1>4, <2>1, <2>2, <2>3 DEF RowMoves, There
<1>5. There(u)' => u \in suspect' /\ u \in torn'
  BY <1>1, <1>3, <1>4 DEF Moves, There
<1>6. There(u)' => (row'[u].pw \in Passwords => row'[u].pw \in strays') /\ (row'[u].rh \in Passwords => row'[u].rh \in strays')
  BY <1>1, <1>2, <1>4 DEF Noted
<1>7. QED BY <1>2, <1>5, <1>6 DEF Blurred, Upset, Marked, Noted

LEMMA TrackOther ==
    ASSUME TypeOK, TypeOK', Rows, Overlaps, Track, NEW t \in Tasks, Moves(t), NEW a \in Tasks, a # t,
           NEW u \in Users, Holds(a, u)'
    PROVE  row'[u] = Now(a, u)' \/ Blurred(a, u)'
<1>1. task'[a] = task[a] /\ RowMoves(t, u)
  BY DEF Moves, Others
<1>2. Holds(a, u) /\ Now(a, u)' = Now(a, u)
  BY <1>1 DEF Holds, Now, Folded, At
<1>3. row[u] = Now(a, u) \/ Blurred(a, u)
  BY <1>2 DEF Track
<1>4. CASE row'[u] = row[u]
  BY <1>2, <1>3, <1>4, BlurredKept
<1>5. CASE row'[u] # row[u]
  <2>1. u \in task[t].rows
    BY <1>1, <1>2, <1>5 DEF RowMoves, Rows, Holds
  <2>2. Upset(a) /\ (There(u) => Marked(u))
    BY <1>2, <2>1 DEF Overlaps, Holds
  <2>3. Blurred(a, u)
    BY <1>2, <1>3, <2>2, NowNoted DEF Blurred, Upset
  <2>4. QED BY <1>2, <2>3, BlurredKept
<1>6. QED BY <1>4, <1>5

LEMMA TrackStill ==
    ASSUME TypeOK, TypeOK', Rows, Overlaps, Track, NEW t \in Tasks, Moves(t), Stills(t),
           NEW u \in Users, Holds(t, u)'
    PROVE  row'[u] = Now(t, u)' \/ Blurred(t, u)'
<1>1. task'[t].snap[u].is = "there"
  BY DEF Holds
<1>2. /\ row' = row /\ task'[t].snap[u] = task[t].snap[u] /\ u \in task[t].rows
      /\ task[t].pc \notin {"items", "assign", "fold"} /\ task'[t].pc \notin {"items", "assign"}
      /\ task'[t].pc = "fold" => task'[t].todo = task'[t].push
  BY <1>1, UnbornIs DEF Stills, Holds
<1>3. Holds(t, u)
  BY <1>1, <1>2 DEF Holds
<1>4. ~Folded(t, u) /\ ~Folded(t, u)'
  BY <1>2 DEF Folded, At
<1>5. Now(t, u) = task[t].snap[u] /\ Now(t, u)' = task'[t].snap[u]
  BY <1>4 DEF Now
<1>6. row[u] = Now(t, u) \/ Blurred(t, u)
  BY <1>3 DEF Track
<1>7. QED BY <1>2, <1>3, <1>5, <1>6, BlurredKept

LEMMA TrackWrite ==
    ASSUME TypeOK, TypeOK', Shape, Rows, Overlaps, Track, NEW t \in Tasks, Moves(t), NEW u \in Users, Writes(t, u),
           NEW v \in Users, Holds(t, v)'
    PROVE  row'[v] = Now(t, v)' \/ Blurred(t, v)'
<1>1. PICK r \in Task : r = task[t]
  BY TaskFields
<1>2. PICK q \in Task : q = task'[t]
  BY DEF TypeOK
<1>3. PICK b \in Row : b = r.snap[u]
  BY SMTT(30), <1>1, TaskFields
<1>4. PICK a \in Row : a = q.snap[u]
  BY SMTT(30), <1>2 DEF Writes, Saves
<1>5. /\ r.pc \in {"patch", "hash", "config", "defaults", "adopt"} /\ q.pc \in {"hash", "config", "connect", "assign"}
      /\ q.pc = "assign" => q.push = {}
      /\ u \in r.rows /\ q.rows = r.rows /\ b.is = "there" /\ a.is = "there" /\ Holds(t, u)
      /\ q.alone = r.alone
  BY <1>1, <1>2, <1>3, <1>4 DEF Writes, Saves, Holds
<1>6. r.push = {} /\ v = u
  BY <1>1, <1>2, <1>5 DEF Shape, ShapeOf, Single, Holds
<1>7. ~Folded(t, u) /\ ~Folded(t, u)'
  BY <1>1, <1>2, <1>5, <1>6 DEF Folded, At
<1>8. Now(t, u) = b /\ Now(t, u)' = a
  BY <1>1, <1>2, <1>3, <1>4, <1>7 DEF Now
<1>9. CASE row[u] = b
  <2>1. There(u) /\ row'[u] \in Row
    BY SMTT(30), <1>5, <1>9 DEF There, TypeOK
  <2>2. /\ row'[u].is = row[u].is
        /\ row'[u].source = IF b.source = a.source THEN row[u].source ELSE a.source
        /\ row'[u].enabled = IF b.enabled = a.enabled THEN row[u].enabled ELSE a.enabled
        /\ row'[u].pw = IF b.pw = a.pw THEN row[u].pw ELSE a.pw
        /\ row'[u].rh = IF b.rh = a.rh THEN row[u].rh ELSE a.rh
        /\ row'[u].config = IF b.config = a.config THEN row[u].config ELSE a.config
        /\ row'[u].synced = IF b.synced = a.synced THEN row[u].synced ELSE a.synced
    BY <1>1, <1>2, <1>3, <1>4, <2>1 DEF Writes, Saves
  <2>3. row'[u] = a
    BY <1>5, <1>9, <2>1, <2>2, RowEq
  <2>4. QED BY <1>6, <1>8, <2>3
<1>10. CASE Blurred(t, u)
  BY <1>5, <1>6, <1>10, BlurredKept
<1>11. QED BY <1>5, <1>8, <1>9, <1>10 DEF Track

LEMMA TrackFold ==
    ASSUME TypeOK, TypeOK', Shape, Rows, Overlaps, Track, NEW t \in Tasks, Moves(t), NEW u \in Users, FoldsUser(t, u),
           NEW v \in Users, Holds(t, v)'
    PROVE  row'[v] = Now(t, v)' \/ Blurred(t, v)'
<1>1. PICK r \in Task : r = task[t]
  BY TaskFields
<1>2. PICK q \in Task : q = task'[t]
  BY DEF TypeOK
<1>3. PICK b \in Row : b = r.snap[u]
  BY <1>1, TaskFields
<1>4. q # Idle
  BY <1>2, UnbornIs DEF Holds, Idle
<1>5. /\ r.pc = "fold" /\ u \in r.todo
      /\ \A w \in Users : w # u \/ ~There(u) => row'[w] = row[w]
      /\ q.rows = r.rows /\ q.snap = r.snap /\ q.push = r.push /\ q.ok = r.ok /\ q.bad = r.bad /\ q.alone = r.alone
      /\ \/ r.todo = {u} /\ q.pc = r.then /\ r.then # "idle"
         \/ q.pc = "fold" /\ q.todo = r.todo \ {u}
  BY <1>1, <1>2, <1>4 DEF FoldsUser, Goes, Core
<1>6. /\ r.todo \subseteq r.push /\ r.push \subseteq r.rows /\ Holds(t, v)
      /\ r.then \in {"idle", "items", "assign", "unlink"} /\ (r.then = "unlink" => r.push = {})
      /\ r.then # "idle" => \A w, x \in r.rows : w = x
  BY <1>1, <1>2, <1>5 DEF Shape, ShapeOf, OnBox, Holds
<1>7. CASE Blurred(t, v)
  BY <1>6, <1>7, BlurredKept
<1>8. CASE row[v] = Now(t, v) /\ v # u
  <2>1. q.pc = "fold" /\ q.todo = r.todo \ {u}
    BY <1>2, <1>5, <1>6, <1>8 DEF Holds
  <2>2. Folded(t, v)' <=> Folded(t, v)
    BY <1>1, <1>2, <1>5, <1>8, <2>1 DEF Folded, At
  <2>3. Now(t, v)' = Now(t, v)
    BY <1>1, <1>2, <1>5, <2>2 DEF Now
  <2>4. QED BY <1>5, <1>8, <2>3
<1>9. CASE row[v] = Now(t, v) /\ v = u
  <2>1. ~Folded(t, u)
    BY <1>1, <1>5 DEF Folded, At
  <2>2. row[u] = b /\ There(u)
    BY <1>1, <1>2, <1>3, <1>5, <1>9, <2>1 DEF Now, Holds, There
  <2>3. Folded(t, u)'
    BY <1>1, <1>2, <1>5, <1>6 DEF Folded, At
  <2>4. PICK s \in BOOLEAN : s = (r.ok /\ u \notin r.bad)
    OBVIOUS
  <2>5. PICK h : h = IF r.ok THEN b.pw ELSE b.rh
    OBVIOUS
  <2>6. Now(t, u)' = [b EXCEPT !.rh = h, !.synced = s]
    <3>1. Now(t, u)' = [task'[t].snap[u] EXCEPT !.rh = IF task'[t].ok THEN task'[t].snap[u].pw ELSE @,
                                               !.synced = task'[t].ok /\ u \notin task'[t].bad]
      BY <2>3 DEF Now
    <3>2. task'[t].snap[u] = b /\ task'[t].ok = r.ok /\ task'[t].bad = r.bad
      BY <1>2, <1>3, <1>5
    <3>3. QED BY <2>4, <2>5, <3>1, <3>2
  <2>7. /\ row'[u].is = row[u].is /\ row'[u].source = row[u].source /\ row'[u].enabled = row[u].enabled
        /\ row'[u].pw = row[u].pw /\ row'[u].config = row[u].config
        /\ row'[u].rh = IF r.ok /\ b.rh # b.pw THEN b.pw ELSE row[u].rh
        /\ row'[u].synced = IF b.synced = (r.ok /\ u \notin r.bad) THEN row[u].synced ELSE (r.ok /\ u \notin r.bad)
    BY <1>1, <1>3, <2>2 DEF FoldsUser
  <2>8. row'[u].rh = h /\ row'[u].synced = s /\ row'[u] \in Row
    BY <2>2, <2>4, <2>5, <2>7 DEF TypeOK
  <2>9. PICK w : w = [b EXCEPT !.rh = h, !.synced = s]
    OBVIOUS
  <2>10. /\ w \in Row /\ w.is = b.is /\ w.source = b.source /\ w.enabled = b.enabled /\ w.pw = b.pw
         /\ w.config = b.config /\ w.rh = h /\ w.synced = s
    BY <2>5, <2>9 DEF Row
  <2>11. row'[u] = w
    BY <2>2, <2>7, <2>8, <2>10, RowEq
  <2>12. QED BY <1>9, <2>6, <2>9, <2>11
<1>10. QED BY <1>6, <1>7, <1>8, <1>9 DEF Track

LEMMA StaysNow ==
    ASSUME NEW a \in Tasks, Stays(a), NEW u \in Users
    PROVE  Now(a, u)' = Now(a, u)
<1>1. Folded(a, u)' <=> Folded(a, u)
  BY DEF Folded, At, Stays, Like
<1>2. QED BY <1>1 DEF Now, Stays, Like

\* A task that another event has met tracks its rows as before.
LEMMA TrackStays ==
    ASSUME TypeOK, TypeOK', Track, NEW a \in Tasks, Stays(a), NEW u \in Users, Holds(a, u)', row'[u] = row[u],
           strays \subseteq strays', torn \subseteq torn', There(u) /\ u \in suspect => u \in suspect'
    PROVE  row'[u] = Now(a, u)' \/ Blurred(a, u)'
<1>1. /\ Holds(a, u) /\ Now(a, u)' = Now(a, u) /\ Mentioned(task'[a]) = Mentioned(task[a])
      /\ task'[a].alone => task[a].alone
  BY StaysIs, StaysNow DEF Stays
<1>2. row[u] = Now(a, u) \/ Blurred(a, u)
  BY <1>1 DEF Track
<1>3. Blurred(a, u) => Blurred(a, u)'
  BY <1>1 DEF Blurred, Upset, Marked, There, Noted
<1>4. QED BY <1>1, <1>2, <1>3

LEMMA TrackLaunch ==
    ASSUME TypeOK, TypeOK', Rows, Track, NEW t \in Tasks, Launches(t), LaunchMoves(t), NEW a \in Tasks,
           NEW u \in Users, Holds(a, u)'
    PROVE  row'[u] = Now(a, u)' \/ Blurred(a, u)'
<1>1. CASE a = t
  <2>1. row'[u] = task'[t].snap[u] /\ task'[t].pc \notin {"fold", "items"} /\ (task'[t].push = {} \/ task'[t].pc = "connect")
    BY <1>1 DEF LaunchMoves
  <2>2. ~Folded(t, u)'
    BY <2>1 DEF Folded, At
  <2>3. QED BY <1>1, <2>1, <2>2 DEF Now
<1>2. CASE a # t
  <2>1. Stays(a) /\ strays \subseteq strays' /\ torn \subseteq torn' /\ suspect \subseteq suspect'
    BY <1>2 DEF Launches, Begins
  <2>2. Holds(a, u)
    BY <2>1, StaysIs
  <2>3. row'[u] = row[u]
    BY <2>2 DEF LaunchMoves, Rows
  <2>4. QED BY <2>1, <2>3, TrackStays
<1>3. QED BY <1>1, <1>2

LEMMA TrackMove ==
    ASSUME TypeOK, TypeOK', Shape, Shape', Rows, Overlaps, Track, NEW t \in Tasks,
           RowStep(t) \/ BoxStep(t) \/ ImportStep(t), NEW a \in Tasks, NEW u \in Users, Holds(a, u)'
    PROVE  row'[u] = Now(a, u)' \/ Blurred(a, u)'
<1>1. Moves(t)
  BY MovesIs
<1>2. CASE a # t
  BY <1>1, <1>2, TrackOther
<1>3. CASE a = t
  <2>1. ASSUME NEW v \in Users, DestroyRow(t, v) PROVE FALSE
    BY <1>3, <2>1, DestroyRowIs DEF Ends, Idle, Holds
  <2>2. ASSUME NEW v \in Users, NEW h \in Passwords, ImportOne(t, v, h) PROVE FALSE
    <3>1. task[t].pc = "i_create" /\ task'[t].snap = task[t].snap
      BY <2>2, ImportOneIs DEF Goes, Core
    <3>2. task[t].snap[u] = Unborn
      BY <3>1 DEF Shape, ShapeOf, Importing
    <3>3. QED BY <1>3, <3>1, <3>2, UnbornIs DEF Holds
  <2>3. QED BY <1>1, <1>3, <2>1, <2>2, StillsIs, TrackStill, TrackWrite, TrackFold
<1>4. QED BY <1>2, <1>3

LEMMA TrackStep ==
    ASSUME TypeOK, TypeOK', Shape, Shape', Rows, Overlaps, Track, [Next]_vars, EditImported = FALSE
    PROVE  Track'
<1> SUFFICES ASSUME NEW a \in Tasks, NEW u \in Users, Holds(a, u)'
             PROVE  row'[u] = Now(a, u)' \/ Blurred(a, u)'
  BY DEF Track
<1>1. ASSUME NEW t \in Tasks, Request(t) PROVE row'[u] = Now(a, u)' \/ Blurred(a, u)'
  BY <1>1, LaunchIs, LaunchMovesIs, TrackLaunch
<1>2. ASSUME NEW t \in Tasks, RowStep(t) \/ BoxStep(t) \/ ImportStep(t)
      PROVE  row'[u] = Now(a, u)' \/ Blurred(a, u)'
  BY <1>2, TrackMove
<1>3. CASE Crash
  BY <1>3, CrashIs DEF Idle, Holds
<1>4. CASE BoxRestart
  BY <1>4, BoxRestartIs, TrackStays
<1>5. CASE UNCHANGED vars
  <2>1. Holds(a, u) /\ Now(a, u)' = Now(a, u)
    BY <1>5 DEF vars, Holds, Now, Folded, At
  <2>2. Blurred(a, u)' <=> Blurred(a, u)
    BY <1>5 DEF vars, Blurred, Upset, Marked, Noted, There
  <2>3. QED BY <1>5, <2>1, <2>2 DEF vars, Track
<1>6. QED BY <1>1, <1>2, <1>3, <1>4, <1>5 DEF Next

LEMMA NowMentioned ==
    ASSUME TypeOK, NEW a \in Tasks, NEW u \in Users, Holds(a, u), row[u] = Now(a, u)
    PROVE  \A h \in Passwords : h = row[u].pw \/ h = row[u].rh => h \in Mentioned(task[a])
<1>1. PICK b \in Row : b = task[a].snap[u]
  BY TaskFields
<1>2. row[u].pw = b.pw /\ (row[u].rh = b.rh \/ row[u].rh = b.pw)
  BY <1>1 DEF Now, Row
<1>3. \A h \in Passwords : h = b.pw \/ h = b.rh => h \in Mentioned(task[a])
  BY <1>1, MentionsIs, TaskFields DEF Holds
<1>4. QED BY <1>2, <1>3

LEMMA CalmIs ==
    ASSUME TypeOK, NEW h
    PROVE  /\ h \notin Passwords => Calm(h)
           /\ Noted(h) => Calm(h)
BY DEF TypeOK, Calm, Noted

\* t puts h on the box, the password of u.
Raises(t, u, h) ==
    /\ Keeps(t, u) /\ h = task[t].snap[u].pw /\ task[t].pc = "apply" /\ u \in task[t].push /\ task[t].ok
    /\ task'[t].rows = task[t].rows /\ task'[t].snap = task[t].snap
    /\ \A o \in Tasks : o # t => u \notin task[o].rows

\* A hash of u that is calm stays so but for a push of u.
LEMMA CalmKept ==
    ASSUME TypeOK, TypeOK', Owner, Overlaps, NEW t \in Tasks, Moves(t), LiveMoves(t), NEW u \in Users, NEW h \in Passwords,
           Has(u, h), Calm(h)
    PROVE  Calm(h)' \/ Raises(t, u, h)
<1>1. strays \subseteq strays'
  BY DEF Moves
<1>2. CASE h \in live \/ h \notin live'
  BY <1>1, <1>2 DEF Calm
<1>3. CASE h \notin live /\ h \in live' /\ h \notin strays
  <2>1. PICK v \in Users : /\ Keeps(t, v) /\ h = task[t].snap[v].pw /\ task[t].pc = "apply"
                           /\ v \in task[t].push /\ task[t].ok
                           /\ task'[t].rows = task[t].rows /\ task'[t].snap = task[t].snap
    BY <1>3 DEF LiveMoves
  <2>2. Has(v, h)
    BY <2>1, Zenon DEF Has, TaskHas
  <2>3. u = v
    BY <2>2 DEF Owner
  <2>4. h \in Mentioned(task[t])
    BY <2>1, MentionsIs, TaskFields DEF Keeps, Kept
  <2>5. \A o \in Tasks : o # t => u \notin task[o].rows
    BY <1>3, <2>1, <2>3, <2>4 DEF Overlaps, Keeps, Kept
  <2>6. QED BY <2>1, <2>3, <2>5 DEF Raises
<1>4. QED BY <1>1, <1>2, <1>3 DEF Calm

LEMMA EvenOther ==
    ASSUME TypeOK, TypeOK', Shape, Owner, Overlaps, Even, NEW t \in Tasks, Moves(t), LiveMoves(t),
           NEW a \in Tasks, a # t
    PROVE  /\ At(a, "patch")' => Calm(task[a].new)'
           /\ \A u \in Users : (Keeps(a, u)' /\ task'[a].snap[u].rh # task'[a].snap[u].pw) =>
                  /\ ~At(a, "hash")' => Calm(task[a].snap[u].rh)'
                  /\ ~Pushing(a, u)' => Calm(task[a].snap[u].pw)'
<1>1. task'[a] = task[a]
  BY DEF Moves, Others
<1>2. ASSUME NEW u \in Users, NEW h, TaskHas(a, u, h), Calm(h), u \in task[a].rows PROVE h \in live' => h \in strays'
  <2>1. CASE h \in Passwords
    <3>1. Calm(h)' \/ Raises(t, u, h)
      BY <1>2, <2>1, CalmKept DEF Has
    <3>2. QED BY <1>2, <3>1 DEF Raises, Calm
  <2>2. QED BY <2>1 DEF TypeOK
<1>3. ASSUME At(a, "patch") PROVE task[a].new \in live' => task[a].new \in strays'
  <2>1. Calm(task[a].new)
    BY <1>3 DEF Even
  <2>2. CASE task[a].new \in Passwords
    <3>1. PICK u \in task[a].rows : u \in Users
      BY <2>2, TaskFields DEF Shape, ShapeOf
    <3>2. TaskHas(a, u, task[a].new)
      BY DEF TaskHas
    <3>3. QED BY <1>2, <2>1, <3>1, <3>2
  <2>3. QED BY <2>2 DEF TypeOK
<1>4. ASSUME NEW u \in Users, Keeps(a, u), task[a].snap[u].rh # task[a].snap[u].pw
      PROVE  /\ ~At(a, "hash") => (task[a].snap[u].rh \in live' => task[a].snap[u].rh \in strays')
             /\ ~Pushing(a, u) => (task[a].snap[u].pw \in live' => task[a].snap[u].pw \in strays')
  <2>1. /\ ~At(a, "hash") => Calm(task[a].snap[u].rh)
        /\ ~Pushing(a, u) => Calm(task[a].snap[u].pw)
    BY <1>4 DEF Even
  <2>2. TaskHas(a, u, task[a].snap[u].rh) /\ TaskHas(a, u, task[a].snap[u].pw) /\ u \in task[a].rows
    BY <1>4 DEF TaskHas, Keeps, Kept
  <2>3. QED BY <1>2, <2>1, <2>2
<1>5. QED BY <1>1, <1>3, <1>4 DEF At, Calm, Keeps, Pushing

\* A row that nobody holds, and that nobody has held.
LEMMA EvenLoose ==
    ASSUME TypeOK, TypeOK', Rows, Owner, Overlaps, Even, NEW t \in Tasks, Moves(t), LiveMoves(t), NEW u \in Users,
           There(u), row[u].source = "managed", \A a \in Tasks : ~Holds(a, u)
    PROVE  row[u].rh = row[u].pw \/ (Calm(row[u].rh) /\ Calm(row[u].pw))'
           \/ row'[u] # row[u]
<1>1. SUFFICES ASSUME row[u].rh # row[u].pw, row'[u] = row[u] PROVE Calm(row[u].rh)' /\ Calm(row[u].pw)'
  OBVIOUS
<1>2. Calm(row[u].rh) /\ Calm(row[u].pw)
  BY <1>1 DEF Even
<1>3. ASSUME NEW h \in Passwords, h = row[u].rh \/ h = row[u].pw, Calm(h) PROVE h \in live' => h \in strays'
  <2>1. Has(u, h)
    BY <1>3 DEF Has, RowHas
  <2>2. ~Raises(t, u, h)
    BY DEF Raises, Keeps, Kept, Holds
  <2>3. QED BY <1>3, <2>1, <2>2, CalmKept DEF Calm
<1>4. QED BY <1>1, <1>2, <1>3 DEF TypeOK, Calm

\* What Even says of one task and one row of it.
EvenAt(t, u) ==
    (Keeps(t, u) /\ task[t].snap[u].rh # task[t].snap[u].pw) =>
        /\ ~At(t, "hash") => Calm(task[t].snap[u].rh)
        /\ ~Pushing(t, u) => Calm(task[t].snap[u].pw)

LooseAt(u) ==
    (There(u) /\ row[u].source = "managed" /\ \A a \in Tasks : ~Holds(a, u))
    => row[u].rh = row[u].pw \/ (Calm(row[u].rh) /\ Calm(row[u].pw))

LEMMA EvenIs == Even <=> /\ \A t \in Tasks : At(t, "patch") => Calm(task[t].new)
                         /\ \A t \in Tasks, u \in Users : EvenAt(t, u)
                         /\ \A u \in Users : LooseAt(u)
BY DEF Even, EvenAt, LooseAt

LEMMA EvenStill ==
    ASSUME TypeOK, TypeOK', Owner, Overlaps, Even, NEW t \in Tasks, Moves(t), LiveMoves(t), Stills(t), NEW u \in Users
    PROVE  EvenAt(t, u)'
<1> SUFFICES ASSUME Keeps(t, u)', task'[t].snap[u].rh # task'[t].snap[u].pw
             PROVE  /\ Calm(task[t].snap[u].rh)'
                    /\ ~Pushing(t, u)' => Calm(task[t].snap[u].pw)'
  BY DEF EvenAt
<1>1. /\ task'[t].snap[u] = task[t].snap[u] /\ Keeps(t, u) /\ task[t].pc # "hash"
      /\ task'[t].push = task[t].push /\ (task[t].ok => task'[t].ok)
  BY UnbornIs DEF Stills, Keeps, Kept
<1>2. Calm(task[t].snap[u].rh) /\ (~Pushing(t, u) => Calm(task[t].snap[u].pw))
  BY <1>1 DEF Even, At
<1>3. ASSUME NEW h \in Passwords, h = task[t].snap[u].rh \/ (h = task[t].snap[u].pw /\ ~Pushing(t, u)), Calm(h)
      PROVE  h \in live' => h \in strays'
  <2>1. Has(u, h)
    BY <1>1, <1>3 DEF Has, TaskHas, Keeps
  <2>2. ~Raises(t, u, h)
    BY <1>1, <1>3 DEF Raises, Pushing
  <2>3. QED BY <1>3, <2>1, <2>2, CalmKept DEF Calm
<1>4. ~Pushing(t, u)' => ~Pushing(t, u)
  BY <1>1 DEF Pushing
<1>5. QED BY <1>1, <1>2, <1>3, <1>4 DEF TypeOK, Calm

LEMMA EvenWrite ==
    ASSUME TypeOK, TypeOK', Shape, Even, NEW t \in Tasks, NEW u \in Users,
           PatchRow(t, u) \/ WriteHash(t, u) \/ WriteConfig(t, u) \/ WriteDefaults(t, u) \/ AdoptRow(t, u),
           NEW v \in Users
    PROVE  EvenAt(t, v)'
<1>1. PICK r : r = task[t]
  OBVIOUS
<1>2. PICK q : q = task'[t]
  OBVIOUS
<1>3. PICK b : b = r.snap[u]
  OBVIOUS
<1>4. PICK a : a = q.snap[u]
  OBVIOUS
<1>5. Writes(t, u)
  BY SMTT(30), WritesIs
<1>6. /\ r.pc \in {"patch", "hash", "config", "defaults", "adopt"} /\ q.rows = r.rows /\ u \in r.rows
      /\ live' = live /\ strays \subseteq strays' /\ a.is = b.is
  BY <1>1, <1>2, <1>3, <1>4, <1>5 DEF Writes, Saves
<1>7. /\ r.push = {} /\ \A w \in r.rows : w = u
      /\ r.pc # "adopt" => Kept(r, u)
  BY <1>1, <1>6 DEF Shape, ShapeOf, Single
<1>8. SUFFICES ASSUME Kept(q, u), a.rh # a.pw
               PROVE  /\ ~At(t, "hash")' => (a.rh \in live => a.rh \in strays)
                      /\ ~Pushing(t, u)' => (a.pw \in live => a.pw \in strays)
  BY <1>2, <1>4, <1>6, <1>7 DEF EvenAt, Keeps, Kept, Calm
<1>9. CASE PatchRow(t, u)
  <2>1. /\ r.pc = "patch" /\ a.rh = b.rh /\ a.pw = IF r.new = None THEN b.pw ELSE r.new
        /\ IF r.new = None THEN q.pc = "config" ELSE q.pc = "hash"
    BY <1>1, <1>2, <1>3, <1>4, <1>9, PatchRowIs
  <2>2. r.new \in live => r.new \in strays
    BY <1>1, <2>1 DEF Even, At, Calm
  <2>3. r.new = None => (a.rh \in live => a.rh \in strays) /\ (a.pw \in live => a.pw \in strays)
    BY <1>1, <1>3, <1>7, <1>8, <2>1 DEF Even, At, Calm, Keeps, Pushing
  <2>4. QED BY <1>2, <2>1, <2>2, <2>3 DEF At
<1>10. CASE WriteHash(t, u)
  <2>1. a.pw = b.pw /\ a.rh = b.pw
    BY <1>1, <1>2, <1>3, <1>4, <1>10, WriteHashIs
  <2>2. QED BY <1>8, <2>1
<1>11. CASE WriteConfig(t, u)
  <2>1. r.pc = "config" /\ a.pw = b.pw /\ a.rh = b.rh
    BY <1>1, <1>2, <1>3, <1>4, <1>11, WriteConfigIs
  <2>2. QED BY <1>1, <1>3, <1>7, <1>8, <2>1 DEF Even, At, Calm, Keeps, Pushing
<1>12. CASE WriteDefaults(t, u)
  <2>1. a.pw = b.pw /\ a.rh = b.pw
    BY <1>1, <1>2, <1>3, <1>4, <1>12, WriteDefaultsIs
  <2>2. QED BY <1>8, <2>1
<1>13. CASE AdoptRow(t, u)
  <2>1. a.rh = a.pw
    BY <1>1, <1>2, <1>3, <1>4, <1>13, AdoptRowIs
  <2>2. QED BY <1>8, <2>1
<1>14. QED BY <1>9, <1>10, <1>11, <1>12, <1>13

LEMMA EvenFold ==
    ASSUME TypeOK, TypeOK', Even, NEW t \in Tasks, NEW u \in Users, FoldsUser(t, u), NEW v \in Users
    PROVE  EvenAt(t, v)'
<1> SUFFICES ASSUME Keeps(t, v)', task'[t].snap[v].rh # task'[t].snap[v].pw
             PROVE  /\ Calm(task[t].snap[v].rh)'
                    /\ ~Pushing(t, v)' => Calm(task[t].snap[v].pw)'
  BY DEF EvenAt
<1>1. /\ task'[t].snap = task[t].snap /\ task'[t].rows = task[t].rows /\ task'[t].push = task[t].push
      /\ task'[t].ok = task[t].ok /\ task[t].pc = "fold" /\ live' = live /\ strays' = strays
  BY UnbornIs DEF FoldsUser, Goes, Core, Idle, Keeps, Kept
<1>2. Keeps(t, v)
  BY <1>1 DEF Keeps, Kept
<1>3. QED BY <1>1, <1>2 DEF Even, At, Calm, Pushing

\* A row whose hash is not its password's, let go of by a task that has not pushed it or has folded it.
LEMMA DropCalm ==
    ASSUME TypeOK, Track, Even, NEW t \in Tasks, NEW v \in Users, Holds(t, v), There(v), row[v].source = "managed",
           task[t].pc # "hash", Folded(t, v) \/ ~Pushing(t, v)
    PROVE  row[v].rh = row[v].pw \/ (Calm(row[v].rh) /\ Calm(row[v].pw))
<1>1. CASE Blurred(t, v)
  BY <1>1, CalmIs DEF Blurred
<1>2. CASE row[v] = Now(t, v)
  <2>1. PICK b \in Row : b = task[t].snap[v]
    BY TaskFields
  <2>2. row[v].source = b.source /\ row[v].pw = b.pw
        /\ row[v].rh = IF Folded(t, v) /\ task[t].ok THEN b.pw ELSE b.rh
    BY <1>2, <2>1 DEF Now, Row
  <2>3. Keeps(t, v)
    BY <2>1, <2>2 DEF Keeps, Kept, Holds
  <2>4. ~Pushing(t, v) \/ row[v].rh = row[v].pw
    BY <2>2 DEF Pushing
  <2>5. QED BY <2>1, <2>2, <2>3, <2>4 DEF Even, At
<1>3. QED BY <1>1, <1>2 DEF Track

LEMMA LooseFold ==
    ASSUME TypeOK, TypeOK', Track, Even, NEW t \in Tasks, NEW u \in Users, FoldsUser(t, u), NEW v \in Users,
           Holds(t, v), ~Holds(t, v)', There(v), row[v].source = "managed"
    PROVE  row'[v].rh = row'[v].pw \/ ((row'[v].rh \in live' => row'[v].rh \in strays')
                                       /\ (row'[v].pw \in live' => row'[v].pw \in strays'))
<1>1. PICK r \in Task : r = task[t]
  BY TaskFields
<1>2. PICK q \in Task : q = task'[t]
  BY DEF TypeOK
<1>3. r.pc = "fold" /\ u \in r.todo /\ live' = live /\ strays' = strays /\ (v # u => row'[v] = row[v])
  BY <1>1 DEF FoldsUser
<1>4. r.todo = {u}
  <2>1. SUFFICES ASSUME r.todo # {u} PROVE FALSE
    OBVIOUS
  <2>2. Core(q, r)
    BY <1>1, <1>2, <2>1 DEF FoldsUser
  <2>3. QED BY <1>1, <1>2, <2>2 DEF Core, Holds
<1>5. CASE v # u
  <2>1. Folded(t, v) \/ ~Pushing(t, v)
    BY <1>1, <1>3, <1>4, <1>5 DEF Folded, Pushing, At
  <2>2. row[v].rh = row[v].pw \/ (Calm(row[v].rh) /\ Calm(row[v].pw))
    BY <1>1, <1>3, <2>1, DropCalm
  <2>3. QED BY <1>3, <1>5, <2>2 DEF Calm
<1>6. CASE v = u
  <2>1. PICK b \in Row : b = r.snap[u]
    BY <1>1, TaskFields
  <2>2. row'[u].pw = row[u].pw /\ row'[u].rh = IF r.ok /\ b.rh # b.pw THEN b.pw ELSE row[u].rh
    BY <1>1, <1>6, <2>1 DEF FoldsUser
  <2>3. CASE Blurred(t, u)
    <3>1. Noted(row[u].pw) /\ Noted(row[u].rh) /\ Mentioned(r) \subseteq strays
      BY <1>1, <1>6, <2>3 DEF Blurred, Upset
    <3>2. b.pw \in Passwords => b.pw \in strays
      BY <1>1, <1>6, <2>1, <3>1, MentionsIs DEF Holds
    <3>3. QED BY <1>3, <1>6, <2>2, <3>1, <3>2 DEF Noted, TypeOK
  <2>4. CASE row[u] = Now(t, u)
    <3>1. ~Folded(t, u)
      BY <1>1, <1>3 DEF Folded, At
    <3>2. row[u] = b
      BY <1>1, <2>1, <2>4, <3>1 DEF Now
    <3>3. CASE r.ok
      BY <1>6, <2>2, <3>2, <3>3
    <3>4. CASE ~r.ok
      <4>1. row[u].rh = row[u].pw \/ (Calm(row[u].rh) /\ Calm(row[u].pw))
        BY <1>1, <1>3, <1>6, <3>4, DropCalm DEF Pushing
      <4>2. QED BY <1>3, <1>6, <2>2, <3>4, <4>1 DEF Calm
    <3>5. QED BY <3>3, <3>4
  <2>5. QED BY <1>6, <2>3, <2>4 DEF Track
<1>7. QED BY <1>5, <1>6

LEMMA LooseMove ==
    ASSUME TypeOK, TypeOK', Shape, Shape', Rows, Owner, Overlaps, Track, Even, NEW t \in Tasks,
           RowStep(t) \/ BoxStep(t) \/ ImportStep(t), Moves(t), LiveMoves(t), NEW v \in Users
    PROVE  LooseAt(v)'
<1> SUFFICES ASSUME There(v)', row'[v].source = "managed", \A a \in Tasks : ~Holds(a, v)'
             PROVE  row'[v].rh = row'[v].pw \/ ((row'[v].rh \in live' => row'[v].rh \in strays')
                                                /\ (row'[v].pw \in live' => row'[v].pw \in strays'))
  BY DEF LooseAt, Calm
<1>1. \A a \in Tasks : a # t => task'[a] = task[a]
  BY DEF Moves, Others
<1>2. \A a \in Tasks : a # t => ~Holds(a, v)
  BY <1>1 DEF Holds
<1>3. CASE ~Holds(t, v)
  <2>1. row'[v] = row[v]
    BY <1>3 DEF Moves, RowMoves, There
  <2>2. There(v) /\ row[v].source = "managed" /\ \A a \in Tasks : ~Holds(a, v)
    BY <1>2, <1>3, <2>1 DEF There
  <2>3. row[v].rh = row[v].pw \/ (Calm(row[v].rh) /\ Calm(row[v].pw))'
    BY <2>1, <2>2, EvenLoose
  <2>4. QED BY <2>1, <2>3 DEF Calm
<1>4. CASE Holds(t, v)
  <2>1. ASSUME row'[v] = row[v], task[t].pc # "hash", Folded(t, v) \/ ~Pushing(t, v)
        PROVE  row[v].rh = row[v].pw \/ (Calm(row[v].rh) /\ Calm(row[v].pw))'
    <3>1. There(v) /\ row[v].source = "managed"
      BY <2>1 DEF There
    <3>2. row[v].rh = row[v].pw \/ (Calm(row[v].rh) /\ Calm(row[v].pw))
      BY <1>4, <2>1, <3>1, DropCalm
    <3>3. ASSUME NEW h \in Passwords, h = row[v].rh \/ h = row[v].pw, Calm(h) PROVE h \in live' => h \in strays'
      <4>1. Has(v, h)
        BY <3>1, <3>3 DEF Has, RowHas
      <4>2. ~Raises(t, v, h)
        BY DEF Raises, Keeps, Kept, Holds
      <4>3. QED BY <3>3, <4>1, <4>2, CalmKept DEF Calm
    <3>4. QED BY <2>1, <3>2, <3>3 DEF TypeOK, Calm
  <2>2. CASE Stills(t)
    <3>1. row' = row /\ task'[t].snap[v].is # "there"
      BY <1>4, <2>2, UnbornIs DEF Stills, Holds, Shape, ShapeOf
    <3>2. task[t].pc \in {"items", "assign"} \/ (task[t].push = {} /\ task[t].pc # "hash")
      BY <1>4, <2>2, <3>1 DEF Stills
    <3>3. task[t].pc # "hash" /\ (Folded(t, v) \/ ~Pushing(t, v))
      BY SMTT(30), <3>2 DEF Folded, Pushing
    <3>4. QED BY SMTT(30), <2>1, <3>1, <3>3 DEF Calm
  <2>3. ASSUME NEW u \in Users, Writes(t, u) PROVE FALSE
    BY <1>4, <2>3 DEF Writes, Saves, Holds
  <2>4. CASE \E u \in Users : FoldsUser(t, u)
    <3>1. PICK u \in Users : FoldsUser(t, u)
      BY <2>4
    <3>2. There(v) /\ row[v].source = "managed"
      BY <3>1 DEF FoldsUser, There
    <3>3. QED BY <1>4, <3>1, <3>2, LooseFold
  <2>5. CASE \E u \in Users : DestroyRow(t, u)
    <3>1. PICK u \in Users : DestroyRow(t, u)
      BY <2>5
    <3>2. row'[v] = row[v] /\ task[t].pc = "destroy"
      BY <3>1, DestroyRowIs DEF There
    <3>3. task[t].push = {}
      BY <3>2 DEF Shape, ShapeOf
    <3>4. QED BY <2>1, <3>2, <3>3 DEF Calm, Pushing
  <2>6. ASSUME NEW u \in Users, NEW h \in Passwords, ImportOne(t, u, h) PROVE FALSE
    <3>1. task[t].pc = "i_create"
      BY <2>6, ImportOneIs
    <3>2. QED BY <1>4, <3>1, UnbornIs DEF Shape, ShapeOf, Importing, Holds
  <2>7. QED BY <2>2, <2>3, <2>4, <2>5, <2>6, StillsIs
<1>5. QED BY <1>3, <1>4

LEMMA WritersIs ==
    ASSUME NEW t \in Tasks, RowStep(t) \/ BoxStep(t) \/ ImportStep(t),
           task[t].pc \in {"patch", "hash", "config", "defaults", "adopt"}
    PROVE  \E u \in Users : PatchRow(t, u) \/ WriteHash(t, u) \/ WriteConfig(t, u) \/ WriteDefaults(t, u) \/ AdoptRow(t, u)
<1>1. CASE RowStep(t)
  BY <1>1 DEF RowStep, WriteItems, Assign, UnlinkItems, DestroyRow, At
<1>2. CASE BoxStep(t)
  BY <1>2, ZenonT(30) DEF BoxStep, BoxUnreachable, PurgeOld, ListUsers, ApplyUser, FoldUser, CommandFails, Verify, SkipVerify, At
<1>3. CASE ImportStep(t)
  BY <1>3 DEF ImportStep, FetchLive, FindKnown, EndImport, ImportOne, At
<1>4. QED BY <1>1, <1>2, <1>3

LEMMA EvenMove ==
    ASSUME TypeOK, TypeOK', Shape, Shape', Rows, Owner, Overlaps, Track, Even, NEW t \in Tasks,
           RowStep(t) \/ BoxStep(t) \/ ImportStep(t)
    PROVE  Even'
<1>1. Moves(t) /\ LiveMoves(t)
  BY MovesIs, LiveMovesIs
<1>2. ASSUME NEW u \in Users PROVE LooseAt(u)'
  BY <1>1, <1>2, LooseMove
<1>3. ASSUME NEW a \in Tasks, a # t
      PROVE  /\ At(a, "patch")' => Calm(task[a].new)'
             /\ \A u \in Users : EvenAt(a, u)'
  BY <1>1, <1>3, EvenOther DEF EvenAt
<1>4. ASSUME NEW u \in Users, DestroyRow(t, u) PROVE task'[t].pc # "patch" /\ \A v \in Users : EvenAt(t, v)'
  BY <1>4, DestroyRowIs, UnbornIs DEF Ends, Idle, EvenAt, Keeps, Kept
<1>5. ASSUME NEW u \in Users, NEW h \in Passwords, ImportOne(t, u, h)
      PROVE  task'[t].pc # "patch" /\ \A v \in Users : EvenAt(t, v)'
  <2>1. task[t].pc = "i_create" /\ task'[t].snap = task[t].snap /\ task'[t].pc = "i_create"
    BY <1>5, ImportOneIs DEF Goes, Core
  <2>2. \A v \in Users : task[t].snap[v] = Unborn
    BY <2>1 DEF Shape, ShapeOf, Importing
  <2>3. QED BY <2>1, <2>2, UnbornIs DEF EvenAt, Keeps, Kept
<1>6. ASSUME NEW u \in Users, FoldsUser(t, u) PROVE task'[t].pc # "patch" /\ \A v \in Users : EvenAt(t, v)'
  <2>1. task[t].pc = "fold" /\ task[t].then \in {"idle", "items", "assign", "unlink"}
    BY <1>6 DEF FoldsUser, Shape, ShapeOf, OnBox
  <2>2. task'[t].pc # "patch"
    BY <1>6, <2>1 DEF FoldsUser, Goes, Idle
  <2>3. QED BY <1>6, <2>2, EvenFold
<1>7. ASSUME NEW u \in Users, 
             PatchRow(t, u) \/ WriteHash(t, u) \/ WriteConfig(t, u) \/ WriteDefaults(t, u) \/ AdoptRow(t, u)
      PROVE  task'[t].pc # "patch" /\ \A v \in Users : EvenAt(t, v)'
  BY <1>7, WritesIs, EvenWrite DEF Writes
<1>8. ASSUME Stills(t) PROVE task'[t].pc # "patch" /\ \A v \in Users : EvenAt(t, v)'
  BY <1>1, <1>8, EvenStill DEF Stills
<1>9. task'[t].pc # "patch" /\ \A v \in Users : EvenAt(t, v)'
  <2>1. CASE \E u \in Users : Writes(t, u)
    <3>1. task[t].pc \in {"patch", "hash", "config", "defaults", "adopt"}
      BY <2>1 DEF Writes
    <3>2. QED BY SMTT(30), <1>7, <3>1, WritersIs
  <2>2. QED BY <1>4, <1>5, <1>6, <1>8, <2>1, StillsIs
<1>10. \A a \in Tasks : At(a, "patch")' => Calm(task[a].new)'
  BY <1>3, <1>9 DEF At
<1>11. \A a \in Tasks, u \in Users : EvenAt(a, u)'
  BY <1>3, <1>9
<1>12. QED BY <1>2, <1>10, <1>11 DEF Even, EvenAt, LooseAt

LEMMA EvenLaunch ==
    ASSUME TypeOK, TypeOK', Shape, Rows, Owner, Overlaps', Even, NEW t \in Tasks, Launches(t), LaunchMoves(t)
    PROVE  Even'
<1>1. /\ \A a \in Tasks : a # t => Stays(a)
      /\ live' = live /\ strays \subseteq strays' /\ task[t].pc = "idle"
  BY DEF Launches, Begins
<1>2. \A h : Calm(h) => (h \in live' => h \in strays')
  BY <1>1 DEF Calm
<1>3. ASSUME NEW a \in Tasks, At(a, "patch")' PROVE Calm(task[a].new)'
  <2>1. CASE a = t
    BY <1>1, <1>3, <2>1 DEF LaunchMoves, At, Owner, Calm
  <2>2. CASE a # t
    <3>1. task'[a].new = task[a].new /\ At(a, "patch")
      BY <1>1, <1>3, <2>2 DEF Stays, Like, At
    <3>2. QED BY <1>2, <3>1 DEF Even, Calm
  <2>3. QED BY <2>1, <2>2
<1>4. ASSUME NEW a \in Tasks, NEW u \in Users PROVE EvenAt(a, u)'
  <2>1. CASE a # t
    <3>1. /\ task'[a].snap = task[a].snap /\ (At(a, "hash")' <=> At(a, "hash")) /\ (Pushing(a, u)' <=> Pushing(a, u))
          /\ Keeps(a, u)' <=> Keeps(a, u)
      BY <1>1, <2>1 DEF Stays, Like, At, Pushing, Keeps, Kept
    <3>2. QED BY <1>2, <3>1 DEF EvenAt, Even, Calm
  <2>2. CASE a = t
    <3>1. SUFFICES ASSUME Keeps(t, u)', task'[t].snap[u].rh # task'[t].snap[u].pw
                   PROVE  /\ task'[t].snap[u].rh \in live' => task'[t].snap[u].rh \in strays'
                          /\ task'[t].snap[u].pw \in live' => task'[t].snap[u].pw \in strays'
      BY <2>2 DEF EvenAt, Calm
    <3>2. Holds(t, u)' /\ row'[u] = task'[t].snap[u] /\ row'[u].is = "there" /\ row'[u].source = "managed"
      BY <3>1 DEF Keeps, Kept, Holds, LaunchMoves
    <3>3. CASE row'[u] # row[u]
      <4>1. row'[u].rh = None /\ row'[u].pw \notin Foreign \cup known
        BY <3>1, <3>2, <3>3 DEF LaunchMoves
      <4>2. QED BY <1>1, <3>2, <4>1 DEF Owner, TypeOK
    <3>4. CASE row'[u] = row[u] /\ \A o \in Tasks : ~Holds(o, u)
      BY <1>2, <3>1, <3>2, <3>4 DEF Even, There
    <3>5. CASE \E o \in Tasks : Holds(o, u)
      <4>1. PICK o \in Tasks : Holds(o, u)
        BY <3>5
      <4>2. o # t /\ u \in task'[o].rows
        BY <1>1, <4>1, IdleRows, StaysIs DEF Holds
      <4>3. Mentioned(task'[t]) \subseteq strays'
        BY <3>2, <4>2 DEF Overlaps, Holds
      <4>4. \A h \in Passwords : h = task'[t].snap[u].rh \/ h = task'[t].snap[u].pw => h \in Mentioned(task'[t])
        BY <3>2, MentionsIs DEF Holds, TypeOK
      <4>5. QED BY <4>3, <4>4 DEF TypeOK
    <3>6. QED BY <3>3, <3>4, <3>5
  <2>3. QED BY <2>1, <2>2
<1>5. ASSUME NEW u \in Users PROVE LooseAt(u)'
  <2>1. SUFFICES ASSUME There(u)', row'[u].source = "managed", \A a \in Tasks : ~Holds(a, u)'
                 PROVE  row'[u].rh = row'[u].pw \/ ((row'[u].rh \in live' => row'[u].rh \in strays')
                                                    /\ (row'[u].pw \in live' => row'[u].pw \in strays'))
    BY DEF LooseAt, Calm
  <2>2. row'[u] = row[u]
    BY <2>1 DEF LaunchMoves, Holds
  <2>3. \A a \in Tasks : ~Holds(a, u)
    BY <1>1, <2>1, IdleRows, StaysIs DEF Holds
  <2>4. row[u].rh = row[u].pw \/ (Calm(row[u].rh) /\ Calm(row[u].pw))
    BY <2>1, <2>2, <2>3 DEF Even, There
  <2>5. QED BY <1>1, <2>2, <2>4 DEF Calm
<1>6. QED BY <1>3, <1>4, <1>5 DEF Even, EvenAt, LooseAt

LEMMA EvenStep ==
    ASSUME TypeOK, TypeOK', Shape, Shape', Rows, Owner, Overlaps, Overlaps', Track, Even, [Next]_vars, EditImported = FALSE
    PROVE  Even'
<1>1. ASSUME NEW t \in Tasks, Request(t) PROVE Even'
  BY <1>1, LaunchIs, LaunchMovesIs, EvenLaunch
<1>2. ASSUME NEW t \in Tasks, RowStep(t) \/ BoxStep(t) \/ ImportStep(t) PROVE Even'
  BY <1>2, EvenMove
<1>3. CASE Crash
  <2>1. \A a \in Tasks : task'[a].pc # "patch" /\ \A u \in Users : ~Keeps(a, u)'
    BY <1>3, CrashIs DEF Idle, Keeps, Kept
  <2>2. /\ \A a \in Tasks : \A h \in Mentioned(task[a]) : h \in live => h \in strays'
        /\ row' = row /\ live' = live /\ strays \subseteq strays'
    BY <1>3, CrashIs
  <2>3. ASSUME NEW u \in Users, There(u), row[u].source = "managed"
        PROVE  row[u].rh = row[u].pw \/ ((row[u].rh \in live => row[u].rh \in strays')
                                         /\ (row[u].pw \in live => row[u].pw \in strays'))
    <3>1. CASE \A a \in Tasks : ~Holds(a, u)
      BY <2>2, <2>3, <3>1 DEF Even, Calm
    <3>2. CASE \E a \in Tasks : Holds(a, u)
      <4>1. PICK a \in Tasks : Holds(a, u)
        BY <3>2
      <4>2. CASE row[u] = Now(a, u)
        BY <2>2, <4>1, <4>2, NowMentioned DEF TypeOK
      <4>3. CASE Blurred(a, u)
        BY <2>2, <2>3, <4>3 DEF Blurred, Noted, TypeOK
      <4>4. QED BY <4>1, <4>2, <4>3 DEF Track
    <3>3. QED BY <3>1, <3>2
  <2>4. \A u \in Users : LooseAt(u)'
    BY <2>2, <2>3 DEF LooseAt, There, Calm
  <2>5. \A a \in Tasks : ~At(a, "patch")'
    BY <2>1 DEF At
  <2>6. \A a \in Tasks, u \in Users : EvenAt(a, u)'
    BY <2>1 DEF EvenAt
  <2>7. QED BY <2>4, <2>5, <2>6 DEF Even, EvenAt, LooseAt
<1>4. CASE BoxRestart
  <2>1. /\ \A a \in Tasks : Stays(a)
        /\ live' \subseteq live /\ row' = row /\ strays' = strays
    BY <1>4, BoxRestartIs
  <2>2. /\ \A a \in Tasks : task'[a].snap = task[a].snap /\ task'[a].new = task[a].new
        /\ \A a \in Tasks : (At(a, "hash")' <=> At(a, "hash")) /\ (At(a, "patch")' <=> At(a, "patch"))
        /\ \A a \in Tasks, u \in Users : /\ Pushing(a, u)' <=> Pushing(a, u)
                                         /\ Keeps(a, u)' <=> Keeps(a, u)
                                         /\ Holds(a, u)' <=> Holds(a, u)
    BY <2>1 DEF Stays, Like, At, Pushing, Keeps, Kept, Holds
  <2>3. \A h : Calm(h) => Calm(h)'
    BY <2>1 DEF Calm
  <2>4. \A a \in Tasks : At(a, "patch")' => Calm(task[a].new)'
    BY <2>1, <2>2 DEF Even, Calm
  <2>5. \A a \in Tasks, u \in Users : EvenAt(a, u)'
    BY <2>1, <2>2 DEF Even, Calm, EvenAt
  <2>6. \A u \in Users : LooseAt(u)'
    BY <2>1, <2>2 DEF Even, Calm, LooseAt, There
  <2>7. QED BY <2>4, <2>5, <2>6 DEF Even, EvenAt, LooseAt
<1>5. CASE UNCHANGED vars
  BY <1>5 DEF vars, Even, Keeps, Holds, Pushing, Calm, At, There
<1>6. QED BY <1>1, <1>2, <1>3, <1>4, <1>5 DEF Next

LEMMA LeavingOther ==
    ASSUME TypeOK, TypeOK', Owner, Overlaps, Leaving, NEW t \in Tasks, Moves(t), LiveMoves(t), NEW a \in Tasks, a # t,
           NEW u \in Users, Parting(a, u)', There(u)', row'[u].source = "managed"
    PROVE  row'[u].rh \in live' => row'[u].rh \in strays'
<1>1. Parting(a, u) /\ u \in task[a].rows
  BY DEF Moves, Others, Parting
<1>2. RowMoves(t, u) /\ strays \subseteq strays'
  BY DEF Moves
<1>3. SUFFICES ASSUME row'[u].rh \in Passwords PROVE row'[u].rh \in live' => row'[u].rh \in strays'
  BY DEF TypeOK
<1>4. CASE There(u) /\ row[u].source = "managed" /\ row'[u].rh = row[u].rh
  <2>1. Calm(row[u].rh) /\ Has(u, row[u].rh)
    BY <1>1, <1>4 DEF Leaving, Has, RowHas
  <2>2. ~Raises(t, u, row[u].rh)
    BY <1>1 DEF Raises
  <2>3. QED BY <1>3, <1>4, <2>1, <2>2, CalmKept DEF Calm
<1>5. CASE Holds(t, u) /\ row'[u].rh \in Mentioned(task[t])
  <2>1. Mentioned(task[t]) \subseteq strays
    BY <1>1, <1>5 DEF Overlaps, Holds
  <2>2. QED BY <1>2, <1>5, <2>1
<1>6. QED BY <1>2, <1>4, <1>5 DEF RowMoves, There

\* The push that a deletion asks for has the hash of its instance to delete.
LEMMA LeavingStarts ==
    ASSUME TypeOK, TypeOK', Shape, Track, NEW t \in Tasks, task[t].pc = "connect", task[t].then = "unlink",
           NEW u \in task[t].rows, row' = row, strays \subseteq strays',
           \A h \in task[t].old : h \in live' => h \in strays'
    PROVE  There(u) => (row[u].rh \in live' => row[u].rh \in strays')
<1>1. Kept(task[t], u) /\ task[t].snap[u].rh \in task[t].old \cup {None} /\ u \in Users /\ None \notin live'
  BY TaskFields DEF Shape, ShapeOf, TypeOK
<1>2. CASE row[u] = Now(t, u)
  <2>1. row[u] = task[t].snap[u]
    BY <1>2 DEF Now, Folded, At
  <2>2. QED BY <1>1, <2>1
<1>3. CASE Blurred(t, u)
  BY <1>3 DEF Blurred, Noted, TypeOK
<1>4. QED BY <1>1, <1>2, <1>3 DEF Track, Holds, Kept

\* How t comes to have u parting.
Parts(t, u) ==
    /\ row' = row /\ strays \subseteq strays'
    /\ \/ Parting(t, u) /\ live' = live
       \/ /\ task[t].pc = "connect" /\ task[t].then = "unlink" /\ u \in task[t].rows
          /\ \A h \in task[t].old : h \in live' => h \in strays'

LEMMA PartsIs ==
    ASSUME TypeOK, TypeOK', Shape, NEW t \in Tasks, RowStep(t) \/ BoxStep(t) \/ ImportStep(t),
           NEW u \in Users, Parting(t, u)'
    PROVE  Parts(t, u)
<1>1. ASSUME Parting(t, u), row' = row, live' = live, strays \subseteq strays'
      PROVE  Parts(t, u)
  BY <1>1 DEF Parts
<1>2. PICK r \in Task : r = task[t]
  BY TaskFields
<1>3. PICK q \in Task : q = task'[t]
  BY DEF TypeOK
<1>4. /\ u \in q.rows
      /\ q.pc \in {"unlink", "destroy"} \/ (q.pc \in {"list", "apply"} /\ q.then = "unlink")
  BY <1>3 DEF Parting
<1>5. /\ r.todo \subseteq r.push
      /\ r.pc \in OnBox => /\ r.then = "unlink" => r.push = {}
                           /\ r.then \in {"idle", "items", "assign", "unlink"}
  BY <1>2 DEF Shape, ShapeOf
<1>6. ASSUME NEW ok, NEW bad, NEW old, NEW alone, Folding(t, ok, bad, old, alone), r.pc \in {"connect", "list", "apply"}
      PROVE  u \in r.rows /\ r.then = "unlink"
  BY <1>2, <1>3, <1>4, <1>5, <1>6 DEF Folding, Idle, OnBox
<1>7. ASSUME NEW v \in Users,
             PatchRow(t, v) \/ WriteHash(t, v) \/ WriteConfig(t, v) \/ WriteDefaults(t, v) \/ AdoptRow(t, v)
      PROVE  FALSE
  <2>1. q.pc \in {"hash", "config", "connect", "assign"}
    BY <1>3, <1>7, WritesIs DEF Writes
  <2>2. QED BY SMTT(30), <1>4, <2>1
<1>8. ASSUME NEW v \in Users, WriteItems(t, v) \/ Assign(t, v) \/ DestroyRow(t, v) PROVE FALSE
  BY <1>3, <1>4, <1>8, WriteItemsIs, AssignIs, DestroyRowIs DEF Ends, Idle
<1>9. CASE \E v \in Users : UnlinkItems(t, v)
  <2>1. PICK v \in Users : UnlinkItems(t, v)
    BY <1>9
  <2>2. r.pc = "unlink" /\ q.rows = r.rows /\ row' = row /\ live' = live /\ strays' = strays
    BY <1>2, <1>3, <2>1, UnlinkItemsIs DEF Goes, Core
  <2>3. QED BY <1>1, <1>2, <1>4, <2>2 DEF Parting
<1>10. CASE BoxUnreachable(t)
  <2>1. /\ Folding(t, FALSE, task[t].bad, {}, task[t].alone)
        /\ r.pc \in {"connect", "list"}
        /\ row' = row /\ live' = live /\ strays' = strays \cup (r.old \cap live)
    BY <1>2, <1>10, BoxUnreachableIs
  <2>2. u \in r.rows /\ r.then = "unlink"
    BY <1>6, <2>1
  <2>3. CASE r.pc = "list"
    BY <1>1, <1>2, <2>1, <2>2, <2>3 DEF Parting
  <2>4. CASE r.pc = "connect"
    BY <1>2, <2>1, <2>2, <2>4 DEF Parts
  <2>5. QED BY <2>1, <2>3, <2>4
<1>11. CASE PurgeOld(t)
  <2>1. /\ r.pc = "connect" /\ q.rows = r.rows /\ q.then = r.then /\ q.pc = "list" /\ row' = row
        /\ (live' = live \ r.old /\ strays' = strays) \/ (live' = live /\ strays' = strays \cup (r.old \cap live))
    BY <1>2, <1>3, <1>11, PurgeOldIs DEF Core
  <2>2. r.then = "unlink" /\ u \in r.rows
    BY <1>4, <2>1
  <2>3. QED BY <1>2, <2>1, <2>2 DEF Parts
<1>12. CASE ListUsers(t)
  <2>1. r.pc = "list" /\ q.rows = r.rows /\ q.then = r.then /\ q.pc = "apply" /\ row' = row /\ live' = live /\ strays' = strays
    BY <1>2, <1>3, <1>12, ListUsersIs DEF Core
  <2>2. QED BY <1>1, <1>2, <1>4, <2>1 DEF Parting
<1>13. ASSUME NEW v \in Users, ApplyUser(t, v) \/ \E told \in BOOLEAN : CommandFails(t, v, told) PROVE FALSE
  <2>1. r.pc = "apply" /\ q.pc = "apply" /\ v \in r.todo /\ q.then = r.then
    BY <1>2, <1>3, <1>13, ApplyUserIs, CommandFailsIs DEF Core
  <2>2. QED BY <1>4, <1>5, <2>1 DEF OnBox
<1>14. CASE Verify(t) \/ SkipVerify(t)
  <2>1. r.pc = "apply" /\ row' = row /\ live' = live /\ strays' = strays
    BY <1>2, <1>14, VerifyIs, SkipVerifyIs
  <2>2. u \in r.rows /\ r.then = "unlink"
    BY <1>6, <1>14, <2>1, VerifyIs, SkipVerifyIs
  <2>3. QED BY <1>1, <1>2, <2>1, <2>2 DEF Parting
<1>15. ASSUME NEW v \in Users, FoldUser(t, v) PROVE FALSE
  <2>1. FoldsUser(t, v)
    BY <1>15, FoldUserIs
  <2>2. r.pc = "fold" /\ v \in r.todo /\ (q = Idle \/ q.pc = r.then \/ q.pc = "fold")
    BY <1>2, <1>3, <2>1 DEF FoldsUser, Goes
  <2>3. QED BY <1>4, <1>5, <2>2 DEF OnBox, Idle
<1>16. ASSUME ImportStep(t) PROVE FALSE
  <2>1. q = Idle \/ q.pc \in Importing
    BY <1>3, <1>16, FetchLiveIs, FindKnownIs, ImportOneIs, EndImportIs DEF ImportStep, Goes, Ends, Importing
  <2>2. QED BY <1>4, <2>1 DEF Idle, Importing
<1>17. ASSUME RowStep(t) PROVE Parts(t, u)
  BY <1>7, <1>8, <1>9, <1>17 DEF RowStep
<1>18. ASSUME BoxStep(t) PROVE Parts(t, u)
  BY <1>10, <1>11, <1>12, <1>13, <1>14, <1>15, <1>18 DEF BoxStep
<1>19. QED BY <1>16, <1>17, <1>18

LEMMA LeavingOwn ==
    ASSUME TypeOK, TypeOK', Shape, Track, Leaving, NEW t \in Tasks, RowStep(t) \/ BoxStep(t) \/ ImportStep(t),
           NEW u \in Users, Parting(t, u)', There(u)', row'[u].source = "managed"
    PROVE  row'[u].rh \in live' => row'[u].rh \in strays'
<1>1. Parts(t, u)
  BY PartsIs
<1>2. CASE Parting(t, u) /\ live' = live
  BY <1>1, <1>2 DEF Parts, Leaving, Calm, There
<1>3. CASE ~(Parting(t, u) /\ live' = live)
  <2>1. There(u)
    BY <1>1 DEF Parts, There
  <2>2. row[u].rh \in live' => row[u].rh \in strays'
    BY <1>1, <1>3, <2>1, LeavingStarts DEF Parts
  <2>3. QED BY <1>1, <2>2 DEF Parts
<1>4. QED BY <1>2, <1>3

LEMMA LeavingLaunch ==
    ASSUME TypeOK, TypeOK', Shape, Owner, Overlaps', Leaving, NEW t \in Tasks, Launches(t), LaunchMoves(t),
           NEW a \in Tasks, NEW u \in Users, Parting(a, u)', There(u)', row'[u].source = "managed"
    PROVE  row'[u].rh \in live' => row'[u].rh \in strays'
<1>1. a # t
  BY DEF LaunchMoves
<1>2. Stays(a) /\ live' = live /\ strays \subseteq strays'
  BY <1>1 DEF Launches, Begins
<1>3. Parting(a, u) /\ u \in task'[a].rows
  BY <1>2 DEF Stays, Like, Parting
<1>4. CASE row'[u] = row[u]
  BY <1>2, <1>3, <1>4 DEF Leaving, Calm, There
<1>5. CASE row'[u] # row[u]
  <2>1. /\ u \in task'[t].rows /\ task'[t].snap[u].is = "there" /\ row'[u].pw \in Passwords
        /\ row'[u].rh = row'[u].pw \/ row'[u].rh = None
    BY <1>5 DEF LaunchMoves
  <2>2. row'[u] = task'[t].snap[u]
    BY <2>1 DEF LaunchMoves, Holds
  <2>3. Mentioned(task'[t]) \subseteq strays'
    BY <1>1, <1>3, <2>1 DEF Overlaps
  <2>4. row'[u].pw \in Mentioned(task'[t])
    BY <2>1, <2>2, MentionsIs DEF TypeOK
  <2>5. QED BY <2>1, <2>3, <2>4 DEF TypeOK
<1>6. QED BY <1>4, <1>5

LEMMA LeavingStep ==
    ASSUME TypeOK, TypeOK', Shape, Shape', Rows, Owner, Overlaps, Overlaps', Track, Leaving, [Next]_vars,
           EditImported = FALSE
    PROVE  Leaving'
<1> SUFFICES ASSUME NEW a \in Tasks, NEW u \in Users, Parting(a, u)', There(u)', row'[u].source = "managed"
             PROVE  row'[u].rh \in live' => row'[u].rh \in strays'
  BY DEF Leaving, Calm
<1>1. ASSUME NEW t \in Tasks, Request(t) PROVE row'[u].rh \in live' => row'[u].rh \in strays'
  BY <1>1, LaunchIs, LaunchMovesIs, LeavingLaunch
<1>2. ASSUME NEW t \in Tasks, RowStep(t) \/ BoxStep(t) \/ ImportStep(t)
      PROVE  row'[u].rh \in live' => row'[u].rh \in strays'
  BY <1>2, MovesIs, LiveMovesIs, LeavingOther, LeavingOwn
<1>3. CASE Crash
  BY <1>3, CrashIs DEF Idle, Parting
<1>4. CASE BoxRestart
  <2>1. Stays(a) /\ live' \subseteq live /\ row' = row /\ strays' = strays
    BY <1>4, BoxRestartIs
  <2>2. Parting(a, u)
    BY <2>1 DEF Stays, Like, Parting
  <2>3. QED BY <2>1, <2>2 DEF Leaving, Calm, There
<1>5. CASE UNCHANGED vars
  BY <1>5 DEF vars, Leaving, Parting, Calm, There
<1>6. QED BY <1>1, <1>2, <1>3, <1>4, <1>5 DEF Next

LEMMA HasMentioned ==
    ASSUME TypeOK, NEW a \in Tasks, NEW u \in Users, NEW h \in Passwords, TaskHas(a, u, h)
    PROVE  h \in Mentioned(task[a])
BY MentionsIs, TaskFields DEF TaskHas, Keeps, Kept

\* A hash stays accounted for.
Accounted(t, u, h) == h \in strays' \/ Claimed(u, h)' \/ TaskHas(t, u, h)'

\* A task lets go of a user it has not pushed or has folded.
LEMMA DropClaim ==
    ASSUME TypeOK, Track, Even, NEW t \in Tasks, NEW u \in Users, NEW h \in Passwords, h \in live, Keeps(t, u),
           h \in {task[t].snap[u].pw, task[t].snap[u].rh}, task[t].pc # "hash", Folded(t, u) \/ ~Pushing(t, u)
    PROVE  h \in strays \/ Claimed(u, h)
<1>1. Holds(t, u)
  BY DEF Keeps, Kept, Holds
<1>2. CASE Blurred(t, u)
  <2>1. h \in Mentioned(task[t])
    BY HasMentioned DEF TaskHas
  <2>2. QED BY <1>2, <2>1 DEF Blurred, Upset
<1>3. CASE row[u] = Now(t, u)
  <2>1. PICK b \in Row : b = task[t].snap[u]
    BY TaskFields
  <2>2. /\ row[u].is = "there" /\ row[u].source = "managed"
        /\ row[u].rh = IF Folded(t, u) /\ task[t].ok THEN b.pw ELSE b.rh
    BY <1>3, <2>1 DEF Now, Row, Keeps, Kept
  <2>3. CASE b.pw = b.rh
    BY <2>1, <2>2, <2>3 DEF Claimed, There
  <2>4. CASE b.pw # b.rh
    <3>1. Calm(b.rh) /\ (~Pushing(t, u) => Calm(b.pw))
      BY <2>1, <2>4 DEF Even, At
    <3>2. CASE Folded(t, u) /\ task[t].ok
      BY <2>1, <2>2, <3>1, <3>2 DEF Claimed, There, Calm
    <3>3. CASE ~(Folded(t, u) /\ task[t].ok)
      BY <2>1, <2>2, <3>1, <3>3 DEF Claimed, There, Calm, Pushing
    <3>4. QED BY <3>2, <3>3
  <2>5. QED BY <2>3, <2>4
<1>4. QED BY <1>1, <1>2, <1>3 DEF Track

LEMMA DropKept ==
    ASSUME TypeOK, Track, Even, NEW t \in Tasks, NEW u \in Users, NEW h \in Passwords, h \in live, Keeps(t, u),
           h \in {task[t].snap[u].pw, task[t].snap[u].rh}, task[t].pc # "hash", Folded(t, u) \/ ~Pushing(t, u),
           row'[u] = row[u], strays \subseteq strays'
    PROVE  Accounted(t, u, h)
<1>1. h \in strays \/ Claimed(u, h)
  BY DropClaim
<1>2. QED BY <1>1 DEF Accounted, Claimed, There

\* Where a task has no more to account for than its instances.
LEMMA HasIs ==
    ASSUME TypeOK, Shape, NEW t \in Tasks, NEW u \in Users, NEW h \in Passwords, TaskHas(t, u, h),
           task[t].pc \notin {"patch", "adopt"}
    PROVE  \/ Keeps(t, u) /\ h \in {task[t].snap[u].pw, task[t].snap[u].rh}
           \/ h \in task[t].old /\ task[t].pc \in {"hash", "config", "connect"}
<1>1. CASE u \in task[t].rows /\ h = task[t].new
  BY <1>1 DEF Shape, ShapeOf, Keeps
<1>2. QED BY <1>1 DEF TaskHas, Shape, ShapeOf

LEMMA KeptFolding ==
    ASSUME TypeOK, TypeOK', Shape, Track, Even, NEW t \in Tasks,
           NEW ok, NEW bad, NEW old, NEW alone, Folding(t, ok, bad, old, alone),
           task[t].pc \in {"connect", "list", "apply"}, row' = row, strays \subseteq strays',
           NEW u \in Users, NEW h \in Passwords, h \in live, TaskHas(t, u, h), h \in task[t].old => h \in strays'
    PROVE  Accounted(t, u, h)
<1>1. CASE Keeps(t, u) /\ h \in {task[t].snap[u].pw, task[t].snap[u].rh}
  <2>1. CASE task[t].push = {}
    BY <1>1, <2>1, DropKept DEF Pushing
  <2>2. CASE task[t].push # {}
    BY <1>1, <2>2 DEF Folding, Accounted, TaskHas, Keeps, Kept
  <2>3. QED BY <2>1, <2>2
<1>2. QED BY <1>1, HasIs DEF Accounted

LEMMA KeptFold ==
    ASSUME TypeOK, TypeOK', Shape, Track, Even, NEW t \in Tasks, NEW u \in Users, FoldsUser(t, u),
           NEW v \in Users, NEW h \in Passwords, h \in live, TaskHas(t, v, h)
    PROVE  Accounted(t, v, h)
<1>1. PICK r \in Task : r = task[t]
  BY TaskFields
<1>2. PICK q \in Task : q = task'[t]
  BY DEF TypeOK
<1>3. r.pc = "fold" /\ u \in r.todo /\ live' = live /\ strays' = strays /\ (v # u => row'[v] = row[v])
  BY <1>1 DEF FoldsUser
<1>4. Keeps(t, v) /\ h \in {r.snap[v].pw, r.snap[v].rh}
  BY <1>1, <1>3, HasIs
<1>5. CASE Core(q, r)
  BY <1>1, <1>2, <1>4, <1>5 DEF Core, Accounted, TaskHas, Keeps, Kept
<1>6. CASE ~Core(q, r)
  <2>1. r.todo = {u}
    BY <1>1, <1>2, <1>6 DEF FoldsUser
  <2>2. CASE v # u
    <3>1. Folded(t, v) \/ ~Pushing(t, v)
      BY <1>1, <1>3, <2>1, <2>2 DEF Folded, Pushing, At
    <3>2. QED BY <1>1, <1>3, <1>4, <2>2, <3>1, DropKept
  <2>3. CASE v = u
    <3>1. PICK b \in Row : b = r.snap[u]
      BY <1>1, TaskFields
    <3>2. CASE Blurred(t, u)
      BY <1>3, <2>3, <3>2, HasMentioned DEF Blurred, Upset, Accounted
    <3>3. CASE row[u] = Now(t, u)
      <4>1. row[u] = b
        BY <1>1, <1>3, <3>1, <3>3 DEF Now, Folded, At
      <4>2. There(u) /\ row[u].source = "managed"
        BY <1>1, <1>4, <2>3, <3>1, <4>1 DEF There, Keeps, Kept
      <4>3. /\ row'[u].is = "there" /\ row'[u].source = "managed"
            /\ row'[u].rh = IF r.ok /\ b.rh # b.pw THEN b.pw ELSE b.rh
        BY <1>1, <3>1, <4>1, <4>2 DEF FoldsUser, There
      <4>4. b.rh # b.pw => Calm(b.rh) /\ (~r.ok => Calm(b.pw))
        BY <1>1, <1>3, <1>4, <2>3, <3>1 DEF Even, At, Pushing
      <4>5. row'[u].rh = h \/ h \in strays'
        BY <1>3, <1>4, <2>3, <3>1, <4>3, <4>4 DEF Calm
      <4>6. QED BY <2>3, <4>3, <4>5 DEF Accounted, Claimed, There
    <3>4. QED BY <1>4, <2>3, <3>2, <3>3 DEF Track, Holds, Keeps, Kept
  <2>4. QED BY <2>2, <2>3
<1>7. QED BY <1>5, <1>6

LEMMA KeptWrite ==
    ASSUME TypeOK, TypeOK', Shape, Track, Even, NEW t \in Tasks, NEW u \in Users,
           PatchRow(t, u) \/ WriteHash(t, u) \/ WriteConfig(t, u) \/ WriteDefaults(t, u) \/ AdoptRow(t, u),
           NEW v \in Users, NEW h \in Passwords, h \in live, TaskHas(t, v, h)
    PROVE  Accounted(t, v, h)
<1>1. PICK r : r = task[t]
  OBVIOUS
<1>2. PICK q : q = task'[t]
  OBVIOUS
<1>3. PICK b : b = r.snap[u]
  OBVIOUS
<1>4. PICK a : a = q.snap[u]
  OBVIOUS
<1>5. Writes(t, u)
  BY SMTT(30), WritesIs
<1>6. /\ r.pc \in {"patch", "hash", "config", "defaults", "adopt"} /\ q.rows = r.rows /\ u \in r.rows
      /\ live' = live /\ strays \subseteq strays' /\ a.is = b.is /\ b.is = "there" /\ a.source = "managed"
  BY <1>1, <1>2, <1>3, <1>4, <1>5 DEF Writes, Saves, Holds
<1>7. /\ r.push = {} /\ \A w \in r.rows : w = u
      /\ r.pc # "adopt" => Kept(r, u)
  BY <1>1, <1>6 DEF Shape, ShapeOf, Single
<1>8. /\ v = u
      /\ (Kept(r, u) /\ h \in {b.pw, b.rh}) \/ h \in r.old \/ h = r.new
  BY <1>1, <1>3, <1>7 DEF TaskHas, Keeps, Kept
<1>9. h \in strays' \/ h \in {a.pw, a.rh} \/ h \in q.old \/ h = q.new => Accounted(t, v, h)
  BY <1>2, <1>4, <1>6, <1>8 DEF Accounted, TaskHas, Keeps, Kept
<1>10. (Kept(r, u) /\ b.rh # b.pw) => /\ r.pc # "hash" => (b.rh \in live => b.rh \in strays)
                                      /\ b.pw \in live => b.pw \in strays
  BY <1>1, <1>3, <1>7 DEF Even, Keeps, At, Pushing, Calm
<1>11. CASE PatchRow(t, u)
  <2>1. /\ r.pc = "patch" /\ a.rh = b.rh /\ a.pw = IF r.new = None THEN b.pw ELSE r.new
    BY <1>1, <1>2, <1>3, <1>4, <1>11, PatchRowIs
  <2>2. r.old = {}
    BY <1>1, <2>1 DEF Shape, ShapeOf
  <2>3. QED BY <1>6, <1>8, <1>9, <1>10, <2>1, <2>2
<1>12. CASE WriteHash(t, u)
  <2>1. r.pc = "hash" /\ a.pw = b.pw /\ a.rh = b.pw /\ q.old = r.old /\ q.new = r.new
    BY <1>1, <1>2, <1>3, <1>4, <1>12, WriteHashIs
  <2>2. b.rh \in r.old \cup {None}
    BY <1>1, <1>3, <1>6, <2>1 DEF Shape, ShapeOf
  <2>3. QED BY <1>8, <1>9, <2>1, <2>2
<1>13. CASE WriteConfig(t, u)
  <2>1. a.pw = b.pw /\ a.rh = b.rh /\ q.old = r.old /\ q.new = r.new
    BY <1>1, <1>2, <1>3, <1>4, <1>13, WriteConfigIs
  <2>2. QED BY <1>8, <1>9, <2>1
<1>14. CASE WriteDefaults(t, u)
  <2>1. r.pc = "defaults" /\ a.pw = b.pw /\ a.rh = b.pw /\ q.new = r.new
    BY <1>1, <1>2, <1>3, <1>4, <1>14, WriteDefaultsIs
  <2>2. r.old = {}
    BY <1>1, <2>1 DEF Shape, ShapeOf
  <2>3. QED BY <1>6, <1>8, <1>9, <1>10, <2>1, <2>2
<1>15. CASE AdoptRow(t, u)
  <2>1. /\ r.pc = "adopt" /\ a.rh = a.pw /\ a.pw = IF r.new = None THEN b.pw ELSE r.new
        /\ strays' = (IF a.pw = b.pw THEN strays ELSE strays \cup (live \cap {b.rh}))
    BY SMTT(30), <1>1, <1>2, <1>3, <1>4, <1>15, AdoptRowIs
  <2>2. /\ r.old = {}
        /\ IF r.new = None THEN Kept(r, u) /\ b.rh = b.pw ELSE b.pw # r.new
    BY <1>1, <1>3, <1>6, <2>1 DEF Shape, ShapeOf
  <2>3. CASE r.new = None
    BY <1>8, <1>9, <2>1, <2>2, <2>3
  <2>4. CASE r.new # None
    <3>1. a.pw = r.new /\ strays' = strays \cup (live \cap {b.rh})
      BY <2>1, <2>2, <2>4
    <3>2. QED BY <1>6, <1>8, <1>9, <1>10, <2>2, <3>1
  <2>5. QED BY <2>3, <2>4
<1>16. QED BY <1>11, <1>12, <1>13, <1>14, <1>15

\* What a task accounts for stays accounted for.
LEMMA KeptTask ==
    ASSUME TypeOK, TypeOK', Shape, Track, Even, NEW t \in Tasks,
           RowStep(t) \/ BoxStep(t) \/ ImportStep(t),
           NEW u \in Users, NEW h \in Passwords, h \in live, h \in live', TaskHas(t, u, h)
    PROVE  Accounted(t, u, h)
<1>1. ASSUME Core(task'[t], task[t]), h \in task[t].old => h \in task'[t].old \/ h \in strays' PROVE Accounted(t, u, h)
  BY <1>1 DEF Core, Accounted, TaskHas, Keeps, Kept
<1>2. ASSUME NEW v \in Users,
             PatchRow(t, v) \/ WriteHash(t, v) \/ WriteConfig(t, v) \/ WriteDefaults(t, v) \/ AdoptRow(t, v)
      PROVE  Accounted(t, u, h)
  BY <1>2, KeptWrite
<1>3. ASSUME NEW v \in Users, WriteItems(t, v) \/ Assign(t, v) PROVE Accounted(t, u, h)
  <2>1. task[t].pc \in {"items", "assign"} /\ row' = row /\ strays' = strays
    BY <1>3, WriteItemsIs, AssignIs
  <2>2. Folded(t, u) \/ ~Pushing(t, u)
    BY <2>1 DEF Folded, Pushing
  <2>3. Keeps(t, u) /\ h \in {task[t].snap[u].pw, task[t].snap[u].rh}
    BY <2>1, HasIs
  <2>4. QED BY <2>1, <2>2, <2>3, DropKept
<1>4. ASSUME task[t].pc \in {"unlink", "destroy"} \cup Importing PROVE FALSE
  <2>1. Keeps(t, u)
    BY <1>4, HasIs DEF Importing
  <2>2. QED BY <1>4, <2>1, UnbornIs DEF Shape, ShapeOf, Keeps, Kept
<1>5. CASE BoxUnreachable(t)
  <2>1. /\ Folding(t, FALSE, task[t].bad, {}, task[t].alone)
        /\ task[t].pc \in {"connect", "list"}
        /\ row' = row /\ live' = live /\ strays' = strays \cup (task[t].old \cap live)
    BY <1>5, BoxUnreachableIs
  <2>2. QED BY <2>1, KeptFolding
<1>6. CASE PurgeOld(t)
  BY <1>1, <1>6, PurgeOldIs
<1>7. CASE ListUsers(t)
  BY <1>1, <1>7, ListUsersIs
<1>8. ASSUME NEW v \in Users, ApplyUser(t, v) PROVE Accounted(t, u, h)
  BY <1>1, <1>8, ApplyUserIs
<1>9. ASSUME NEW v \in Users, NEW told \in BOOLEAN, CommandFails(t, v, told) PROVE Accounted(t, u, h)
  BY <1>1, <1>9, CommandFailsIs
<1>10. CASE Verify(t) \/ SkipVerify(t)
  <2>1. task[t].pc = "apply" /\ row' = row /\ strays' = strays
    BY <1>10, VerifyIs, SkipVerifyIs
  <2>2. h \notin task[t].old
    BY <2>1 DEF Shape, ShapeOf
  <2>3. QED BY <1>10, <2>1, <2>2, VerifyIs, SkipVerifyIs, KeptFolding
<1>11. ASSUME NEW v \in Users, FoldUser(t, v) PROVE Accounted(t, u, h)
  BY <1>11, FoldUserIs, KeptFold
<1>12. ASSUME ImportStep(t) PROVE FALSE
  BY <1>4, <1>12 DEF ImportStep, FetchLive, FindKnown, EndImport, ImportOne, At, Importing
<1>13. ASSUME RowStep(t) PROVE Accounted(t, u, h)
  BY <1>2, <1>3, <1>4, <1>13 DEF RowStep, UnlinkItems, DestroyRow, At
<1>14. ASSUME BoxStep(t) PROVE Accounted(t, u, h)
  BY <1>5, <1>6, <1>7, <1>8, <1>9, <1>10, <1>11, <1>14 DEF BoxStep
<1>15. QED BY <1>12, <1>13, <1>14

\* What a row accounts for stays accounted for.
LEMMA KeptRow ==
    ASSUME TypeOK, TypeOK', Shape, Rows, Track, Even, Leaving, NEW t \in Tasks,
           RowStep(t) \/ BoxStep(t) \/ ImportStep(t), Moves(t),
           NEW u \in Users, NEW h \in Passwords, h \in live, Claimed(u, h)
    PROVE  Accounted(t, u, h)
<1>1. There(u) /\ row[u].source = "managed" /\ row[u].rh = h /\ strays \subseteq strays'
  BY DEF Claimed, Moves
<1>2. CASE row'[u] = row[u]
  BY <1>1, <1>2 DEF Accounted, Claimed, There
<1>3. ASSUME row'[u] # row[u], Holds(t, u), Blurred(t, u) PROVE Accounted(t, u, h)
  BY <1>1, <1>3 DEF Blurred, Noted, Accounted
<1>4. CASE row'[u] # row[u] /\ \E v \in Users : Writes(t, v)
  <2>1. PICK v \in Users : PatchRow(t, v) \/ WriteHash(t, v) \/ WriteConfig(t, v) \/ WriteDefaults(t, v) \/ AdoptRow(t, v)
    BY <1>4, WritersIs DEF Writes
  <2>2. Writes(t, v)
    BY <2>1, WritesIs
  <2>3. v = u /\ Holds(t, u)
    BY <1>4, <2>2, ZenonT(30) DEF Writes, Saves
  <2>4. CASE Blurred(t, u)
    BY <1>3, <1>4, <2>3, <2>4
  <2>5. CASE row[u] = Now(t, u)
    <3>1. ~Folded(t, u)
      BY <2>2 DEF Writes, Folded, At
    <3>2. row[u] = task[t].snap[u]
      BY <2>5, <3>1 DEF Now
    <3>3. TaskHas(t, u, h)
      BY <1>1, <2>3, <3>2 DEF TaskHas, Keeps, Kept, Holds
    <3>4. QED BY <2>1, <3>3, KeptWrite
  <2>6. QED BY SMTT(30), <2>3, <2>4, <2>5 DEF Track
<1>5. CASE row'[u] # row[u] /\ \E v \in Users : FoldsUser(t, v)
  <2>1. PICK v \in Users : FoldsUser(t, v)
    BY <1>5
  <2>2. Keeps(t, v) /\ v = u
    BY <1>5, <2>1, FoldMoves DEF FoldsUser
  <2>3. Holds(t, u)
    BY <2>2 DEF Keeps, Kept, Holds
  <2>4. CASE Blurred(t, u)
    BY <1>3, <1>5, <2>3, <2>4
  <2>5. CASE row[u] = Now(t, u)
    <3>1. ~Folded(t, u)
      BY <2>1, <2>2 DEF FoldsUser, Folded, At
    <3>2. row[u] = task[t].snap[u]
      BY <2>5, <3>1 DEF Now
    <3>3. TaskHas(t, u, h)
      BY <1>1, <2>2, <3>2 DEF TaskHas
    <3>4. QED BY <2>1, <2>2, <3>3, KeptFold
  <2>6. QED BY <2>3, <2>4, <2>5 DEF Track
<1>6. CASE row'[u] # row[u] /\ \E v \in Users : DestroyRow(t, v)
  <2>1. PICK v \in Users : DestroyRow(t, v)
    BY <1>6
  <2>2. task[t].pc = "destroy" /\ v \in task[t].rows /\ v = u
    BY <1>6, <2>1, DestroyRowIs
  <2>3. Parting(t, u)
    BY <2>2 DEF Parting
  <2>4. Calm(h)
    BY <1>1, <2>3 DEF Leaving
  <2>5. QED BY <1>1, <2>4 DEF Calm, Accounted
<1>7. ASSUME NEW v \in Users, NEW p \in Passwords, ImportOne(t, v, p), row'[u] # row[u] PROVE FALSE
  BY <1>1, <1>7, ImportOneIs DEF There
<1>8. ASSUME Stills(t) PROVE row'[u] = row[u]
  BY <1>8 DEF Stills
<1>9. QED BY <1>2, <1>4, <1>5, <1>6, <1>7, <1>8, StillsIs

LEMMA ClaimsMove ==
    ASSUME TypeOK, TypeOK', Shape, Shape', Rows, Track, Even, Leaving, Claims, NEW t \in Tasks,
           RowStep(t) \/ BoxStep(t) \/ ImportStep(t)
    PROVE  Claims'
<1>1. Moves(t) /\ LiveMoves(t)
  BY MovesIs, LiveMovesIs
<1>2. known' = known /\ strays \subseteq strays' /\ \A a \in Tasks : a # t => task'[a] = task[a]
  BY <1>1 DEF Moves, Others
<1>3. ASSUME NEW h \in Passwords, h \in live', h \in known
      PROVE  h \in strays' \/ (\E u \in Users : Claimed(u, h)') \/ \E a \in Tasks, u \in Users : TaskHas(a, u, h)'
  <2>1. ASSUME NEW u \in Users, Accounted(t, u, h)
        PROVE  h \in strays' \/ (\E v \in Users : Claimed(v, h)') \/ \E a \in Tasks, v \in Users : TaskHas(a, v, h)'
    BY <2>1 DEF Accounted
  <2>2. CASE h \notin live
    <3>1. PICK u \in Users : /\ Keeps(t, u) /\ h = task[t].snap[u].pw
                             /\ task'[t].rows = task[t].rows /\ task'[t].snap = task[t].snap
      BY <1>1, <1>3, <2>2 DEF LiveMoves
    <3>2. TaskHas(t, u, h)'
      BY <3>1 DEF TaskHas, Keeps, Kept
    <3>3. QED BY <3>2
  <2>3. CASE h \in live
    <3>1. CASE h \in strays
      BY <1>2, <3>1
    <3>2. CASE \E u \in Users : Claimed(u, h)
      BY <1>1, <2>1, <2>3, <3>2, KeptRow
    <3>3. CASE \E u \in Users : TaskHas(t, u, h)
      BY <1>3, <2>1, <2>3, <3>3, KeptTask
    <3>4. CASE \E a \in Tasks \ {t}, u \in Users : TaskHas(a, u, h)
      <4>1. PICK a \in Tasks \ {t}, u \in Users : TaskHas(a, u, h)
        BY <3>4
      <4>2. TaskHas(a, u, h)'
        BY <1>2, <4>1 DEF TaskHas, Keeps
      <4>3. QED BY <4>1, <4>2
    <3>5. QED BY <1>3, <2>3, <3>1, <3>2, <3>3, <3>4 DEF Claims
  <2>4. QED BY <2>2, <2>3
<1>4. live' \subseteq Passwords
  BY DEF TypeOK
<1>5. QED BY <1>2, <1>3, <1>4 DEF Claims

LEMMA ClaimsLaunch ==
    ASSUME TypeOK, TypeOK', Shape, Owner, Claims, NEW t \in Tasks, Launches(t), LaunchMoves(t)
    PROVE  Claims'
<1>1. /\ \A a \in Tasks : a # t => Stays(a)
      /\ live' = live /\ strays \subseteq strays' /\ task[t].pc = "idle"
  BY DEF Launches, Begins
<1>2. SUFFICES ASSUME NEW h \in Passwords, h \in live, h \in known'
      PROVE  h \in strays' \/ (\E u \in Users : Claimed(u, h)') \/ \E a \in Tasks, u \in Users : TaskHas(a, u, h)'
  BY <1>1 DEF Claims, TypeOK
<1>3. CASE h \notin known
  <2>1. h \in Foreign
    BY <1>2, <1>3 DEF Owner
  <2>2. \E u \in Users : Claimed(u, h)' \/ TaskHas(t, u, h)'
    BY <1>2, <1>3, <2>1 DEF LaunchMoves
  <2>3. QED BY <2>2
<1>4. CASE h \in strays
  BY <1>1, <1>4
<1>5. CASE \E u \in Users : Claimed(u, h)
  <2>1. PICK u \in Users : Claimed(u, h)
    BY <1>5
  <2>2. row'[u] = row[u]
    BY <2>1 DEF LaunchMoves, Claimed, There
  <2>3. Claimed(u, h)'
    BY <2>1, <2>2 DEF Claimed, There
  <2>4. QED BY <2>3
<1>6. CASE \E a \in Tasks, u \in Users : TaskHas(a, u, h)
  <2>1. PICK a \in Tasks, u \in Users : TaskHas(a, u, h)
    BY <1>6
  <2>2. a # t
    BY <1>1, <2>1, IdleRows DEF TaskHas, Keeps, Kept
  <2>3. TaskHas(a, u, h)'
    BY <1>1, <2>1, <2>2, StaysIs
  <2>4. QED BY <2>3
<1>7. QED BY <1>2, <1>3, <1>4, <1>5, <1>6 DEF Claims

LEMMA ClaimsStep ==
    ASSUME TypeOK, TypeOK', Shape, Shape', Rows, Owner, Track, Even, Leaving, Claims, [Next]_vars, EditImported = FALSE
    PROVE  Claims'
<1>1. ASSUME NEW t \in Tasks, Request(t) PROVE Claims'
  BY <1>1, LaunchIs, LaunchMovesIs, ClaimsLaunch
<1>2. ASSUME NEW t \in Tasks, RowStep(t) \/ BoxStep(t) \/ ImportStep(t) PROVE Claims'
  BY <1>2, ClaimsMove
<1>3. CASE Crash
  <2>1. /\ \A a \in Tasks : \A h \in Mentioned(task[a]) : h \in live => h \in strays'
        /\ row' = row /\ live' = live /\ known' = known /\ strays \subseteq strays'
    BY <1>3, CrashIs
  <2>2. ASSUME NEW h \in Passwords, h \in live, h \in known PROVE h \in strays' \/ \E u \in Users : Claimed(u, h)'
    <3>1. \A a \in Tasks, u \in Users : TaskHas(a, u, h) => h \in strays'
      BY <2>1, <2>2, HasMentioned
    <3>2. \A u \in Users : Claimed(u, h) => Claimed(u, h)'
      BY <2>1 DEF Claimed, There
    <3>3. QED BY <2>1, <2>2, <3>1, <3>2 DEF Claims
  <2>3. QED BY <2>1, <2>2 DEF Claims, TypeOK
<1>4. CASE BoxRestart
  <2>1. /\ \A a \in Tasks : Stays(a)
        /\ live' \subseteq live /\ row' = row /\ known' = known /\ strays' = strays
    BY <1>4, BoxRestartIs
  <2>2. \A a \in Tasks, u \in Users, h \in Passwords : TaskHas(a, u, h)' <=> TaskHas(a, u, h)
    BY <2>1, StaysIs
  <2>3. \A u \in Users, h \in Passwords : Claimed(u, h)' <=> Claimed(u, h)
    BY <2>1 DEF Claimed, There
  <2>4. QED BY <2>1, <2>2, <2>3 DEF Claims, TypeOK
<1>5. CASE UNCHANGED vars
  BY <1>5 DEF vars, Claims, Claimed, There, TaskHas, Keeps
<1>6. QED BY <1>1, <1>2, <1>3, <1>4, <1>5 DEF Next

LEMMA BusyOverlaps ==
    ASSUME TypeOK, Shape, Overlaps, NEW a \in Tasks, task[a].pc \in Importing, NEW o \in Tasks, o # a, NEW u \in Users,
           u \in task[o].rows
    PROVE  Mentioned(task[o]) \subseteq strays
BY DEF Shape, ShapeOf, Overlaps

\* While an import is under way, what a row held by another task has is a stray.
LEMMA HeldNoted ==
    ASSUME TypeOK, Shape, Overlaps, Track, NEW a \in Tasks, task[a].pc \in Importing, NEW o \in Tasks, o # a,
           NEW u \in Users, Holds(o, u), There(u), row[u].rh \in Passwords
    PROVE  row[u].rh \in strays
<1>1. Mentioned(task[o]) \subseteq strays
  BY BusyOverlaps DEF Holds
<1>2. QED BY <1>1, NowMentioned DEF Track, Blurred, Noted

Listed(a, h) ==
    \/ h \in Foreign \cup strays
    \/ At(a, "i_rows") /\ \E u \in Users : Claimed(u, h) /\ \A o \in Tasks : ~Parting(o, u)

LEMMA ListingIs ==
    /\ Listing => \A a \in Tasks, h \in Passwords : task[a].pc \in {"i_rows", "i_create"} /\ h \in task[a].listed
                    => Listed(a, h)
BY DEF Listing, Listed, At

LEMMA ListedOther ==
    ASSUME TypeOK, TypeOK', Shape, Overlaps, Track, Listing, NEW t \in Tasks, RowStep(t) \/ BoxStep(t) \/ ImportStep(t),
           Moves(t), NEW a \in Tasks, a # t, task'[a].pc \in {"i_rows", "i_create"}, NEW h \in Passwords,
           h \in task'[a].listed
    PROVE  Listed(a, h)'
<1>1. task'[a] = task[a] /\ strays \subseteq strays'
  BY DEF Moves, Others
<1>2. Listed(a, h)
  BY <1>1, ListingIs
<1>3. CASE h \in Foreign \cup strays
  BY <1>1, <1>3 DEF Listed
<1>4. CASE At(a, "i_rows") /\ h \notin Foreign \cup strays
  <2>1. PICK u \in Users : Claimed(u, h) /\ \A o \in Tasks : ~Parting(o, u)
    BY <1>2, <1>4 DEF Listed
  <2>2. ~Holds(t, u)
    BY <1>4, <2>1, HeldNoted DEF Claimed, At, Importing
  <2>3. row'[u] = row[u]
    BY <2>1, <2>2 DEF Moves, RowMoves, Parting, Claimed, There, At
  <2>4. ~Parting(t, u)'
    <3>1. SUFFICES ASSUME Parting(t, u)' PROVE FALSE
      OBVIOUS
    <3>2. task[t].pc = "connect" /\ task[t].then = "unlink" /\ u \in task[t].rows
      BY <2>1, <3>1, PartsIs DEF Parts
    <3>3. Holds(t, u)
      BY <3>2 DEF Shape, ShapeOf, Kept, Holds
    <3>4. QED BY <2>2, <3>3
  <2>5. \A o \in Tasks : ~Parting(o, u)'
    BY <2>1, <2>4 DEF Moves, Others, Parting
  <2>6. Claimed(u, h)'
    BY <2>1, <2>3 DEF Claimed, There
  <2>7. QED BY <1>1, <1>4, <2>5, <2>6 DEF Listed, At
<1>5. QED BY <1>2, <1>3, <1>4 DEF Listed

LEMMA ListedFetch ==
    ASSUME TypeOK, TypeOK', Shape, Owner, Overlaps, Leaving, Claims, NEW t \in Tasks, FetchLive(t),
           task'[t].pc = "i_rows", NEW h \in Passwords, h \in task'[t].listed
    PROVE  Listed(t, h)'
<1>1. /\ task[t].pc = "i_list" /\ h \in live /\ row' = row /\ strays' = strays
      /\ \A o \in Tasks : o # t => task'[o] = task[o]
  BY FetchLiveIs DEF Goes, Others, Ends, Idle
<1>2. SUFFICES ASSUME h \notin Foreign \cup strays
               PROVE  \E u \in Users : Claimed(u, h) /\ \A o \in Tasks : ~Parting(o, u)
  <2>1. \A o \in Tasks, u \in Users : ~Parting(o, u) => ~Parting(o, u)'
    BY <1>1 DEF Parting
  <2>2. \A u \in Users : Claimed(u, h) => Claimed(u, h)'
    BY <1>1 DEF Claimed, There
  <2>3. QED BY <1>1, <2>1, <2>2 DEF Listed, At
<1>3. h \in known
  BY <1>1, <1>2 DEF Owner
<1>4. ASSUME NEW o \in Tasks, NEW u \in Users, TaskHas(o, u, h) PROVE FALSE
  <2>1. h \in Mentioned(task[o]) /\ u \in task[o].rows
    BY <1>4, HasMentioned DEF TaskHas, Keeps, Kept
  <2>2. CASE o # t
    BY <1>1, <1>2, <2>1, <2>2, BusyOverlaps DEF Importing
  <2>3. CASE o = t
    <3>1. Keeps(t, u)
      BY <1>1, <1>4, <2>3, HasIs
    <3>2. QED BY <1>1, <3>1, UnbornIs DEF Shape, ShapeOf, Importing, Keeps, Kept
  <2>4. QED BY <2>2, <2>3
<1>5. PICK u \in Users : Claimed(u, h)
  BY <1>1, <1>2, <1>3, <1>4 DEF Claims
<1>6. \A o \in Tasks : ~Parting(o, u)
  BY <1>1, <1>2, <1>5 DEF Leaving, Claimed, Calm
<1>7. QED BY <1>5, <1>6

LEMMA ListedOwn ==
    ASSUME TypeOK, TypeOK', Shape, Owner, Overlaps, Leaving, Claims, Listing, NEW t \in Tasks,
           RowStep(t) \/ BoxStep(t) \/ ImportStep(t), task'[t].pc \in {"i_rows", "i_create"}, NEW h \in Passwords,
           h \in task'[t].listed
    PROVE  Listed(t, h)'
<1>1. ASSUME NEW u \in Users, Writes(t, u) PROVE FALSE
  BY <1>1 DEF Writes
<1>2. ASSUME NEW u \in Users, FoldsUser(t, u) PROVE FALSE
  <2>1. task[t].pc = "fold" /\ task[t].then \in {"idle", "items", "assign", "unlink"}
    BY <1>2 DEF FoldsUser, Shape, ShapeOf, OnBox
  <2>2. QED BY <1>2, <2>1 DEF FoldsUser, Goes, Idle
<1>3. CASE RowStep(t)
  <2>1. ASSUME NEW u \in Users, WriteItems(t, u) \/ Assign(t, u) \/ DestroyRow(t, u) \/ UnlinkItems(t, u) PROVE FALSE
    BY <2>1, WriteItemsIs, AssignIs, DestroyRowIs, UnlinkItemsIs DEF Ends, Idle, Goes
  <2>2. QED BY <1>1, <1>3, <2>1, WritesIs DEF RowStep
<1>4. CASE BoxStep(t)
  <2>1. ASSUME NEW ok, NEW bad, NEW old, NEW alone, Folding(t, ok, bad, old, alone),
               task[t].pc \in {"connect", "list", "apply"}
        PROVE  FALSE
    BY <2>1 DEF Folding, Idle, Shape, ShapeOf, OnBox
  <2>2. ASSUME BoxUnreachable(t) \/ Verify(t) \/ SkipVerify(t) PROVE FALSE
    BY <2>1, <2>2, BoxUnreachableIs, VerifyIs, SkipVerifyIs
  <2>3. ASSUME PurgeOld(t) \/ ListUsers(t) PROVE FALSE
    BY <2>3, PurgeOldIs, ListUsersIs
  <2>4. ASSUME NEW u \in Users, ApplyUser(t, u) PROVE FALSE
    BY <2>4, ApplyUserIs
  <2>5. ASSUME NEW u \in Users, NEW told \in BOOLEAN, CommandFails(t, u, told) PROVE FALSE
    BY <2>5, CommandFailsIs
  <2>6. ASSUME NEW u \in Users, FoldUser(t, u) PROVE FALSE
    BY <1>2, <2>6, FoldUserIs
  <2>7. QED BY SMTT(30), <1>4, <2>2, <2>3, <2>4, <2>5, <2>6 DEF BoxStep
<1>5. CASE FetchLive(t)
  BY <1>5, ListedFetch, FetchLiveIs DEF Ends, Idle, Goes
<1>6. CASE FindKnown(t)
  <2>1. /\ task[t].pc = "i_rows" /\ task'[t].pc = "i_create" /\ h \in task[t].listed /\ strays' = strays
        /\ \A u \in Users : There(u) => HashOf(row[u]) # h
    BY <1>6, FindKnownIs DEF Goes
  <2>4. \A u \in Users : There(u) => row[u].rh # h
    BY <2>1 DEF HashOf
  <2>2. Listed(t, h)
    BY <2>1, ListingIs
  <2>3. QED BY <2>1, <2>2, <2>4 DEF Listed, Claimed
<1>7. ASSUME NEW u \in Users, NEW p \in Passwords, ImportOne(t, u, p) PROVE Listed(t, h)'
  <2>1. task[t].pc = "i_create" /\ h \in task[t].listed /\ strays' = strays
    BY <1>7, ImportOneIs
  <2>2. Listed(t, h)
    BY <2>1, ListingIs
  <2>3. QED BY <2>1, <2>2 DEF Listed, At
<1>8. ASSUME EndImport(t) PROVE FALSE
  BY <1>8, EndImportIs DEF Ends, Idle
<1>9. QED BY SMTT(30), <1>3, <1>4, <1>5, <1>6, <1>7, <1>8 DEF ImportStep

LEMMA ListedLaunch ==
    ASSUME TypeOK, TypeOK', Listing, NEW t \in Tasks, Launches(t), LaunchMoves(t),
           NEW a \in Tasks, task'[a].pc \in {"i_rows", "i_create"}, NEW h \in Passwords, h \in task'[a].listed
    PROVE  Listed(a, h)'
<1>1. a # t
  BY DEF LaunchMoves
<1>2. (\A o \in Tasks : o # t => Stays(o)) /\ strays \subseteq strays'
  BY DEF Launches, Begins
<1>3. Listed(a, h) /\ (At(a, "i_rows") => At(a, "i_rows")')
  BY <1>1, <1>2, ListingIs DEF Stays, Like, At
<1>4. CASE h \in Foreign \cup strays
  BY <1>2, <1>4 DEF Listed
<1>5. CASE At(a, "i_rows") /\ \E u \in Users : Claimed(u, h) /\ \A o \in Tasks : ~Parting(o, u)
  <2>1. PICK u \in Users : Claimed(u, h) /\ \A o \in Tasks : ~Parting(o, u)
    BY <1>5
  <2>2. row'[u] = row[u]
    BY <2>1 DEF LaunchMoves, Claimed, There
  <2>3. Claimed(u, h)'
    BY <2>1, <2>2 DEF Claimed, There
  <2>4. \A o \in Tasks : o # t => ~Parting(o, u)'
    BY <1>2, <2>1 DEF Stays, Like, Parting
  <2>5. ~Parting(t, u)'
    BY <2>3 DEF LaunchMoves, Claimed
  <2>6. QED BY <1>3, <1>5, <2>3, <2>4, <2>5 DEF Listed
<1>6. QED BY <1>3, <1>4, <1>5 DEF Listed

LEMMA ListingStep ==
    ASSUME TypeOK, TypeOK', Shape, Shape', Rows, Owner, Overlaps, Track, Leaving, Claims, Listing, [Next]_vars,
           EditImported = FALSE
    PROVE  Listing'
<1> SUFFICES ASSUME NEW a \in Tasks, task'[a].pc \in {"i_rows", "i_create"}, NEW h \in Passwords, h \in task'[a].listed
             PROVE  Listed(a, h)'
  BY DEF Listing, Listed, At
<1>1. ASSUME NEW t \in Tasks, Request(t) PROVE Listed(a, h)'
  BY <1>1, LaunchIs, LaunchMovesIs, ListedLaunch
<1>2. ASSUME NEW t \in Tasks, RowStep(t) \/ BoxStep(t) \/ ImportStep(t) PROVE Listed(a, h)'
  BY <1>2, MovesIs, ListedOther, ListedOwn
<1>3. CASE Crash
  BY <1>3, CrashIs DEF Idle
<1>4. CASE BoxRestart
  <2>1. (\A o \in Tasks : Stays(o)) /\ row' = row /\ strays' = strays
    BY <1>4, BoxRestartIs
  <2>2. Listed(a, h)
    BY <2>1, ListingIs DEF Stays, Like
  <2>3. /\ At(a, "i_rows")' <=> At(a, "i_rows")
        /\ \A o \in Tasks, u \in Users : Parting(o, u)' <=> Parting(o, u)
        /\ \A u \in Users : Claimed(u, h)' <=> Claimed(u, h)
    BY <2>1 DEF Stays, Like, At, Parting, Claimed, There
  <2>4. QED BY <2>1, <2>2, <2>3 DEF Listed
<1>5. CASE UNCHANGED vars
  <2>1. Listed(a, h)
    BY <1>5, ListingIs DEF vars
  <2>2. QED BY <1>5, <2>1 DEF vars, Listed, At, Parting, Claimed, There
<1>6. QED BY <1>1, <1>2, <1>3, <1>4, <1>5 DEF Next

LEMMA ForeignStep ==
    ASSUME TypeOK, TypeOK', Shape, Shape', Rows, Listing, ImportsAreForeign, [Next]_vars, EditImported = FALSE
    PROVE  ImportsAreForeign'
<1> SUFFICES ASSUME NEW u \in Users, There(u)', row'[u].source = "imported"
             PROVE  row'[u].rh \in Foreign \/ row'[u].rh \in strays'
  BY DEF ImportsAreForeign
<1>1. ASSUME row'[u] = row[u], strays \subseteq strays' PROVE row'[u].rh \in Foreign \/ row'[u].rh \in strays'
  BY <1>1 DEF ImportsAreForeign, There
<1>2. ASSUME NEW t \in Tasks, Request(t) PROVE row'[u].rh \in Foreign \/ row'[u].rh \in strays'
  <2>1. LaunchMoves(t) /\ strays \subseteq strays'
    BY <1>2, LaunchIs, LaunchMovesIs DEF Launches, Begins
  <2>2. row'[u] = row[u]
    BY <2>1 DEF LaunchMoves
  <2>3. QED BY <1>1, <2>1, <2>2
<1>3. ASSUME NEW t \in Tasks, RowStep(t) \/ BoxStep(t) \/ ImportStep(t)
      PROVE  row'[u].rh \in Foreign \/ row'[u].rh \in strays'
  <2>1. RowMoves(t, u) /\ strays \subseteq strays'
    BY <1>3, MovesIs DEF Moves
  <2>2. CASE row'[u].rh \in Passwords /\ At(t, "i_create") /\ row'[u].rh \in task[t].listed
    BY <2>1, <2>2 DEF Listing
  <2>3. CASE row'[u] = row[u]
    BY <1>1, <2>1, <2>3
  <2>4. QED BY <2>1, <2>2, <2>3 DEF RowMoves, There
<1>4. CASE Crash
  BY <1>1, <1>4, CrashIs
<1>5. CASE BoxRestart
  BY <1>1, <1>5, BoxRestartIs
<1>6. CASE UNCHANGED vars
  BY <1>1, <1>6 DEF vars
<1>7. QED BY <1>2, <1>3, <1>4, <1>5, <1>6 DEF Next

-----------------------------------------------------------------------------
(* The steps of a task by what they do to its users *)

\* t writes a row; where it goes on with a config or an item it says of which password.
Puts(t, u) ==
    LET r == task[t]
        q == task'[t]
        b == r.snap[u]
        a == q.snap[u]
    IN  /\ Writes(t, u)
        /\ q.pc = "assign" => u \in suspect'
        /\ q.pc \in {"connect", "assign"} => a.config = a.pw \/ u \in torn'
        /\ q.pc \in {"connect", "config"} /\ q.then = "idle" =>
              \/ u \in torn'
              \/ /\ a.pw = b.pw
                 /\ (r.pc = "config" /\ r.then = "idle") \/ (r.pc = "adopt" /\ r.new = None)

\* An update or an assignment has written the item and is done.
Closes(t, u) ==
    /\ Ends(t) /\ task[t].pc \in {"items", "assign"} /\ u \in task[t].rows
    /\ \A v \in Users : v # u => item'[v] = item[v]
    /\ item'[u] \in {None, task[t].snap[u].config}
    /\ torn' = (IF task[t].pc = "items" /\ task[t].alone THEN torn \ {u} ELSE torn)
    /\ row' = row /\ live' = live /\ suspect' = suspect

\* t goes on with the box, or with a deletion.
Works(t) ==
    /\ Others(t) /\ Core(task'[t], task[t])
    /\ task[t].pc \in {"unlink", "connect", "list", "apply"} /\ task'[t].pc \in {"destroy", "list", "apply"}
    /\ row' = row /\ suspect' = suspect /\ torn' = torn

\* The push of t is over, one way or another.
PushEnds(t) ==
    /\ task[t].pc \in {"connect", "list", "apply"}
    /\ \E ok, bad, old, alone : Folding(t, ok, bad, old, alone)
    /\ row' = row /\ item' = item /\ live' = live /\ torn' = torn /\ suspect \subseteq suspect'

LEMMA PutsIs ==
    ASSUME TypeOK, TypeOK', Shape, NEW t \in Tasks, NEW u \in Users,
           PatchRow(t, u) \/ WriteHash(t, u) \/ WriteConfig(t, u) \/ WriteDefaults(t, u) \/ AdoptRow(t, u)
    PROVE  Puts(t, u)
<1>1. Writes(t, u) /\ ShapeOf(task[t])
  BY WritesIs DEF Shape
<1>2. CASE PatchRow(t, u)
  <2>1. task[t].pc = "patch" /\ task'[t].pc \in {"hash", "config"} /\ task'[t].then = task[t].then
    BY <1>2, PatchRowIs
  <2>2. task[t].then = "items"
    BY <1>1, <2>1 DEF ShapeOf
  <2>3. QED BY <1>1, <2>1, <2>2 DEF Puts
<1>3. CASE WriteHash(t, u)
  <2>1. task[t].pc = "hash" /\ task'[t].pc = "config" /\ task'[t].then = task[t].then
    BY <1>3, WriteHashIs
  <2>2. task[t].then = "items"
    BY <1>1, <2>1 DEF ShapeOf
  <2>3. QED BY <1>1, <2>1, <2>2 DEF Puts
<1>4. CASE WriteConfig(t, u)
  <2>1. /\ task[t].pc = "config" /\ task'[t].pc = "connect" /\ task'[t].then = task[t].then
        /\ task'[t].snap[u].pw = task[t].snap[u].pw /\ task'[t].snap[u].config = task[t].snap[u].pw
    BY <1>4, WriteConfigIs
  <2>2. QED BY <1>1, <2>1 DEF Puts
<1>5. CASE WriteDefaults(t, u)
  <2>1. /\ task[t].pc = "defaults"
        /\ (task'[t].pc = "connect" /\ task'[t].then = "assign") \/ (task'[t].pc = "assign" /\ u \in suspect')
        /\ task'[t].snap[u].pw = task[t].snap[u].pw /\ task'[t].snap[u].config = task[t].snap[u].pw
    BY <1>5, WriteDefaultsIs
  <2>2. QED BY <1>1, <2>1 DEF Puts
<1>6. CASE AdoptRow(t, u)
  <2>1. /\ task[t].pc = "adopt" /\ task'[t].pc = "connect"
        /\ task'[t].snap[u].config = task[t].snap[u].pw
        /\ task'[t].snap[u].pw = IF task[t].new = None THEN task[t].snap[u].pw ELSE task[t].new
        /\ torn' = (IF task'[t].snap[u].pw = task[t].snap[u].pw THEN torn ELSE torn \cup {u})
    BY SMTT(30), <1>6, AdoptRowIs
  <2>2. u \in task[t].rows
    BY <1>1 DEF Writes, Saves
  <2>3. task[t].new # None => task[t].snap[u].pw # task[t].new
    BY <1>1, <2>1, <2>2 DEF ShapeOf
  <2>4. (task'[t].snap[u].pw = task[t].snap[u].pw /\ task[t].new = None) \/ u \in torn'
    BY <2>1, <2>3
  <2>5. QED BY <1>1, <2>1, <2>4 DEF Puts
<1>7. QED BY <1>2, <1>3, <1>4, <1>5, <1>6

LEMMA PushEndsIs ==
    ASSUME TypeOK, TypeOK', NEW t \in Tasks, BoxUnreachable(t) \/ Verify(t) \/ SkipVerify(t)
    PROVE  PushEnds(t)
<1>1. ASSUME BoxUnreachable(t) PROVE PushEnds(t)
  BY <1>1, BoxUnreachableIs DEF PushEnds
<1>2. ASSUME Verify(t) PROVE PushEnds(t)
  BY <1>2, VerifyIs DEF PushEnds
<1>3. ASSUME SkipVerify(t) PROVE PushEnds(t)
  BY <1>3, SkipVerifyIs DEF PushEnds
<1>4. QED BY <1>1, <1>2, <1>3

LEMMA KindIs ==
    ASSUME TypeOK, TypeOK', Shape, NEW t \in Tasks, RowStep(t) \/ BoxStep(t) \/ ImportStep(t)
    PROVE  \/ \E u \in Users : Puts(t, u) \/ Closes(t, u) \/ FoldsUser(t, u) \/ DestroyRow(t, u)
           \/ Works(t) \/ PushEnds(t)
           \/ ImportStep(t) /\ task[t].pc \in Importing /\ live' = live /\ suspect' = suspect /\ torn' = torn
<1>1. ASSUME NEW u \in Users, WriteItems(t, u) \/ Assign(t, u) PROVE Closes(t, u)
  <2>1. ASSUME WriteItems(t, u) PROVE Closes(t, u)
    BY <2>1, WriteItemsIs DEF Closes
  <2>2. ASSUME Assign(t, u) PROVE Closes(t, u)
    BY <2>2, AssignIs DEF Closes
  <2>3. QED BY <1>1, <2>1, <2>2
<1>2. ASSUME NEW u \in Users, UnlinkItems(t, u) PROVE Works(t)
  BY <1>2, UnlinkItemsIs DEF Works, Goes
<1>3. ASSUME PurgeOld(t) PROVE Works(t)
  BY <1>3, PurgeOldIs DEF Works
<1>4. ASSUME ListUsers(t) PROVE Works(t)
  BY <1>4, ListUsersIs DEF Works
<1>5. ASSUME NEW u \in Users, ApplyUser(t, u) PROVE Works(t)
  BY <1>5, ApplyUserIs DEF Works
<1>6. ASSUME NEW u \in Users, NEW told \in BOOLEAN, CommandFails(t, u, told) PROVE Works(t)
  BY <1>6, CommandFailsIs DEF Works
<1>7. ASSUME ImportStep(t) PROVE task[t].pc \in Importing /\ live' = live /\ suspect' = suspect /\ torn' = torn
  <2>1. ASSUME NEW u \in Users, NEW h \in Passwords, ImportOne(t, u, h)
        PROVE  task[t].pc \in Importing /\ live' = live /\ suspect' = suspect /\ torn' = torn
    BY <2>1, ImportOneIs DEF Importing
  <2>2. QED BY <1>7, <2>1, FetchLiveIs, FindKnownIs, EndImportIs DEF ImportStep, Importing
<1>8. ASSUME RowStep(t)
      PROVE  Works(t) \/ \E u \in Users : Puts(t, u) \/ Closes(t, u) \/ DestroyRow(t, u)
  BY <1>1, <1>2, <1>8, PutsIs DEF RowStep
<1>9. ASSUME BoxStep(t) PROVE Works(t) \/ PushEnds(t) \/ \E u \in Users : FoldsUser(t, u)
  BY <1>3, <1>4, <1>5, <1>6, <1>9, PushEndsIs, FoldUserIs DEF BoxStep
<1>10. QED BY <1>7, <1>8, <1>9

-----------------------------------------------------------------------------
(* Reconciled: what is shown as synced is so *)

\* A step of t leaves the entries of users it is not at work on.
LEMMA LiveFixed ==
    ASSUME Owner, NEW t \in Tasks, LiveMoves(t), NEW u \in Users, NEW h \in Passwords, Has(u, h), ~TaskHas(t, u, h)
    PROVE  h \in live' <=> h \in live
<1>1. ASSUME NEW v \in Users, TaskHas(t, v, h) PROVE FALSE
  <2>1. Has(v, h)
    BY <1>1 DEF Has
  <2>2. u = v
    BY SMTT(30), <2>1 DEF Owner
  <2>3. QED BY <1>1, <2>2
<1>2. ASSUME NEW v \in Users, Keeps(t, v), h = task[t].snap[v].pw PROVE FALSE
  BY <1>1, <1>2 DEF TaskHas
<1>3. QED BY <1>1, <1>2 DEF LiveMoves

\* What disturbs a task before it has ended.
LEMMA Lone ==
    ASSUME TypeOK, TypeOK', Shape, NEW t \in Tasks, RowStep(t) \/ BoxStep(t) \/ ImportStep(t), NEW u \in Users, Holds(t, u)'
    PROVE  /\ task'[t].alone = task[t].alone \/ SkipVerify(t)
           /\ task'[t].pc # "adopt"
<1> DEFINE Fine == task'[t].alone = task[t].alone /\ task'[t].pc # "adopt"
<1>1. task'[t] # Idle
  BY UnbornIs DEF Holds, Idle
<1>2. ~Bare(task'[t])
  BY SMTT(30), UnbornIs DEF Holds, Bare
<1>3. ASSUME NEW v \in Users, Puts(t, v) PROVE Fine
  BY <1>3 DEF Puts, Writes, Saves
<1>4. ASSUME NEW v \in Users, Closes(t, v) PROVE Fine
  BY <1>1, <1>4 DEF Closes, Ends
<1>5. ASSUME NEW v \in Users, DestroyRow(t, v) PROVE Fine
  BY <1>1, <1>5, DestroyRowIs DEF Ends
<1>6. ASSUME NEW v \in Users, FoldsUser(t, v) PROVE Fine
  <2>1. task[t].then # "adopt"
    BY <1>6 DEF FoldsUser, Shape, ShapeOf, OnBox
  <2>2. QED BY <1>1, <1>6, <2>1 DEF FoldsUser, Goes, Core
<1>7. ASSUME Works(t) PROVE Fine
  BY <1>7 DEF Works, Core
<1>8. ASSUME NEW ok, NEW bad, NEW old, NEW alone, Folding(t, ok, bad, old, alone)
      PROVE  task'[t].alone = alone /\ task'[t].pc = "fold"
  BY <1>1, <1>2, <1>8 DEF Folding
<1>9. ASSUME BoxUnreachable(t) PROVE Fine
  BY <1>8, <1>9, BoxUnreachableIs
<1>10. ASSUME Verify(t) PROVE Fine
  BY <1>8, <1>10, VerifyIs
<1>11. ASSUME SkipVerify(t) PROVE task'[t].pc # "adopt"
  BY <1>8, <1>11, SkipVerifyIs
<1>12. ASSUME ImportStep(t) PROVE FALSE
  <2>1. ASSUME NEW v \in Users, NEW h \in Passwords, ImportOne(t, v, h) PROVE task'[t].snap = task[t].snap
    BY <2>1, ImportOneIs DEF Goes, Core
  <2>2. task'[t].snap = task[t].snap /\ task[t].pc \in Importing
    BY <1>1, <1>12, <2>1, KindIs, FetchLiveIs, FindKnownIs, EndImportIs, ImportOneIs DEF ImportStep, Ends, Goes, Core, Importing
  <2>3. QED BY <2>2, UnbornIs DEF Shape, ShapeOf, Holds
<1>13. ASSUME RowStep(t) PROVE Fine
  <2>1. ASSUME NEW v \in Users, WriteItems(t, v) \/ Assign(t, v) PROVE Fine
    BY <1>1, <2>1, WriteItemsIs, AssignIs DEF Ends
  <2>2. ASSUME NEW v \in Users, UnlinkItems(t, v) PROVE Fine
    BY <2>2, UnlinkItemsIs DEF Goes, Core
  <2>3. QED BY <1>3, <1>5, <1>13, <2>1, <2>2, PutsIs DEF RowStep
<1>14. ASSUME BoxStep(t) PROVE Fine \/ (SkipVerify(t) /\ task'[t].pc # "adopt")
  <2>1. ASSUME PurgeOld(t) PROVE Fine
    BY <2>1, PurgeOldIs DEF Core
  <2>2. ASSUME ListUsers(t) PROVE Fine
    BY <2>2, ListUsersIs DEF Core
  <2>3. ASSUME NEW v \in Users, ApplyUser(t, v) PROVE Fine
    BY <2>3, ApplyUserIs DEF Core
  <2>4. ASSUME NEW v \in Users, NEW told \in BOOLEAN, CommandFails(t, v, told) PROVE Fine
    BY <2>4, CommandFailsIs DEF Core
  <2>5. QED BY <1>6, <1>9, <1>10, <1>11, <1>14, <2>1, <2>2, <2>3, <2>4, FoldUserIs DEF BoxStep
<1> HIDE DEF Fine
<1>15. Fine \/ (SkipVerify(t) /\ task'[t].pc # "adopt")
  BY <1>12, <1>13, <1>14
<1>16. QED BY <1>15 DEF Fine

LEMMA WarnedMove ==
    ASSUME TypeOK, TypeOK', Shape, Rows, Overlaps, Truth, NEW t \in Tasks, RowStep(t) \/ BoxStep(t) \/ ImportStep(t),
           Moves(t), NEW a \in Tasks, NEW u \in Users
    PROVE  Warned(a, u)'
<1> SUFFICES ASSUME Keeps(a, u)' \/ (Holds(a, u)' /\ task'[a].pc = "adopt"), row'[u].is = "there", ~task'[a].alone
             PROVE  u \in suspect'
  BY DEF Warned, At, There
<1>1. Holds(a, u)'
  BY DEF Keeps, Kept, Holds
<1>2. Holds(a, u)
  BY <1>1 DEF Moves, Others, Holds
<1>3. There(u)
  BY <1>2 DEF Moves, RowMoves, Rows, There
<1>4. u \in suspect => u \in suspect' \/ (task[t].alone /\ Holds(t, u))
  BY DEF Moves
<1>5. CASE a # t
  <2>1. task'[a] = task[a]
    BY <1>5 DEF Moves, Others
  <2>2. Keeps(a, u) \/ (Holds(a, u) /\ At(a, "adopt"))
    BY <2>1 DEF Keeps, Holds, At
  <2>3. u \in suspect
    BY <1>3, <2>1, <2>2 DEF Truth, Warned
  <2>4. Holds(t, u) => ~task[t].alone
    BY <1>2, <1>5 DEF Overlaps, Upset, Holds
  <2>5. QED BY <1>4, <2>3, <2>4
<1>6. CASE a = t /\ ~task[t].alone
  <2>1. Keeps(t, u)'
    BY <1>1, <1>6, Lone
  <2>2. Keeps(t, u) \/ At(t, "adopt")
    <3>1. CASE task'[t].snap[u] = task[t].snap[u]
      BY <1>2, <1>6, <2>1, <3>1 DEF Keeps, Kept, Holds
    <3>2. CASE task'[t].snap[u] # task[t].snap[u]
      <4>1. ASSUME Stills(t) PROVE FALSE
        BY <2>1, <3>2, <4>1, UnbornIs DEF Stills, Keeps, Kept
      <4>2. ASSUME NEW v \in Users, FoldsUser(t, v) PROVE FALSE
        BY <2>1, <3>2, <4>2, UnbornIs DEF FoldsUser, Goes, Core, Keeps, Kept, Idle
      <4>3. ASSUME NEW v \in Users, DestroyRow(t, v) PROVE FALSE
        BY <2>1, <4>3, DestroyRowIs, UnbornIs DEF Ends, Keeps, Kept, Idle
      <4>4. ASSUME NEW v \in Users, NEW h \in Passwords, ImportOne(t, v, h) PROVE FALSE
        BY <3>2, <4>4, ImportOneIs DEF Goes, Core
      <4>5. ASSUME NEW v \in Users, Writes(t, v) PROVE Keeps(t, u) \/ At(t, "adopt")
        <5>1. v = u
          BY SMTT(30), <3>2, <4>5 DEF Writes, Saves
        <5>2. task[t].pc \in {"patch", "hash", "config", "defaults", "adopt"} /\ u \in task[t].rows
          BY <4>5, <5>1 DEF Writes, Saves
        <5>3. task[t].pc # "adopt" => Kept(task[t], u)
          BY <5>2 DEF Shape, ShapeOf, Single
        <5>4. QED BY SMTT(30), <5>3 DEF Keeps, At
      <4>6. QED BY <4>1, <4>2, <4>3, <4>4, <4>5, StillsIs
    <3>3. QED BY <3>1, <3>2
  <2>3. u \in suspect
    BY <1>2, <1>3, <1>6, <2>2 DEF Truth, Warned
  <2>4. QED BY <1>4, <1>6, <2>3
<1>7. CASE a = t /\ task[t].alone
  <2>1. SkipVerify(t)
    BY <1>1, <1>7, Lone
  <2>2. /\ Folding(t, task[t].ok, task[t].bad, task[t].old, FALSE)
        /\ suspect' = suspect \cup {v \in task[t].push : There(v)} /\ task[t].pc = "apply"
    BY <2>1, SkipVerifyIs
  <2>3. task'[t].snap = task[t].snap /\ task'[t].rows = task[t].rows /\ task[t].push # {} /\ task'[t].pc = "fold"
    BY <1>1, <1>7, <2>2, UnbornIs DEF Folding, Holds, Idle, Bare
  <2>4. Keeps(t, u)
    BY SMTT(30), <1>7, <2>3 DEF Keeps, Kept
  <2>5. u \in task[t].push
    BY <2>2, <2>3, <2>4 DEF Shape, ShapeOf, OnBox, Keeps, Kept
  <2>6. QED BY <1>3, <2>2, <2>5
<1>8. QED BY <1>5, <1>6, <1>7

\* Nobody else is at work on the users of a task alone.
LEMMA AloneIs ==
    ASSUME Overlaps, NEW a \in Tasks, NEW u \in Users, Holds(a, u), task[a].alone
    PROVE  \A o \in Tasks : o # a => u \notin task[o].rows
BY SMTT(30) DEF Overlaps, Upset, Holds

LEMMA KeepsHas ==
    ASSUME TypeOK, Shape, NEW a \in Tasks, NEW u \in Users, Keeps(a, u)
    PROVE  /\ task[a].snap[u].pw \in Passwords /\ TaskHas(a, u, task[a].snap[u].pw)
           /\ Has(u, task[a].snap[u].pw) /\ Holds(a, u) /\ u \in task[a].rows
BY DEF Shape, ShapeOf, Proper, Keeps, Kept, TaskHas, Has, Holds

LEMMA SeesOther ==
    ASSUME TypeOK, TypeOK', Shape, Owner, Overlaps, Truth, NEW t \in Tasks, Moves(t), LiveMoves(t),
           NEW a \in Tasks, a # t, NEW u \in Users
    PROVE  Sees(a, u)'
<1>1. task'[a] = task[a]
  BY DEF Moves, Others
<1>2. SUFFICES ASSUME task[a].alone, Keeps(a, u)
               PROVE  task[a].snap[u].pw \in live' <=> task[a].snap[u].pw \in live
  <2>1. Keeps(a, u)' <=> Keeps(a, u)
    BY <1>1 DEF Keeps
  <2>2. Sees(a, u)
    BY DEF Truth
  <2>3. QED BY <1>1, <1>2, <2>1, <2>2 DEF Sees, At
<1>3. u \notin task[t].rows
  BY SMTT(30), <1>2, AloneIs, KeepsHas
<1>4. ~TaskHas(t, u, task[a].snap[u].pw)
  BY <1>3 DEF TaskHas, Keeps, Kept
<1>5. QED BY <1>2, <1>4, KeepsHas, LiveFixed

\* The entry of another user stays as t goes on with one of its users.
LEMMA CommandOther ==
    ASSUME TypeOK, Shape, Owner, NEW t \in Tasks, NEW v \in Users, Keeps(t, v), Command(t, v),
           NEW u \in Users, u # v, Keeps(t, u)
    PROVE  task[t].snap[u].pw \in live' <=> task[t].snap[u].pw \in live
<1>1. task[t].snap[u].pw # task[t].snap[v].pw
  BY KeepsHas DEF Owner
<1>2. live' = live \/ live' = live \ {task[t].snap[v].pw} \/ live' = live \cup {task[t].snap[v].pw}
  BY DEF Command
<1>3. QED BY <1>1, <1>2

LEMMA SeesOwn ==
    ASSUME TypeOK, TypeOK', Shape, Owner, Truth, NEW t \in Tasks, RowStep(t) \/ BoxStep(t) \/ ImportStep(t),
           NEW u \in Users
    PROVE  Sees(t, u)'
<1>1. SUFFICES ASSUME task'[t].alone, Keeps(t, u)', task'[t].pc \in {"apply", "fold"}
               PROVE  Sees(t, u)'
  BY DEF Sees, At
<1>2. task'[t] # Idle /\ ~Bare(task'[t])
  BY <1>1, UnbornIs DEF Keeps, Kept, Idle, Bare
<1>3. Sees(t, u) /\ ShapeOf(task[t])
  BY DEF Truth, Shape
<1>4. ASSUME Keeps(t, u), task[t].alone, task[t].pc = "apply"
      PROVE  IF u \in task[t].todo THEN task[t].snap[u].pw \in task[t].listed <=> task[t].snap[u].pw \in live
              ELSE ~task[t].snap[u].enabled /\ task[t].snap[u].pw \notin task[t].listed
                   => task[t].snap[u].pw \notin live
  BY <1>3, <1>4 DEF Sees, At
<1>5. ASSUME ListUsers(t) PROVE Sees(t, u)'
  <2>1. task'[t].listed = live /\ live' = live /\ task'[t].pc = "apply"
    BY <1>5, ListUsersIs
  <2>2. QED BY <2>1 DEF Sees, At
<1>6. ASSUME NEW v \in Users, ApplyUser(t, v) PROVE Sees(t, u)'
  <2>1. /\ task[t].pc = "apply" /\ v \in task[t].todo /\ task'[t].pc = "apply" /\ Command(t, v)
        /\ task'[t].snap = task[t].snap /\ task'[t].rows = task[t].rows /\ task'[t].alone = task[t].alone
        /\ task'[t].todo = task[t].todo \ {v} /\ task'[t].listed = task[t].listed
    BY <1>6, ApplyUserIs DEF Core
  <2>2. Keeps(t, u) /\ Keeps(t, v) /\ task[t].alone
    BY <1>1, <1>3, <2>1 DEF Keeps, Kept, ShapeOf, OnBox
  <2>3. CASE u # v
    <3>1. task[t].snap[u].pw \in live' <=> task[t].snap[u].pw \in live
      BY <2>1, <2>2, <2>3, CommandOther
    <3>2. QED BY <1>4, <2>1, <2>2, <2>3, <3>1 DEF Sees, At
  <2>4. CASE u = v
    <3>1. task[t].snap[u].pw \in task[t].listed <=> task[t].snap[u].pw \in live
      BY <1>4, <2>1, <2>2, <2>4
    <3>2. ~task[t].snap[u].enabled /\ task[t].snap[u].pw \notin task[t].listed => live' = live
      BY <2>1, <2>4 DEF Command
    <3>3. QED BY <2>1, <2>4, <3>1, <3>2 DEF Sees, At
  <2>5. QED BY <2>3, <2>4
<1>7. ASSUME NEW v \in Users, NEW told \in BOOLEAN, CommandFails(t, v, told) PROVE Sees(t, u)'
  <2>1. /\ task[t].pc = "apply" /\ v \in task[t].todo /\ task'[t].pc = "apply" /\ live' = live
        /\ task'[t].snap = task[t].snap /\ task'[t].rows = task[t].rows /\ task'[t].alone = task[t].alone
        /\ task'[t].todo = task[t].todo \ {v} /\ task'[t].listed = task[t].listed
        /\ task[t].snap[v].enabled \/ task[t].snap[v].pw \in task[t].listed
    BY <1>7, CommandFailsIs DEF Core
  <2>2. Keeps(t, u) /\ task[t].alone
    BY <1>1, <2>1 DEF Keeps, Kept
  <2>3. QED BY <1>4, <2>1, <2>2 DEF Sees, At
<1>8. ASSUME Verify(t) PROVE Sees(t, u)'
  <2>1. PICK bad \in SUBSET Users :
                 /\ Folding(t, task[t].ok, bad, task[t].old, task[t].alone)
                 /\ \A v \in task[t].push \ bad :
                       IF task[t].snap[v].enabled THEN task[t].snap[v].pw \in live
                       ELSE ~(task[t].snap[v].pw \in task[t].listed /\ task[t].snap[v].pw \in live)
    BY <1>8, VerifyIs
  <2>2. task[t].pc = "apply" /\ task[t].todo = {} /\ live' = live
    BY <1>8, VerifyIs
  <2>3. /\ task'[t].pc = "fold" /\ task'[t].rows = task[t].rows /\ task'[t].snap = task[t].snap
        /\ task'[t].todo = task[t].push /\ task'[t].bad = bad /\ task'[t].alone = task[t].alone
    BY <1>2, <2>1 DEF Folding
  <2>4. Keeps(t, u) /\ task[t].alone
    BY <1>1, <2>3 DEF Keeps, Kept
  <2>5. ~task[t].snap[u].enabled /\ task[t].snap[u].pw \notin task[t].listed => task[t].snap[u].pw \notin live
    BY <1>4, <2>2, <2>4
  <2>6. u \in task[t].push \ bad => (task[t].snap[u].pw \in live <=> task[t].snap[u].enabled)
    BY <2>1, <2>5
  <2>7. QED BY <2>2, <2>3, <2>6 DEF Sees, At
<1>9. ASSUME SkipVerify(t) PROVE FALSE
  <2>1. Folding(t, task[t].ok, task[t].bad, task[t].old, FALSE)
    BY <1>9, SkipVerifyIs
  <2>2. QED BY <1>1, <1>2, <2>1 DEF Folding
<1>10. ASSUME BoxUnreachable(t) PROVE Sees(t, u)'
  <2>1. Folding(t, FALSE, task[t].bad, {}, task[t].alone)
    BY <1>10, BoxUnreachableIs
  <2>2. task'[t].pc = "fold" /\ ~task'[t].ok
    BY <1>2, <2>1 DEF Folding
  <2>3. QED BY <2>2 DEF Sees, At
<1>11. ASSUME NEW v \in Users, FoldUser(t, v) PROVE Sees(t, u)'
  <2>1. FoldsUser(t, v)
    BY <1>11, FoldUserIs
  <2>2. task[t].then \notin {"apply", "fold"} /\ task[t].pc = "fold"
    BY <1>3, <2>1 DEF FoldsUser, ShapeOf, OnBox
  <2>3. /\ task'[t].pc = "fold" /\ task'[t].rows = task[t].rows /\ task'[t].snap = task[t].snap /\ live' = live
        /\ task'[t].todo = task[t].todo \ {v} /\ task'[t].bad = task[t].bad /\ task'[t].alone = task[t].alone
        /\ task'[t].ok = task[t].ok
    BY <1>1, <1>2, <2>1, <2>2 DEF FoldsUser, Goes, Core
  <2>4. Keeps(t, u) /\ task[t].alone
    BY <1>1, <2>3 DEF Keeps, Kept
  <2>5. QED BY <1>3, <2>2, <2>3, <2>4 DEF Sees, At
<1>12. ASSUME PurgeOld(t) PROVE FALSE
  BY <1>1, <1>12, PurgeOldIs
<1>13. ASSUME RowStep(t) PROVE FALSE
  <2>1. ASSUME NEW v \in Users, WriteItems(t, v) \/ Assign(t, v) PROVE FALSE
    BY <1>2, <2>1, WriteItemsIs, AssignIs DEF Ends
  <2>2. ASSUME NEW v \in Users, UnlinkItems(t, v) PROVE FALSE
    BY <1>1, <2>2, UnlinkItemsIs DEF Goes
  <2>3. ASSUME NEW v \in Users, DestroyRow(t, v) PROVE FALSE
    BY SMTT(30), <1>2, <2>3, DestroyRowIs DEF Ends
  <2>4. ASSUME NEW v \in Users, Puts(t, v) PROVE FALSE
    BY <1>1, <2>4 DEF Puts, Writes
  <2>5. QED BY <1>13, <2>1, <2>2, <2>3, <2>4, PutsIs DEF RowStep
<1>14. ASSUME ImportStep(t) PROVE FALSE
  <2>1. ASSUME NEW v \in Users, NEW h \in Passwords, ImportOne(t, v, h) PROVE FALSE
    BY <1>1, <2>1, ImportOneIs DEF Goes
  <2>2. QED BY <1>1, <1>2, <1>14, <2>1, FetchLiveIs, FindKnownIs, EndImportIs DEF ImportStep, Goes, Ends
<1>15. QED BY <1>5, <1>6, <1>7, <1>8, <1>9, <1>10, <1>11, <1>12, <1>13, <1>14 DEF BoxStep

\* What a task alone on a row knows of it, and what it knows of a row that is not suspect.
LEMMA TrackNow ==
    ASSUME TypeOK, Track, NEW a \in Tasks, NEW u \in Users, Holds(a, u), There(u),
           task[a].alone \/ u \notin suspect \/ u \notin torn
    PROVE  row[u] = Now(a, u)
BY DEF Track, Blurred, Upset, Marked

\* The fold of an undisturbed push leaves a row that tells the truth.
LEMMA FoldTells ==
    ASSUME TypeOK, TypeOK', Shape, Track, Truth, NEW t \in Tasks, NEW v \in Users, FoldsUser(t, v), NEW u \in Users,
           Keeps(t, u), There(u), u = v \/ u \notin task[t].todo, u \notin suspect'
    PROVE  Told(u)'
<1>1. PICK r \in Task : r = task[t]
  BY TaskFields
<1>2. PICK b \in Row : b = r.snap[u]
  BY <1>1, TaskFields
<1>3. r.pc = "fold" /\ v \in r.todo /\ live' = live
  BY <1>1 DEF FoldsUser
<1>4. Holds(t, u)
  BY DEF Keeps, Kept, Holds
<1>5. CASE u # v
  <2>1. u \notin suspect /\ row'[u] = row[u]
    BY <1>5 DEF FoldsUser
  <2>2. Told(u)
    BY <1>1, <1>3, <1>5, <2>1 DEF Truth, Tells, At
  <2>3. QED BY <1>3, <2>1, <2>2 DEF Told
<1>6. CASE u = v
  <2>1. r.alone
    <3>1. SUFFICES ASSUME ~r.alone PROVE FALSE
      BY <1>1 DEF TypeOK, Task
    <3>2. suspect' = suspect
      BY <1>1, <1>6, <3>1 DEF FoldsUser
    <3>3. QED BY <1>1, <3>1, <3>2 DEF Truth, Warned
  <2>2. ~Folded(t, u)
    BY <1>1, <1>3, <1>6 DEF Folded, At
  <2>3. row[u] = b
    BY <1>1, <1>2, <1>4, <2>1, <2>2, TrackNow, ZenonT(30) DEF Now
  <2>4. /\ row'[u].enabled = b.enabled /\ row'[u].pw = b.pw
        /\ row'[u].rh = IF r.ok /\ b.rh # b.pw THEN b.pw ELSE b.rh
        /\ row'[u].synced = IF b.synced = (r.ok /\ u \notin r.bad) THEN b.synced ELSE (r.ok /\ u \notin r.bad)
    BY <1>1, <1>2, <1>6, <2>3 DEF FoldsUser
  <2>5. ASSUME r.ok, u \notin r.bad PROVE (b.pw \in live <=> b.enabled) /\ row'[u].rh = b.pw
    <3>1. b.pw \in live <=> b.enabled
      BY <1>1, <1>2, <1>3, <1>6, <2>1, <2>5 DEF Truth, Sees, At
    <3>2. row'[u].rh = b.pw
      BY <2>4, <2>5
    <3>3. QED BY <3>1, <3>2
  <2>6. row'[u].synced => r.ok /\ u \notin r.bad
    BY <1>2, <2>4 DEF Row
  <2>7. QED BY <1>3, <2>4, <2>5, <2>6 DEF Told
<1>7. QED BY <1>5, <1>6

LEMMA TellsOther ==
    ASSUME TypeOK, TypeOK', Shape, Rows, Owner, Overlaps, Truth, NEW t \in Tasks, Moves(t), LiveMoves(t),
           NEW a \in Tasks, a # t, NEW u \in Users
    PROVE  Tells(a, u)'
<1>1. task'[a] = task[a]
  BY DEF Moves, Others
<1>2. SUFFICES ASSUME Keeps(a, u), row'[u].is = "there", u \notin suspect',
                      task[a].pc \in {"assign", "items"} \/ (task[a].pc = "fold" /\ u \notin task[a].todo)
               PROVE  Told(u)'
  BY <1>1 DEF Tells, Keeps, There, At
<1>3. Holds(a, u) /\ u \in task[a].rows
  BY <1>2 DEF Keeps, Kept, Holds
<1>4. RowMoves(t, u) /\ row[u].is # "unborn"
  BY <1>3 DEF Moves, Rows
<1>5. There(u)
  BY <1>2, <1>4 DEF RowMoves, There
<1>6. ASSUME u \in task[t].rows PROVE FALSE
  <2>1. Marked(u) /\ (Holds(t, u) => Upset(t))
    BY <1>1, <1>3, <1>5, <1>6 DEF Overlaps
  <2>2. QED BY <1>2, <2>1 DEF Moves, Marked, Upset
<1>7. row'[u] = row[u] /\ u \notin suspect
  BY <1>2, <1>4, <1>6 DEF Moves, RowMoves, Holds
<1>8. Told(u)
  BY <1>2, <1>5, <1>7 DEF Truth, Tells, At
<1>9. row[u].source = "managed" /\ row[u].pw \in Passwords
  BY <1>2, <1>5 DEF Rows, Proper, There
<1>10. Has(u, row[u].pw) /\ ~TaskHas(t, u, row[u].pw)
  BY <1>5, <1>6, <1>9 DEF Has, RowHas, TaskHas, Keeps, Kept
<1>11. row[u].pw \in live' <=> row[u].pw \in live
  BY <1>9, <1>10, LiveFixed
<1>12. QED BY <1>7, <1>8, <1>11 DEF Told

LEMMA TellsOwn ==
    ASSUME TypeOK, TypeOK', Shape, Rows, Track, Truth, NEW t \in Tasks, RowStep(t) \/ BoxStep(t) \/ ImportStep(t), Moves(t),
           NEW u \in Users
    PROVE  Tells(t, u)'
<1>1. SUFFICES ASSUME Keeps(t, u)', row'[u].is = "there", u \notin suspect',
                      task'[t].pc \in {"assign", "items"} \/ (task'[t].pc = "fold" /\ u \notin task'[t].todo)
               PROVE  Told(u)'
  BY DEF Tells, There, At
<1>2. task'[t] # Idle /\ ~Bare(task'[t])
  BY <1>1, UnbornIs DEF Keeps, Kept, Idle, Bare
<1>3. ShapeOf(task[t])
  BY DEF Shape
<1>4. Holds(t, u) /\ There(u)
  <2>1. Holds(t, u)'
    BY <1>1 DEF Keeps, Kept, Holds
  <2>2. Holds(t, u) /\ RowMoves(t, u)
    BY <2>1 DEF Moves
  <2>3. QED BY <1>1, <2>2 DEF Rows, RowMoves, There
<1>5. ASSUME NEW v \in Users, Puts(t, v) PROVE FALSE
  <2>1. /\ task[t].pc \in Single /\ v \in task[t].rows /\ task'[t].pc = "assign" /\ v \in suspect'
    BY <1>1, <1>5 DEF Puts, Writes, Saves, Single
  <2>2. u = v
    BY <1>3, <1>4, <2>1 DEF ShapeOf, Holds
  <2>3. QED BY SMTT(30), <1>1, <2>1, <2>2
<1>6. ASSUME NEW v \in Users, Closes(t, v) \/ DestroyRow(t, v) PROVE FALSE
  BY <1>2, <1>6, DestroyRowIs DEF Closes, Ends
<1>7. ASSUME Works(t) PROVE FALSE
  BY <1>1, <1>7 DEF Works
<1>8. ASSUME PushEnds(t) PROVE FALSE
  <2>1. /\ task[t].push # {} /\ task'[t].rows = task[t].rows /\ task'[t].snap = task[t].snap
        /\ task'[t].todo = task[t].push /\ task'[t].pc = "fold" /\ task[t].pc \in OnBox
    BY <1>2, <1>8 DEF PushEnds, Folding, OnBox
  <2>2. Keeps(t, u)
    BY <1>1, <2>1 DEF Keeps, Kept
  <2>3. u \in task[t].push
    BY <1>3, <2>1, <2>2 DEF ShapeOf, Keeps, Kept
  <2>4. QED BY <1>1, <2>1, <2>3
<1>9. ASSUME NEW v \in Users, FoldsUser(t, v) PROVE Told(u)'
  <2>1. Keeps(t, u)
    BY <1>1, <1>2, <1>9 DEF FoldsUser, Goes, Core, Keeps, Kept
  <2>2. u = v \/ u \notin task[t].todo
    BY <1>1, <1>2, <1>9 DEF FoldsUser, Goes
  <2>3. QED BY <1>1, <1>4, <1>9, <2>1, <2>2, FoldTells
<1>10. ASSUME task[t].pc \in Importing PROVE FALSE
  BY <1>3, <1>4, <1>10, UnbornIs DEF ShapeOf, Holds
<1>11. QED BY <1>5, <1>6, <1>7, <1>8, <1>9, <1>10, KindIs

\* A task that has gone from a row has left it as it is to stay.
Left(t, u) == u \in task[t].rows /\ task[t].pc \notin Importing /\ (u \in task'[t].rows => task'[t].pc \in Importing)

LEMMA LeftIs ==
    ASSUME TypeOK, TypeOK', Shape, Rows, NEW t \in Tasks, RowStep(t) \/ BoxStep(t) \/ ImportStep(t), Moves(t),
           NEW u \in Users, Left(t, u), There(u)'
    PROVE  /\ Holds(t, u) /\ There(u)
           /\ \/ Closes(t, u) /\ Keeps(t, u)
              \/ \E v \in Users : FoldsUser(t, v) /\ task[t].then = "idle" /\ task[t].todo = {v} /\ Keeps(t, v)
              \/ /\ ~Keeps(t, u) /\ row' = row /\ suspect \subseteq suspect' /\ torn' = torn
                 /\ ~Folded(t, u)
<1>1. ShapeOf(task[t])
  BY SMTT(30) DEF Shape
<1>2. ASSUME NEW v \in Users, Puts(t, v) PROVE FALSE
  BY <1>2 DEF Puts, Writes, Saves, Left, Importing
<1>3. ASSUME Works(t) PROVE FALSE
  BY <1>3 DEF Works, Core, Left, Importing
<1>4. ASSUME NEW v \in Users, DestroyRow(t, v) PROVE FALSE
  <2>1. task[t].pc = "destroy" /\ v \in task[t].rows /\ row'[v].is = "gone"
    BY <1>4, DestroyRowIs
  <2>2. u = v
    BY <1>1, <2>1 DEF ShapeOf, Left
  <2>3. QED BY <2>1, <2>2 DEF There
<1>5. ASSUME NEW v \in Users, Closes(t, v) PROVE Closes(t, u) /\ Keeps(t, u)
  <2>1. task[t].pc \in Single /\ task[t].pc # "adopt" /\ v \in task[t].rows
    BY <1>5 DEF Closes, Single
  <2>2. u = v /\ Keeps(t, u)
    BY <1>1, <2>1 DEF ShapeOf, Left, Keeps
  <2>3. QED BY <1>5, <2>2
<1>6. ASSUME NEW v \in Users, FoldsUser(t, v)
      PROVE  task[t].then = "idle" /\ task[t].todo = {v} /\ Keeps(t, v) /\ Holds(t, u)
  <2>1. task[t].pc = "fold" /\ v \in task[t].todo /\ task[t].then \in {"idle", "items", "assign", "unlink"}
        /\ task[t].todo \subseteq task[t].push /\ task[t].pc \in OnBox
    BY <1>1, <1>6 DEF FoldsUser, ShapeOf, OnBox
  <2>2. task[t].then = "idle" /\ task[t].todo = {v}
    BY <1>6, <2>1 DEF FoldsUser, Goes, Core, Left, Importing
  <2>3. Keeps(t, v) /\ Holds(t, u)
    BY <1>1, <2>1, <2>2 DEF ShapeOf, Keeps, Holds, Left
  <2>4. QED BY <2>2, <2>3
<1>7. ASSUME PushEnds(t) PROVE ~Keeps(t, u) /\ Holds(t, u) /\ ~Folded(t, u)
  <2>1. task[t].pc \in OnBox /\ task[t].pc # "fold"
    BY <1>7 DEF PushEnds, OnBox
  <2>2. task[t].then \in {"idle", "items", "assign", "unlink"}
    BY <1>1, <2>1 DEF ShapeOf
  <2>3. task[t].push = {} /\ task[t].then = "idle"
    BY <1>7, <2>2 DEF PushEnds, Folding, Left, Importing
  <2>4. QED BY <1>1, <2>1, <2>3 DEF ShapeOf, Keeps, Kept, Holds, Left, Folded
<1>8. Holds(t, u) /\ (\/ Closes(t, u) /\ Keeps(t, u)
                      \/ \E v \in Users : FoldsUser(t, v) /\ task[t].then = "idle" /\ task[t].todo = {v} /\ Keeps(t, v)
                      \/ /\ ~Keeps(t, u) /\ row' = row /\ suspect \subseteq suspect' /\ torn' = torn
                         /\ ~Folded(t, u))
  <2>1. task[t].pc \notin Importing
    BY DEF Left
  <2>2. \/ \E v \in Users : Puts(t, v) \/ Closes(t, v) \/ FoldsUser(t, v) \/ DestroyRow(t, v)
        \/ Works(t) \/ PushEnds(t)
    BY <2>1, KindIs
  <2>3. CASE PushEnds(t)
    <3>1. row' = row /\ suspect \subseteq suspect' /\ torn' = torn
      BY <2>3 DEF PushEnds
    <3>2. QED BY <1>7, <2>3, <3>1
  <2>4. CASE \E v \in Users : Closes(t, v)
    BY <1>5, <2>4 DEF Keeps, Kept, Holds
  <2>5. CASE \E v \in Users : FoldsUser(t, v)
    BY <1>6, <2>5
  <2>6. QED BY <1>2, <1>3, <1>4, <2>2, <2>3, <2>4, <2>5
<1>9. There(u)
  <2>1. RowMoves(t, u) /\ row[u].is # "unborn"
    BY <1>8 DEF Moves, Rows
  <2>2. QED BY <2>1 DEF RowMoves, There
<1>10. QED BY <1>8, <1>9

\* A task that only lists and imports has nothing of a row of its own.
LEMMA ImportHas ==
    ASSUME TypeOK, Shape, NEW t \in Tasks, NEW u \in Users, u \in task[t].rows => task[t].pc \in Importing
    PROVE  ~Holds(t, u) /\ \A h \in Passwords : ~TaskHas(t, u, h)
<1>1. ShapeOf(task[t])
  BY DEF Shape
<1>2. CASE u \notin task[t].rows
  BY <1>2 DEF Holds, TaskHas, Keeps, Kept
<1>3. CASE task[t].pc \in Importing
  <2>1. task[t].old = {} /\ task[t].snap[u] = Unborn
    BY <1>1, <1>3 DEF ShapeOf, Importing
  <2>2. ~Holds(t, u) /\ ~Keeps(t, u)
    BY <2>1, UnbornIs DEF Holds, Keeps, Kept
  <2>3. u \in task[t].rows => task[t].new = None
    BY <1>1, <1>3, <2>2 DEF ShapeOf, Importing, Keeps
  <2>4. QED BY <2>1, <2>2, <2>3 DEF TaskHas
<1>4. QED BY <1>2, <1>3

\* A row that nobody is at work on stays, but for a new import, and so do the marks on it.
LEMMA FreeStays ==
    ASSUME TypeOK, TypeOK', Shape, Rows, NEW t \in Tasks, Moves(t), ItemMoves(t), NEW u \in Users,
           u \in task[t].rows => task[t].pc \in Importing, row'[u].is = "there", row'[u].source = "managed"
    PROVE  /\ row'[u] = row[u] /\ item'[u] = item[u]
           /\ u \in suspect => u \in suspect'
           /\ u \in torn => u \in torn'
<1>1. ~Holds(t, u)
  BY ImportHas
<1>2. RowMoves(t, u)
  BY DEF Moves
<1>3. row'[u] = row[u]
  BY <1>1, <1>2 DEF RowMoves
<1>4. item'[u] = item[u]
  BY DEF ItemMoves
<1>5. QED BY <1>1, <1>3, <1>4 DEF Moves

LEMMA RestsMove ==
    ASSUME TypeOK, TypeOK', Shape, Rows, Owner, Overlaps, Track, Truth, NEW t \in Tasks,
           RowStep(t) \/ BoxStep(t) \/ ImportStep(t), Moves(t), LiveMoves(t), ItemMoves(t), NEW u \in Users
    PROVE  Rests(u)'
<1>1. SUFFICES ASSUME There(u)', row'[u].source = "managed", u \notin suspect', Free(u)'
               PROVE  Told(u)'
  BY DEF Rests
<1>2. \A o \in Tasks : o # t => (u \in task[o].rows => task[o].pc \in Importing)
  BY <1>1 DEF Moves, Others, Free
<1>3. CASE u \in task[t].rows => task[t].pc \in Importing
  <2>1. row'[u] = row[u] /\ u \notin suspect
    BY <1>1, <1>3, FreeStays DEF There
  <2>2. There(u) /\ Told(u)
    BY <1>1, <1>2, <1>3, <2>1 DEF Truth, Rests, Free, There
  <2>3. row[u].pw \in Passwords /\ Has(u, row[u].pw)
    BY <1>1, <2>1, <2>2 DEF Rows, Proper, Has, RowHas, There
  <2>4. row[u].pw \in live' <=> row[u].pw \in live
    BY <1>3, <2>3, ImportHas, LiveFixed
  <2>5. QED BY <2>1, <2>2, <2>4 DEF Told
<1>4. CASE ~(u \in task[t].rows => task[t].pc \in Importing)
  <2>1. Left(t, u)
    BY <1>1, <1>4 DEF Left, Free
  <2>2. Holds(t, u) /\ There(u)
    BY <1>1, <2>1, LeftIs
  <2>3. CASE Closes(t, u) /\ Keeps(t, u)
    <3>1. row' = row /\ live' = live /\ suspect' = suspect /\ task[t].pc \in {"items", "assign"}
      BY <2>3 DEF Closes
    <3>2. Told(u)
      BY <1>1, <2>2, <2>3, <3>1 DEF Truth, Tells
    <3>3. QED BY <3>1, <3>2 DEF Told
  <2>4. ASSUME ~Keeps(t, u), row'[u].source = row[u].source, u \notin suspect PROVE FALSE
    <3>1. row[u] = Now(t, u)
      BY <2>2, <2>4, TrackNow
    <3>2. Now(t, u).source = task[t].snap[u].source
      <4>1. PICK b \in Row : b = task[t].snap[u]
        BY TaskFields
      <4>2. QED BY <4>1 DEF Now, Row
    <3>3. QED BY <1>1, <2>2, <2>4, <3>1, <3>2 DEF Keeps, Kept, Holds
  <2>5. CASE \E v \in Users : FoldsUser(t, v) /\ task[t].then = "idle" /\ task[t].todo = {v} /\ Keeps(t, v)
    <3>1. PICK v \in Users : FoldsUser(t, v) /\ task[t].todo = {v} /\ Keeps(t, v)
      BY <2>5
    <3>2. Keeps(t, u)
      <4>1. SUFFICES ASSUME ~Keeps(t, u) PROVE FALSE
        OBVIOUS
      <4>2. u # v
        BY <3>1, <4>1
      <4>3. row'[u].source = row[u].source /\ u \notin suspect
        BY <1>1, <3>1, <4>2 DEF FoldsUser
      <4>4. QED BY <2>4, <4>1, <4>3
    <3>3. QED BY <1>1, <2>2, <3>1, <3>2, FoldTells
  <2>6. CASE ~Keeps(t, u) /\ row' = row /\ suspect \subseteq suspect'
    BY <1>1, <2>4, <2>6
  <2>7. QED BY <1>1, <2>1, <2>3, <2>5, <2>6, LeftIs
<1>5. QED BY <1>3, <1>4

\* A row free after a task has begun was free, and is as it was.
LEMMA FreeLaunch ==
    ASSUME TypeOK, TypeOK', Shape, Shape', NEW t \in Tasks, Launches(t), LaunchMoves(t), NEW u \in Users, Free(u)'
    PROVE  Free(u) /\ row'[u] = row[u]
<1>1. ASSUME NEW o \in Tasks, u \in task[o].rows PROVE task[o].pc \in Importing
  <2>1. o # t
    BY <1>1, IdleRows DEF Launches, Begins
  <2>2. Like(task'[o], task[o])
    BY SMTT(30), <2>1 DEF Launches, Begins, Stays
  <2>3. QED BY <1>1, <2>2 DEF Free, Like
<1>2. ~Holds(t, u)'
  <2>1. u \in task'[t].rows => task'[t].pc \in Importing
    BY DEF Free
  <2>2. QED BY <2>1, UnbornIs DEF Shape, ShapeOf, Holds
<1>3. row'[u] = row[u]
  BY <1>2 DEF LaunchMoves, Holds
<1>4. QED BY <1>1, <1>3 DEF Free

\* A task that begins alone finds its rows free.
LEMMA AloneLaunch ==
    ASSUME TypeOK, Shape, NEW t \in Tasks, Launches(t), NEW u \in Users, u \in task'[t].rows, task'[t].alone
    PROVE  Free(u)
<1>1. ASSUME NEW o \in Tasks, u \in task[o].rows PROVE FALSE
  <2>1. o # t /\ task[o].pc # "idle"
    BY <1>1, IdleRows DEF Launches, Begins
  <2>2. QED BY <1>1, <2>1 DEF Launches, Begins
<1>2. QED BY <1>1 DEF Free

LEMMA TruthLaunch ==
    ASSUME TypeOK, TypeOK', Shape, Shape', Rows, Rows', Truth, NEW t \in Tasks, Launches(t), LaunchMoves(t),
           NEW a \in Tasks, NEW u \in Users
    PROVE  Warned(a, u)' /\ Sees(a, u)' /\ Tells(a, u)'
<1>1. live' = live /\ suspect \subseteq suspect'
  BY DEF Launches, Begins
<1>2. CASE a = t
  <2>1. Warned(a, u)'
    BY <1>2 DEF Warned, Launches, Begins, Keeps, Kept, Holds
  <2>2. Sees(a, u)'
    BY <1>2 DEF LaunchMoves, Sees, At
  <2>3. ASSUME Keeps(t, u)', There(u)', u \notin suspect', task'[t].pc = "assign" PROVE Told(u)'
    <3>1. task'[t].alone /\ u \in task'[t].rows
      BY <2>3 DEF Launches, Begins, Keeps, Kept
    <3>2. Free(u)
      BY <3>1, AloneLaunch
    <3>3. row' = row
      BY <2>3 DEF Launches, Created, DefaultMade, Adopted, Adopting, Updating, Reading, Reads, Sweeping
    <3>4. row[u].source = "managed"
      BY <2>3, <3>3 DEF Rows, There
    <3>5. Told(u)
      BY <1>1, <2>3, <3>2, <3>3, <3>4 DEF Truth, Rests, There
    <3>6. QED BY <1>1, <3>3, <3>5 DEF Told
  <2>4. Tells(a, u)'
    BY <1>2, <2>3 DEF LaunchMoves, Tells, At
  <2>5. QED BY <2>1, <2>2, <2>4
<1>3. CASE a # t
  <2>1. Stays(a)
    BY <1>3 DEF Launches, Begins
  <2>2. /\ (Holds(a, u)' <=> Holds(a, u)) /\ (Keeps(a, u)' <=> Keeps(a, u))
        /\ Like(task'[a], task[a]) /\ (task'[a].alone => task[a].alone)
    BY <2>1, StaysIs DEF Stays
  <2>3. Keeps(a, u) => Holds(a, u)
    BY DEF Keeps, Kept, Holds
  <2>4. Holds(a, u) => row'[u] = row[u]
    BY DEF LaunchMoves, Rows
  <2>5. Warned(a, u)'
    <3>1. SUFFICES ASSUME Keeps(a, u) \/ (Holds(a, u) /\ At(a, "adopt")), There(u), ~task'[a].alone
                   PROVE  u \in suspect'
      BY <2>2, <2>3, <2>4 DEF Warned, At, Like, There
    <3>2. CASE ~task[a].alone
      BY <1>1, <3>1, <3>2 DEF Truth, Warned
    <3>3. CASE task[a].alone
      <4>1. u \in task[a].rows /\ task'[a] # task[a]
        BY <2>3, <3>1, <3>3 DEF Holds
      <4>2. QED BY <1>3, <3>1, <4>1 DEF Launches, Begins
    <3>4. QED BY <3>2, <3>3
  <2>6. Sees(a, u)'
    <3>1. Sees(a, u)
      BY DEF Truth
    <3>2. QED BY <1>1, <2>2, <3>1 DEF Sees, At, Like
  <2>7. Tells(a, u)'
    <3>1. Tells(a, u)
      BY DEF Truth
    <3>2. QED BY <1>1, <2>2, <2>3, <2>4, <3>1 DEF Tells, Told, At, Like, There
  <2>8. QED BY <2>5, <2>6, <2>7
<1>4. QED BY <1>2, <1>3

LEMMA TruthStep ==
    ASSUME TypeOK, TypeOK', Shape, Shape', Rows, Rows', Owner, Overlaps, Track, Truth, [Next]_vars, EditImported = FALSE
    PROVE  Truth'
<1>1. ASSUME NEW t \in Tasks, Request(t) PROVE Truth'
  <2>1. Launches(t) /\ LaunchMoves(t)
    BY <1>1, LaunchIs, LaunchMovesIs
  <2>2. ASSUME NEW u \in Users PROVE Rests(u)'
    <3>1. SUFFICES ASSUME Free(u)', There(u)', row'[u].source = "managed", u \notin suspect' PROVE Told(u)'
      BY DEF Rests
    <3>2. Free(u) /\ row'[u] = row[u] /\ live' = live /\ u \notin suspect
      BY <2>1, <3>1, FreeLaunch DEF Launches, Begins
    <3>3. Told(u)
      BY <3>1, <3>2 DEF Truth, Rests, There
    <3>4. QED BY <3>2, <3>3 DEF Told
  <2>3. QED BY <2>1, <2>2, TruthLaunch DEF Truth
<1>2. ASSUME NEW t \in Tasks, RowStep(t) \/ BoxStep(t) \/ ImportStep(t) PROVE Truth'
  <2>1. Moves(t) /\ LiveMoves(t) /\ ItemMoves(t)
    BY <1>2, MovesIs, LiveMovesIs, ItemMovesIs
  <2>2. ASSUME NEW a \in Tasks, NEW u \in Users PROVE Warned(a, u)' /\ Sees(a, u)' /\ Tells(a, u)'
    <3>1. Warned(a, u)'
      BY <1>2, <2>1, WarnedMove
    <3>2. CASE a = t
      BY <1>2, <2>1, <3>1, <3>2, SeesOwn, TellsOwn
    <3>3. CASE a # t
      BY <2>1, <3>1, <3>3, SeesOther, TellsOther
    <3>4. QED BY <3>2, <3>3
  <2>3. \A u \in Users : Rests(u)'
    BY <1>2, <2>1, RestsMove
  <2>4. QED BY <2>2, <2>3 DEF Truth
<1>3. CASE Crash
  <2>1. /\ \A o \in Tasks, u \in Users : ~Holds(o, u)' /\ ~Keeps(o, u)'
        /\ \A o \in Tasks : \A u \in task[o].rows : There(u) => u \in suspect'
        /\ row' = row /\ live' = live /\ suspect \subseteq suspect'
    BY <1>3, CrashIs, UnbornIs DEF Idle, Holds, Keeps, Kept
  <2>2. ASSUME NEW u \in Users PROVE Rests(u)'
    <3>1. SUFFICES ASSUME There(u), row[u].source = "managed", u \notin suspect' PROVE Told(u)'
      BY <2>1 DEF Rests, There
    <3>2. Free(u) /\ u \notin suspect
      BY <2>1, <3>1 DEF Free
    <3>3. Told(u)
      BY <3>1, <3>2 DEF Truth, Rests
    <3>4. QED BY <2>1, <3>3 DEF Told
  <2>3. QED BY <2>1, <2>2 DEF Truth, Warned, Sees, Tells
<1>4. CASE BoxRestart
  <2>1. /\ \A o \in Tasks : Stays(o) /\ task'[o].alone = (task[o].pc = "idle")
        /\ \A u \in Users : There(u)' => u \in suspect'
    BY <1>4, BoxRestartIs DEF There
  <2>2. ASSUME NEW o \in Tasks, NEW u \in Users, task'[o].alone PROVE ~Keeps(o, u)'
    <3>1. task'[o].rows = {}
      BY <2>1, <2>2, IdleRows DEF Stays, Like
    <3>2. QED BY <3>1 DEF Keeps, Kept
  <2>3. QED BY <2>1, <2>2 DEF Truth, Warned, Sees, Tells, Rests
<1>5. CASE UNCHANGED vars
  <2>1. /\ \A o \in Tasks, u \in Users : /\ Warned(o, u)' <=> Warned(o, u)
                                         /\ Sees(o, u)' <=> Sees(o, u)
                                         /\ Tells(o, u)' <=> Tells(o, u)
        /\ \A u \in Users : Rests(u)' <=> Rests(u)
    BY <1>5 DEF vars, Warned, Sees, Tells, Rests, Told, Free, Keeps, Holds, At, There
  <2>2. QED BY <2>1 DEF Truth
<1>6. QED BY <1>1, <1>2, <1>3, <1>4, <1>5 DEF Next

-----------------------------------------------------------------------------
(* ConfigCurrent: what is served carries the password of the row *)

LEMMA NowIs ==
    ASSUME TypeOK, NEW a \in Tasks, NEW u \in Users
    PROVE  /\ Now(a, u).source = task[a].snap[u].source /\ Now(a, u).pw = task[a].snap[u].pw
           /\ Now(a, u).config = task[a].snap[u].config
<1>1. PICK b \in Row : b = task[a].snap[u]
  BY TaskFields
<1>2. QED BY <1>1 DEF Now, Row

LEMMA CarriesOther ==
    ASSUME TypeOK, TypeOK', Rows, Overlaps, Serving, NEW t \in Tasks, Moves(t), ItemMoves(t),
           NEW a \in Tasks, a # t, NEW u \in Users
    PROVE  Carries(a, u)'
<1>1. task'[a] = task[a]
  BY DEF Moves, Others
<1>2. SUFFICES ASSUME Keeps(a, u), row'[u].is = "there", u \notin torn'
               PROVE  There(u) /\ u \notin torn /\ item'[u] = item[u]
  <2>1. Carries(a, u) /\ (Keeps(a, u)' <=> Keeps(a, u))
    BY <1>1 DEF Serving, Keeps
  <2>2. QED BY <1>1, <1>2, <2>1 DEF Carries, There, At
<1>3. Holds(a, u) /\ u \in task[a].rows
  BY <1>2 DEF Keeps, Kept, Holds
<1>4. There(u)
  BY <1>2, <1>3 DEF Moves, RowMoves, Rows, There
<1>5. ASSUME u \in task[t].rows PROVE FALSE
  <2>1. Marked(u) /\ (Holds(t, u) => Upset(t))
    BY <1>1, <1>3, <1>4, <1>5 DEF Overlaps
  <2>2. QED BY <1>2, <2>1 DEF Moves, Marked, Upset
<1>6. u \notin torn
  BY <1>2, <1>5 DEF Moves, Holds
<1>7. item'[u] = item[u]
  BY <1>5 DEF ItemMoves
<1>8. QED BY <1>4, <1>6, <1>7

LEMMA CarriesOwn ==
    ASSUME TypeOK, TypeOK', Shape, Shape', Rows, Serving, NEW t \in Tasks, RowStep(t) \/ BoxStep(t) \/ ImportStep(t),
           Moves(t), ItemMoves(t), NEW u \in Users
    PROVE  Carries(t, u)'
<1>1. SUFFICES ASSUME Keeps(t, u)', row'[u].is = "there", u \notin torn' PROVE Carries(t, u)'
  BY DEF Carries, There
<1>2. task'[t] # Idle /\ ~Bare(task'[t])
  BY <1>1, UnbornIs DEF Keeps, Kept, Idle, Bare
<1>3. ShapeOf(task[t]) /\ ShapeOf(task'[t])
  BY DEF Shape
<1>4. Holds(t, u) /\ There(u)
  <2>1. Holds(t, u)'
    BY <1>1 DEF Keeps, Kept, Holds
  <2>2. Holds(t, u) /\ RowMoves(t, u)
    BY <2>1 DEF Moves
  <2>3. QED BY <1>1, <2>2 DEF Rows, RowMoves, There
<1>5. ASSUME NEW v \in Users, Puts(t, v) PROVE Carries(t, u)'
  <2>1. /\ task[t].pc \in Single /\ v \in task[t].rows /\ item' = item /\ torn \subseteq torn'
        /\ task'[t].pc \in {"hash", "config", "connect", "assign"}
    BY <1>5 DEF Puts, Writes, Saves, Single
  <2>2. u = v
    BY <1>3, <1>4, <2>1 DEF ShapeOf, Holds
  <2>3. task'[t].pc \in {"connect", "assign"} => task'[t].snap[u].config = task'[t].snap[u].pw
    BY <1>1, <1>5, <2>2 DEF Puts
  <2>4. ASSUME task'[t].pc \in {"connect", "config"}, task'[t].then = "idle"
        PROVE  item'[u] \in {None, task'[t].snap[u].pw}
    <3>1. /\ task'[t].snap[u].pw = task[t].snap[u].pw
          /\ (task[t].pc = "config" /\ task[t].then = "idle") \/ (task[t].pc = "adopt" /\ task[t].new = None)
      BY SMTT(30), <1>1, <1>5, <2>2, <2>4 DEF Puts
    <3>2. Keeps(t, u)
      BY <1>3, <1>4, <2>1, <3>1 DEF ShapeOf, Keeps, Holds
    <3>3. item[u] \in {None, task[t].snap[u].pw}
      BY <1>1, <1>4, <2>1, <3>1, <3>2 DEF Serving, Carries, At
    <3>4. QED BY <2>1, <3>1, <3>3
  <2>5. QED BY SMTT(30), <2>1, <2>3, <2>4 DEF Carries, At, OnBox
<1>6. ASSUME NEW v \in Users, Closes(t, v) \/ DestroyRow(t, v) PROVE FALSE
  BY <1>2, <1>6, DestroyRowIs DEF Closes, Ends
<1>7. ASSUME task[t].pc \in OnBox, task'[t].pc \in OnBox \cup {"items", "assign"}, torn' = torn,
             task'[t].rows = task[t].rows, task'[t].snap = task[t].snap, task'[t].then = task[t].then
      PROVE  Carries(t, u)'
  <2>1. Keeps(t, u)
    BY <1>1, <1>7 DEF Keeps, Kept
  <2>2. /\ task[t].snap[u].config = task[t].snap[u].pw
        /\ task[t].then = "idle" => item[u] \in {None, task[t].snap[u].pw}
    BY <1>1, <1>4, <1>7, <2>1 DEF Serving, Carries, At
  <2>3. item'[u] \in {item[u], None, task[t].snap[u].config}
    BY DEF ItemMoves
  <2>4. QED BY <1>7, <2>2, <2>3 DEF Carries, At, OnBox
<1>8. ASSUME Works(t) PROVE Carries(t, u)'
  <2>1. /\ task[t].pc \in {"unlink", "connect", "list", "apply"} /\ task'[t].pc \in {"destroy", "list", "apply"}
        /\ task'[t].rows = task[t].rows /\ task'[t].snap = task[t].snap /\ task'[t].then = task[t].then /\ torn' = torn
    BY SMTT(30), <1>8 DEF Works, Core
  <2>2. task[t].pc # "unlink" /\ task'[t].pc # "destroy"
    BY <1>1, <1>3, <2>1 DEF ShapeOf, Keeps, Kept
  <2>3. QED BY <1>7, <2>1, <2>2 DEF OnBox
<1>9. ASSUME PushEnds(t) PROVE Carries(t, u)'
  <2>1. /\ task'[t].rows = task[t].rows /\ task'[t].snap = task[t].snap /\ torn' = torn
        /\ task'[t].pc = "fold" /\ task[t].pc \in OnBox /\ task'[t].then = task[t].then
    BY <1>2, <1>9 DEF PushEnds, Folding, OnBox
  <2>2. QED BY <1>7, <2>1 DEF OnBox
<1>10. ASSUME NEW v \in Users, FoldsUser(t, v) PROVE Carries(t, u)'
  <2>1. /\ task'[t].rows = task[t].rows /\ task'[t].snap = task[t].snap /\ torn' = torn
        /\ task'[t].pc \in {"fold", task[t].then} /\ task[t].pc = "fold" /\ task'[t].then = task[t].then
        /\ task'[t].pc # "idle"
    BY <1>1, <1>2, <1>3, <1>10 DEF FoldsUser, Goes, Core, ShapeOf
  <2>2. task[t].then \in {"idle", "items", "assign", "unlink"}
    BY SMTT(30), <1>3, <2>1 DEF ShapeOf, OnBox
  <2>3. task'[t].pc # "unlink"
    BY <1>1, <1>3 DEF ShapeOf, Keeps, Kept
  <2>4. QED BY SMTT(30), <1>7, <2>1, <2>2, <2>3 DEF OnBox
<1>11. ASSUME task[t].pc \in Importing PROVE FALSE
  BY <1>3, <1>4, <1>11, UnbornIs DEF ShapeOf, Holds
<1>12. QED BY <1>5, <1>6, <1>8, <1>9, <1>10, <1>11, KindIs

LEMMA ServedMove ==
    ASSUME TypeOK, TypeOK', Shape, Rows, Overlaps, Track, Serving, NEW t \in Tasks,
           RowStep(t) \/ BoxStep(t) \/ ImportStep(t), Moves(t), ItemMoves(t), NEW u \in Users
    PROVE  Served(u)'
<1>1. SUFFICES ASSUME There(u)', row'[u].source = "managed", u \notin torn', Free(u)'
               PROVE  row'[u].config = row'[u].pw /\ item'[u] \in {None, row'[u].pw}
  BY DEF Served
<1>2. \A o \in Tasks : o # t => (u \in task[o].rows => task[o].pc \in Importing)
  BY <1>1 DEF Moves, Others, Free
<1>3. CASE u \in task[t].rows => task[t].pc \in Importing
  <2>1. row'[u] = row[u] /\ u \notin torn /\ item'[u] = item[u]
    BY <1>1, <1>3, FreeStays DEF There
  <2>2. QED BY <1>1, <1>2, <1>3, <2>1 DEF Serving, Served, Free, There
<1>4. CASE ~(u \in task[t].rows => task[t].pc \in Importing)
  <2>1. Left(t, u)
    BY <1>1, <1>4 DEF Left, Free
  <2>2. Holds(t, u) /\ There(u)
    BY <1>1, <2>1, LeftIs
  <2>3. ASSUME task[t].alone \/ u \notin torn
        PROVE  /\ row[u].source = task[t].snap[u].source /\ row[u].pw = task[t].snap[u].pw
               /\ row[u].config = task[t].snap[u].config
    BY <2>2, <2>3, TrackNow, NowIs
  <2>4. CASE Closes(t, u) /\ Keeps(t, u)
    <3>1. /\ row' = row /\ item'[u] \in {None, task[t].snap[u].config} /\ task[t].pc \in {"items", "assign"}
          /\ u \in task[t].rows /\ ((task[t].pc = "items" /\ task[t].alone) \/ u \notin torn)
      BY <1>1, <2>4 DEF Closes
    <3>2. task[t].snap[u].config = task[t].snap[u].pw
      <4>1. CASE task[t].pc = "items"
        BY <3>1, <4>1 DEF Shape, ShapeOf
      <4>2. CASE u \notin torn
        BY <2>2, <2>4, <3>1, <4>2 DEF Serving, Carries
      <4>3. QED BY <3>1, <4>1, <4>2
    <3>3. QED BY <2>3, <3>1, <3>2
  <2>5. ASSUME ~Keeps(t, u), row'[u].source = row[u].source, u \notin torn PROVE FALSE
    BY <1>1, <2>2, <2>3, <2>5 DEF Keeps, Kept, Holds
  <2>6. CASE \E v \in Users : FoldsUser(t, v) /\ task[t].then = "idle" /\ task[t].todo = {v} /\ Keeps(t, v)
    <3>1. PICK v \in Users : FoldsUser(t, v) /\ task[t].then = "idle"
      BY <2>6
    <3>2. /\ row'[u].source = row[u].source /\ row'[u].pw = row[u].pw /\ row'[u].config = row[u].config
          /\ u \notin torn /\ item' = item /\ task[t].pc = "fold"
      BY <1>1, <2>2, <3>1 DEF FoldsUser
    <3>3. Keeps(t, u)
      BY <2>5, <3>2
    <3>4. task[t].snap[u].config = task[t].snap[u].pw /\ item[u] \in {None, task[t].snap[u].pw}
      BY <2>2, <3>1, <3>2, <3>3 DEF Serving, Carries, OnBox
    <3>5. QED BY <2>3, <3>2, <3>4
  <2>7. CASE ~Keeps(t, u) /\ row' = row /\ torn' = torn
    BY <1>1, <2>5, <2>7
  <2>8. QED BY <1>1, <2>1, <2>4, <2>6, <2>7, LeftIs
<1>5. QED BY <1>3, <1>4

LEMMA ServingLaunch ==
    ASSUME TypeOK, TypeOK', Shape, Shape', Rows, Rows', Serving, NEW t \in Tasks, Launches(t), LaunchMoves(t),
           NEW a \in Tasks, NEW u \in Users
    PROVE  Carries(a, u)'
<1>1. item' = item /\ torn \subseteq torn'
  BY DEF Launches, Begins
<1>2. SUFFICES ASSUME Keeps(a, u)', row'[u].is = "there", u \notin torn' PROVE Carries(a, u)'
  BY DEF Carries, There
<1>3. CASE a = t
  <2>1. Holds(t, u)' /\ u \in task'[t].rows /\ row'[u] = task'[t].snap[u]
    BY <1>2, <1>3 DEF LaunchMoves, Holds, Keeps, Kept
  <2>2. task'[t].alone
    BY <1>2, <2>1 DEF Launches, Begins, Holds
  <2>3. Free(u)
    BY <2>1, <2>2, AloneLaunch
  <2>4. CASE row'[u] = row[u]
    <3>1. There(u) /\ row[u].source = "managed"
      BY <1>2, <1>3, <2>4 DEF Rows, There
    <3>2. row[u].config = row[u].pw /\ item[u] \in {None, row[u].pw}
      BY <1>1, <1>2, <2>3, <3>1 DEF Serving, Served
    <3>3. QED BY <1>1, <1>3, <2>1, <2>4, <3>2 DEF Carries
  <2>5. CASE row'[u] # row[u]
    <3>1. item'[u] = None
      BY <1>1, <2>5 DEF LaunchMoves, Rows
    <3>2. task'[t].pc \in {"config", "defaults", "adopt"}
      BY <2>5 DEF Launches, Created, DefaultMade, Adopted, Adopting, Updating, Reading, Reads, Sweeping
    <3>3. QED BY <1>3, <3>1, <3>2 DEF Carries, OnBox
  <2>6. QED BY <2>4, <2>5
<1>4. CASE a # t
  <2>1. Stays(a)
    BY <1>4 DEF Launches, Begins
  <2>2. Keeps(a, u) /\ Holds(a, u) /\ Like(task'[a], task[a])
    BY <1>2, <2>1, StaysIs DEF Stays, Keeps, Kept, Holds
  <2>3. row'[u] = row[u]
    BY <2>2 DEF LaunchMoves, Rows
  <2>4. Carries(a, u)
    BY DEF Serving
  <2>5. QED BY <1>1, <1>2, <2>2, <2>3, <2>4 DEF Carries, Like, There, At
<1>5. QED BY <1>3, <1>4

LEMMA ServingStep ==
    ASSUME TypeOK, TypeOK', Shape, Shape', Rows, Rows', Overlaps, Track, Serving, [Next]_vars, EditImported = FALSE
    PROVE  Serving'
<1>1. ASSUME NEW t \in Tasks, Request(t) PROVE Serving'
  <2>1. Launches(t) /\ LaunchMoves(t)
    BY <1>1, LaunchIs, LaunchMovesIs
  <2>2. ASSUME NEW u \in Users PROVE Served(u)'
    <3>1. SUFFICES ASSUME Free(u)', There(u)', row'[u].source = "managed", u \notin torn'
                   PROVE  row'[u].config = row'[u].pw /\ item'[u] \in {None, row'[u].pw}
      BY DEF Served
    <3>2. Free(u) /\ row'[u] = row[u] /\ item' = item /\ u \notin torn
      BY <2>1, <3>1, FreeLaunch DEF Launches, Begins
    <3>3. QED BY <3>1, <3>2 DEF Serving, Served, There
  <2>3. QED BY <2>1, <2>2, ServingLaunch DEF Serving
<1>2. ASSUME NEW t \in Tasks, RowStep(t) \/ BoxStep(t) \/ ImportStep(t) PROVE Serving'
  <2>1. Moves(t) /\ ItemMoves(t)
    BY <1>2, MovesIs, ItemMovesIs
  <2>2. ASSUME NEW a \in Tasks, NEW u \in Users PROVE Carries(a, u)'
    BY <1>2, <2>1, CarriesOwn, CarriesOther
  <2>3. \A u \in Users : Served(u)'
    BY <1>2, <2>1, ServedMove
  <2>4. QED BY <2>2, <2>3 DEF Serving
<1>3. CASE Crash
  <2>1. /\ \A o \in Tasks, u \in Users : ~Keeps(o, u)'
        /\ \A o \in Tasks : \A u \in task[o].rows : There(u) => u \in torn'
        /\ row' = row /\ item' = item /\ torn \subseteq torn'
    BY <1>3, CrashIs, UnbornIs DEF Idle, Keeps, Kept
  <2>2. ASSUME NEW u \in Users PROVE Served(u)'
    <3>1. SUFFICES ASSUME There(u), row[u].source = "managed", u \notin torn'
                   PROVE  row[u].config = row[u].pw /\ item[u] \in {None, row[u].pw}
      BY <2>1 DEF Served, There
    <3>2. Free(u) /\ u \notin torn
      BY <2>1, <3>1 DEF Free
    <3>3. QED BY <3>1, <3>2 DEF Serving, Served
  <2>3. QED BY <2>1, <2>2 DEF Serving, Carries
<1>4. CASE BoxRestart
  <2>1. /\ \A o \in Tasks : Stays(o)
        /\ row' = row /\ item' = item /\ torn' = torn
    BY <1>4, BoxRestartIs
  <2>2. \A o \in Tasks, u \in Users : (Keeps(o, u)' <=> Keeps(o, u)) /\ Like(task'[o], task[o])
    BY <2>1, StaysIs DEF Stays
  <2>3. \A o \in Tasks, u \in Users : Carries(o, u) => Carries(o, u)'
    BY <2>1, <2>2 DEF Carries, Like, There, At
  <2>4. \A u \in Users : Served(u) => Served(u)'
    <3>1. \A u \in Users : Free(u)' <=> Free(u)
      BY <2>1 DEF Free, Stays, Like
    <3>2. QED BY <2>1, <3>1 DEF Served, There
  <2>5. QED BY <2>3, <2>4 DEF Serving
<1>5. CASE UNCHANGED vars
  <2>1. /\ \A o \in Tasks, u \in Users : Carries(o, u)' <=> Carries(o, u)
        /\ \A u \in Users : Served(u)' <=> Served(u)
    BY <1>5 DEF vars, Carries, Served, Free, Keeps, At, There
  <2>2. QED BY <2>1 DEF Serving
<1>6. QED BY <1>1, <1>2, <1>3, <1>4, <1>5 DEF Next

-----------------------------------------------------------------------------
(* The invariant and what follows from it *)

IInv ==
    /\ TypeOK /\ Shape /\ Rows /\ Owner
    /\ Overlaps /\ Track
    /\ Even /\ Leaving /\ Claims
    /\ Listing /\ ImportsAreForeign
    /\ Truth /\ Serving

\* Every row of the start is one of Held's, settled, and nobody is at work.
LEMMA InitIs ==
    ASSUME Init
    PROVE  /\ \A t \in Tasks : task[t] = Idle /\ task[t].pc = "idle" /\ task[t].rows = {} /\ task[t].old = {}
           /\ \A t \in Tasks, u \in Users :
                 ~Holds(t, u) /\ ~Keeps(t, u) /\ ~Parting(t, u) /\ \A h \in Passwords : ~TaskHas(t, u, h)
           /\ \A u \in Users : item[u] = row[u].config
           /\ \A u \in Users :
                 \/ u \notin DOMAIN Held /\ row[u] = Unborn
                 \/ /\ u \in DOMAIN Held /\ row[u].is = "there" /\ row[u].source = "managed" /\ row[u].pw = Held[u]
                    /\ row[u].rh = Held[u] /\ row[u].config = Held[u] /\ row[u].enabled /\ row[u].synced
                    /\ Held[u] \in Passwords /\ Held[u] \in known /\ Held[u] \in live
           /\ \A u, v \in DOMAIN Held : Held[u] = Held[v] => u = v
           /\ live = Foreign \cup known
           /\ \A h \in known : \E u \in Users : u \in DOMAIN Held /\ h = Held[u]
<1>1. /\ DOMAIN Held \subseteq Users /\ Held \in [DOMAIN Held -> Passwords \ Foreign]
      /\ \A u, v \in DOMAIN Held : Held[u] = Held[v] => u = v
  BY UserReconcileAssumption
<1>2. ASSUME NEW p
      PROVE  /\ Settled(p).is = "there" /\ Settled(p).source = "managed" /\ Settled(p).pw = p /\ Settled(p).rh = p
             /\ Settled(p).config = p /\ Settled(p).enabled = TRUE /\ Settled(p).synced = TRUE
  <2>1. PICK m : m = Managed(p)
    OBVIOUS
  <2>2. PICK n : n = [Unborn EXCEPT !.is = "there", !.pw = p, !.rh = p]
    OBVIOUS
  <2>3. m = n
    BY <2>1, <2>2 DEF Managed
  <2>4. n = [is |-> "there", source |-> "managed", enabled |-> TRUE, pw |-> p, rh |-> p, config |-> None, synced |-> FALSE]
    BY <2>2 DEF Unborn
  <2>5. PICK s : s = [m EXCEPT !.config = p, !.synced = TRUE]
    OBVIOUS
  <2>6. Settled(p) = s
    BY <2>1, <2>5 DEF Settled
  <2>7. /\ s.is = "there" /\ s.source = "managed" /\ s.pw = p /\ s.rh = p
        /\ s.config = p /\ s.enabled = TRUE /\ s.synced = TRUE
    BY <2>3, <2>4, <2>5
  <2>8. QED BY <2>6, <2>7
<1>3. \A u \in Users : row[u] = IF u \in DOMAIN Held THEN Settled(Held[u]) ELSE Unborn
  BY DEF Init
<1>4. \A u \in DOMAIN Held : Held[u] \in Passwords /\ Held[u] \in known /\ Held[u] \in live
  BY <1>1 DEF Init
<1>5. ASSUME NEW u \in Users
      PROVE  \/ u \notin DOMAIN Held /\ row[u] = Unborn
             \/ /\ u \in DOMAIN Held /\ row[u].is = "there" /\ row[u].source = "managed" /\ row[u].pw = Held[u]
                /\ row[u].rh = Held[u] /\ row[u].config = Held[u] /\ row[u].enabled /\ row[u].synced
                /\ Held[u] \in Passwords /\ Held[u] \in known /\ Held[u] \in live
  <2>1. CASE u \in DOMAIN Held
    <3>1. row[u] = Settled(Held[u])
      BY <1>3, <2>1
    <3>2. PICK p : p = Held[u]
      OBVIOUS
    <3>3. PICK q : q = Settled(p)
      OBVIOUS
    <3>4. row[u] = q /\ p \in Passwords /\ p \in known /\ p \in live
      BY <1>4, <2>1, <3>1, <3>2, <3>3
    <3>5. /\ q.is = "there" /\ q.source = "managed" /\ q.pw = p /\ q.rh = p
          /\ q.config = p /\ q.enabled = TRUE /\ q.synced = TRUE
      BY <1>2, <3>3
    <3>6. QED BY <2>1, <3>2, <3>4, <3>5
  <2>2. CASE u \notin DOMAIN Held
    BY <1>3, <2>2
  <2>3. QED BY <2>1, <2>2
<1>6. \A t \in Tasks : task[t] = Idle
  BY DEF Init
<1>7. \A t \in Tasks : task[t].pc = "idle" /\ task[t].rows = {} /\ task[t].old = {}
  BY <1>6 DEF Idle
<1>8. \A t \in Tasks, u \in Users :
          ~Holds(t, u) /\ ~Keeps(t, u) /\ ~Parting(t, u) /\ \A h \in Passwords : ~TaskHas(t, u, h)
  BY <1>7 DEF Holds, Keeps, Kept, Parting, TaskHas
<1>9. QED BY <1>1, <1>5, <1>6, <1>7, <1>8 DEF Init

LEMMA InitIInv ==
    ASSUME Init
    PROVE  IInv
<1>1. TypeOK
  BY TypeInit
<1>2. Shape
  BY InitIs, ShapeIdle DEF Shape
<1>3. Rows
  BY InitIs, UnbornIs DEF Rows, Proper, There, Unborn
<1>4. \A u \in Users, h \in Passwords : Has(u, h) => u \in DOMAIN Held /\ h = Held[u]
  BY InitIs, UnbornIs DEF Has, RowHas, There
<1>5. Owner
  BY <1>4, InitIs DEF Owner
<1>6. Overlaps /\ Track
  BY InitIs DEF Overlaps, Track
<1>7. Even
  BY InitIs, UnbornIs DEF Even, At, There
<1>8. Leaving
  BY InitIs DEF Leaving
<1>9. Claims
  <2>1. ASSUME NEW h \in live \cap known PROVE \E u \in Users : Claimed(u, h)
    <3>1. PICK u \in Users : u \in DOMAIN Held /\ h = Held[u]
      BY <2>1, InitIs
    <3>2. QED BY <3>1, InitIs DEF Claimed, There
  <2>2. QED BY <2>1 DEF Claims
<1>10. Listing
  BY InitIs DEF Listing, At
<1>11. ImportsAreForeign
  BY InitIs, UnbornIs DEF ImportsAreForeign, There
<1>12. Truth
  <2>1. ASSUME NEW t \in Tasks, NEW u \in Users PROVE Warned(t, u) /\ Sees(t, u) /\ Tells(t, u)
    BY InitIs DEF Warned, Sees, Tells
  <2>2. ASSUME NEW u \in Users PROVE Rests(u)
    BY InitIs, UnbornIs DEF Rests, Told, There
  <2>3. QED BY <2>1, <2>2 DEF Truth
<1>13. Serving
  <2>1. ASSUME NEW t \in Tasks, NEW u \in Users PROVE Carries(t, u)
    BY InitIs DEF Carries
  <2>2. ASSUME NEW u \in Users PROVE Served(u)
    BY InitIs, UnbornIs DEF Served, There
  <2>3. QED BY <2>1, <2>2 DEF Serving
<1>14. QED BY <1>1, <1>2, <1>3, <1>5, <1>6, <1>7, <1>8, <1>9, <1>10, <1>11, <1>12, <1>13 DEF IInv

LEMMA NextIInv ==
    ASSUME IInv, [Next]_vars, EditImported = FALSE
    PROVE  IInv'
<1> USE DEF IInv
<1>1. Pushed
  <2>1. ASSUME NEW t \in Tasks, NEW u \in task[t].todo PROVE task[t].snap[u].pw \in Passwords
    <3>1. ShapeOf(task[t]) /\ u \in Users
      BY TaskFields DEF Shape
    <3>2. u \in task[t].push /\ task[t].push \subseteq task[t].rows
      BY <3>1 DEF ShapeOf
    <3>3. PICK r \in Task : r = task[t]
      BY DEF TypeOK
    <3>4. ShapeOf(r) /\ u \in r.push /\ u \in r.rows
      BY <3>1, <3>2, <3>3
    <3>5. r.pc # "idle"
      BY <3>4 DEF ShapeOf, Idle
    <3>6. r.pc \in OnBox \cup {"items", "assign"}
      BY <3>4, <3>5 DEF ShapeOf, OnBox, Single, Importing, Task, Steps
    <3>7. r.pc \in OnBox => Kept(r, u)
      BY <3>4 DEF ShapeOf
    <3>8. r.pc \in {"items", "assign"} => Kept(r, u)
      BY <3>4 DEF ShapeOf, Single
    <3>9. Kept(r, u)
      BY <3>6, <3>7, <3>8
    <3>10. Keeps(t, u)
      BY <3>3, <3>9 DEF Keeps
    <3>11. QED BY <3>1, <3>10, KeepsHas
  <2>2. QED BY <2>1 DEF Pushed
<1>2. TypeOK'
  BY <1>1, TypeStep
<1>3. Shape'
  BY <1>2, ShapeStep
<1>4. Rows'
  BY <1>2, <1>3, RowsStep
<1>5. Owner'
  BY <1>2, <1>3, OwnerStep
<1>6. Overlaps'
  BY <1>2, <1>3, OverlapsStep
<1>7. Track'
  BY <1>2, <1>3, TrackStep
<1>8. Even'
  BY <1>2, <1>3, <1>6, EvenStep
<1>9. Leaving'
  BY <1>2, <1>3, <1>6, LeavingStep
<1>10. Claims'
  BY <1>2, <1>3, ClaimsStep
<1>11. Listing'
  BY <1>2, <1>3, ListingStep
<1>12. ImportsAreForeign'
  BY <1>2, <1>3, ForeignStep
<1>13. Truth'
  BY <1>2, <1>3, <1>4, TruthStep
<1>14. Serving'
  BY <1>2, <1>3, <1>4, ServingStep
<1>15. QED BY <1>2, <1>3, <1>4, <1>5, <1>6, <1>7, <1>8, <1>9, <1>10, <1>11, <1>12, <1>13, <1>14

LEMMA IInvHolds ==
    ASSUME EditImported = FALSE
    PROVE  Spec => []IInv
<1>1. IInv /\ [Next]_vars => IInv'
  BY NextIInv
<1>2. QED BY <1>1, InitIInv, PTL DEF Spec


\* Every variable of the model stays in its type: the rows, the instances the
\* tasks hold, trojan-go's hashes and what the panel knows of them.
THEOREM TypeCorrect ==
    ASSUME EditImported = FALSE
    PROVE  Spec => []TypeOK
<1>1. IInv => TypeOK
  BY DEF IInv
<1>2. QED BY <1>1, IInvHolds, PTL

\* However tasks, crashes, restarts and failed calls interleave, a live hash of
\* the panel's is a row's, a task's, or one the panel failed to take off or could
\* not follow: rotation, adoption and deletion leave no other credential behind.
THEOREM NoStrayHolds ==
    ASSUME EditImported = FALSE
    PROVE  Spec => []NoStray
<1>1. ASSUME IInv PROVE NoStray
  <2>1. ASSUME NEW h \in live \cap known
        PROVE  \/ h \in strays
               \/ \E u \in Users : There(u) /\ row[u].rh = h
               \/ \E t \in Tasks : h \in Mentioned(task[t])
    <3>1. h \in Passwords
      BY <1>1 DEF IInv, TypeOK
    <3>2. CASE \E u \in Users : Claimed(u, h)
      BY <3>2 DEF Claimed
    <3>3. CASE \E t \in Tasks, u \in Users : TaskHas(t, u, h)
      BY <1>1, <3>1, <3>3, HasMentioned DEF IInv
    <3>4. QED BY <1>1, <3>2, <3>3 DEF IInv, Claims
  <2>2. QED BY <2>1 DEF NoStray
<1>2. QED BY <1>1, IInvHolds, PTL

\* An import never takes a hash the panel put on the box for a user of the box's
\* own, though it reads the box and the rows at different times.
THEOREM ImportsAreForeignHolds ==
    ASSUME EditImported = FALSE
    PROVE  Spec => []ImportsAreForeign
<1>1. IInv => ImportsAreForeign
  BY DEF IInv
<1>2. QED BY <1>1, IInvHolds, PTL

\* A user nobody is at work on is neither pushed nor read by any task.
LEMMA AtRest ==
    ASSUME IInv, NEW u \in Users, ~Active(u), NEW t \in Tasks
    PROVE  u \notin task[t].rows
BY IdleRows DEF IInv, Active, At

\* What the panel shows as synced is so, once no task is at work on the user and
\* unless something has disturbed the last one that was.
THEOREM ReconciledHolds ==
    ASSUME EditImported = FALSE
    PROVE  Spec => []Reconciled
<1>1. ASSUME IInv PROVE Reconciled
  <2>1. ASSUME NEW u \in Users, There(u), row[u].source = "managed", row[u].synced, u \notin suspect, ~Active(u)
        PROVE  (row[u].pw \in live <=> row[u].enabled) /\ row[u].rh = row[u].pw
    <3>1. Free(u)
      BY <1>1, <2>1, AtRest DEF Free
    <3>2. Told(u)
      BY <1>1, <2>1, <3>1 DEF IInv, Truth, Rests
    <3>3. QED BY <2>1, <3>2 DEF Told
  <2>2. QED BY <2>1 DEF Reconciled
<1>2. QED BY <1>1, IInvHolds, PTL

\* The config and the catalog item of a user carry its password, once no task is
\* at work on it and unless a crash or an overlap has torn its last update.
THEOREM ConfigCurrentHolds ==
    ASSUME EditImported = FALSE
    PROVE  Spec => []ConfigCurrent
<1>1. ASSUME IInv PROVE ConfigCurrent
  <2>1. ASSUME NEW u \in Users, There(u), row[u].source = "managed", u \notin torn, ~Active(u)
        PROVE  row[u].config = row[u].pw /\ item[u] \in {None, row[u].pw}
    <3>1. Free(u)
      BY <1>1, <2>1, AtRest DEF Free
    <3>2. QED BY <1>1, <2>1, <3>1 DEF IInv, Serving, Served
  <2>2. QED BY <2>1 DEF ConfigCurrent
<1>2. QED BY <1>1, IInvHolds, PTL
=============================================================================
