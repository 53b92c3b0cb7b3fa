------------------------- MODULE MigrateCopyProofs -------------------------
(***************************************************************************)
(* The migration brings over one whole copy or none, whatever the file     *)
(* holds, however many runs there are and wherever they are killed.        *)
(***************************************************************************)
EXTENDS MigrateCopy, StoreProofs

\* The file of a service that has served has a user: bootstrap.EnsureAdmin ends
\* main before it listens unless there is one, and no user is ever deleted.
\* (Of a file without a row two runs both succeed, and both bring over nothing.)
SourceHasUser == \A db \in InitialSources : \E u \in UserIds : db.users[u] # NULL

\* The tables that a run has copied when it is at pc.
Behind(pc) ==
  CASE pc = "groups"  -> {"users"}
    [] pc = "members" -> {"users", "groups"}
    [] pc = "tokens"  -> {"users", "groups", "members"}
    [] pc = "rules"   -> {"users", "groups", "members", "tokens"}
    [] pc = "commit"  -> Tables
    [] OTHER          -> {}

HasUser(rows, u) == \E x \in rows : x[1] = u
Holders          == {r \in Runs : run[r].tx.users # {}}

\* What one run knows: it reads what sqlite has, table by table; nothing is
\* written any more if the service had been stopped.
RunInv(r) ==
  /\ run[r].stopped => ~live
  /\ working(r) => \A t \in Tables : Source[t] \in seen[r][t]
  /\ \A t \in Behind(run[r].pc) : /\ run[r].tx[t] \in seen[r][t]
                                  /\ run[r].stopped => run[r].tx[t] = Source[t]
  /\ working(r) => \A t \in Tables \ Behind(run[r].pc) : run[r].tx[t] = {}

\* A user u who is in sqlite from the beginning keeps two copies apart: every
\* transaction that has users has u, so that one of them at most is open, and
\* none any more once a copy is committed.
AnchorInv(u) ==
  /\ IsUser(u)
  /\ \A r \in Runs : "users" \in Behind(run[r].pc) => r \in Holders
  /\ \A r \in Holders : HasUser(run[r].tx.users, u)
  /\ \A r, q \in Holders : r = q
  /\ Copied # {} => HasUser(mysql.users, u) /\ Holders = {}

\* Until a copy is committed mysql has nothing but the administrator.
TargetInv == Copied = {} => /\ mysql.users \subseteq Admins
                            /\ \A t \in Tables \ {"users"} : mysql[t] = {}

MigrateInv ==
  /\ TypeOK
  /\ \A r \in Runs : RunInv(r)
  /\ \E u \in UserIds : AnchorInv(u)
  /\ TargetInv
  /\ ExactWhenStopped
  /\ RefusedForCause

-----------------------------------------------------------------------------
(***************************************************************************)
(* Types.                                                                  *)
(***************************************************************************)
LEMMA InContents ==
  ASSUME NEW db, db = [t \in Tables |-> db[t]], \A t \in Tables : db[t] \subseteq Row[t]
  PROVE  db \in Contents
<1> DEFINE all == UNION {Row[t] : t \in Tables}
<1>1. \A t \in Tables : db[t] \in SUBSET all
  OBVIOUS
<1> HIDE DEF all
<1>2. db \in [Tables -> SUBSET all]
  BY <1>1
<1> QED BY <1>2 DEF Contents, all

LEMMA OfContents ==
  ASSUME NEW db \in Contents
  PROVE  db = [t \in Tables |-> db[t]] /\ \A t \in Tables : db[t] \subseteq Row[t]
BY DEF Contents

LEMMA SourceTyped == StoreTypeOK => Source \in Contents
<1> SUFFICES ASSUME StoreTypeOK PROVE Source \in Contents
  OBVIOUS
<1>1. /\ RowsOf(users) \subseteq UserIds \X UserRow
      /\ RowsOf(groups) \subseteq GroupIds \X GroupNames
      /\ RowsOf(tokens) \subseteq TokenIds \X TokenRow
      /\ RowsOf(rules) \subseteq RuleIds \X RuleRow
  BY DEF StoreTypeOK, RowsOf
<1>2. members \subseteq GroupIds \X UserIds
  BY DEF StoreTypeOK
<1>3. \A t \in Tables : Source[t] \subseteq Row[t]
  BY <1>1, <1>2 DEF Source, Row, Tables
<1>4. Source = [t \in Tables |-> Source[t]]
  BY DEF Source, Tables
<1> QED BY <1>3, <1>4, InContents

LEMMA EmptyTyped == Empty \in Contents /\ \A t \in Tables : Empty[t] = {}
<1>1. Empty = [t \in Tables |-> Empty[t]] /\ \A t \in Tables : Empty[t] = {}
  BY DEF Empty
<1> QED BY <1>1, InContents

LEMMA ExceptTyped ==
  ASSUME NEW db \in Contents, NEW t \in Tables, NEW rows \in SUBSET Row[t]
  PROVE  /\ [db EXCEPT ![t] = rows] \in Contents
         /\ [db EXCEPT ![t] = rows][t] = rows
         /\ \A s \in Tables \ {t} : [db EXCEPT ![t] = rows][s] = db[s]
<1> DEFINE new == [db EXCEPT ![t] = rows]
<1>1. db = [s \in Tables |-> db[s]] /\ \A s \in Tables : db[s] \subseteq Row[s]
  BY OfContents
<1>2. /\ new = [s \in Tables |-> new[s]] /\ new[t] = rows
      /\ \A s \in Tables \ {t} : new[s] = db[s]
  BY <1>1
<1> HIDE DEF new
<1>3. new \in Contents
  BY <1>1, <1>2, InContents
<1> QED BY <1>2, <1>3 DEF new

LEMMA JoinTyped ==
  ASSUME NEW db \in Contents, NEW tx \in Contents
  PROVE  /\ Join(db, tx) \in Contents
         /\ \A t \in Tables : Join(db, tx)[t] = db[t] \cup tx[t]
<1> DEFINE new == Join(db, tx)
<1>1. new = [t \in Tables |-> new[t]] /\ \A t \in Tables : new[t] = db[t] \cup tx[t]
  BY DEF Join
<1> HIDE DEF new
<1>2. \A t \in Tables : new[t] \subseteq Row[t]
  BY <1>1, OfContents
<1> QED BY <1>1, <1>2, InContents DEF new

\* What a type gives for one run.
LEMMA RunTyped ==
  ASSUME TypeOK, NEW r \in Runs
  PROVE  /\ run[r] \in Run /\ run[r].pc \in PCs /\ run[r].stopped \in BOOLEAN
         /\ run[r].tx \in Contents /\ Source \in Contents
         /\ working(r) \/ run[r].pc = "killed" \/ run[r].tx = Empty
BY SourceTyped DEF TypeOK, Run, working

\* The history, table by table.
LEMMA Observed ==
  ASSUME Observe, NEW r \in Runs, NEW t \in Tables
  PROVE  seen'[r][t] = IF run'[r].pc \notin Working THEN {}
                       ELSE IF at(r, "new") THEN {Source'[t]} ELSE seen[r][t] \cup {Source'[t]}
BY DEF Observe

LEMMA ObserveTyped ==
  ASSUME TypeOK, Observe, StoreTypeOK'
  PROVE  /\ seen' \in [Runs -> [Tables -> SUBSET UNION {SUBSET Row[t] : t \in Tables}]]
         /\ \A r \in Runs, t \in Tables : seen'[r][t] \subseteq SUBSET Row[t]
<1> DEFINE all == UNION {SUBSET Row[t] : t \in Tables}
<1>1. Source' \in Contents
  <2>1. (StoreTypeOK => Source \in Contents)'
    BY SourceTyped, PTL
  <2> QED BY <2>1
<1>2. \A t \in Tables : Source'[t] \in SUBSET Row[t]
  BY <1>1, OfContents
<1>3. ASSUME NEW r \in Runs, NEW t \in Tables PROVE seen'[r][t] \subseteq SUBSET Row[t]
  <2>1. seen[r][t] \subseteq SUBSET Row[t]
    BY DEF TypeOK
  <2>2. seen'[r][t] \in {{}, {Source'[t]}, seen[r][t] \cup {Source'[t]}}
    BY Observed
  <2>3. Source'[t] \in SUBSET Row[t]
    BY <1>2
  <2> QED BY <2>1, <2>2, <2>3
<1>4. \A r \in Runs, t \in Tables : seen'[r][t] \in SUBSET all
  BY <1>3
<1>5. /\ seen' = [r \in Runs |-> seen'[r]]
      /\ \A r \in Runs : seen'[r] = [t \in Tables |-> seen'[r][t]]
  BY DEF Observe
<1> HIDE DEF all
<1>6. \A r \in Runs : seen'[r] \in [Tables -> SUBSET all]
  BY <1>4, <1>5
<1>7. seen' \in [Runs -> [Tables -> SUBSET all]]
  BY <1>5, <1>6
<1> QED BY <1>3, <1>7 DEF all

-----------------------------------------------------------------------------
(***************************************************************************)
(* What a step does, read off the actions: a run moves to p with the rows  *)
(* tx in its transaction, or the world around the runs moves.              *)
(***************************************************************************)
Moved(r, p, tx, stopped) ==
  /\ UNCHANGED <<tables, live, writes, server>>
  /\ run' \in [Runs -> Run]
  /\ run'[r].pc = p /\ run'[r].tx = tx /\ run'[r].stopped = stopped
  /\ \A q \in Runs \ {r} : run'[q] = run[q]

Begins(r) ==
  /\ at(r, "new") /\ mysql' = mysql
  /\ \E p \in {"users", "failed"} : Moved(r, p, Empty, ~live)

Copies(r, t, next) ==
  /\ t \in Tables /\ at(r, t) /\ mysql' = mysql
  /\ Behind(next) = Behind(t) \cup {t} /\ t \notin Behind(t) /\ next \in Working
  /\ ~Refuses(Join(mysql, run[r].tx), t, Source[t]) /\ ~Waits(r, t, Source[t])
  /\ Moved(r, next, [run[r].tx EXCEPT ![t] = Source[t]], run[r].stopped)

IsRefused(r, t) ==
  /\ t \in Tables /\ at(r, t) /\ mysql' = mysql
  /\ Refuses(Join(mysql, run[r].tx), t, Source[t])
  /\ Moved(r, "refused", Empty, run[r].stopped)

Gives(r) ==   \* up, killed or not
  /\ run[r].pc \in Working \cup {"killed"} /\ mysql' = mysql
  /\ Moved(r, "failed", Empty, run[r].stopped)

IsKilled(r) ==
  /\ working(r) /\ mysql' = mysql
  /\ Moved(r, "killed", run[r].tx, run[r].stopped)

Commits(r) ==
  /\ at(r, "commit") /\ mysql' = Join(mysql, run[r].tx)
  /\ \E p \in {"ok", "lost"} : Moved(r, p, Empty, run[r].stopped)

ToolStep(r) == \/ Begins(r) \/ IsRefused(r, run[r].pc) \/ Gives(r) \/ IsKilled(r)
               \/ \E next \in Working : Copies(r, run[r].pc, next)
               \/ Commits(r)

\* The file changes only while the service runs; mysql gets an administrator.
WorldStep ==
  /\ run' = run
  /\ \/ live /\ live' \in BOOLEAN /\ mysql' = mysql
     \/ ~live /\ ~live' /\ mysql' = mysql /\ UNCHANGED tables
     \/ /\ live' = live /\ UNCHANGED tables
        /\ \E x \in Admins : mysql' = [mysql EXCEPT !.users = @ \cup {x}]
  /\ StoreTypeOK' /\ UsersKept
  /\ writes' \in 0..MaxWrites /\ server' \in {"down", "create", "up"} /\ live' \in BOOLEAN

Is(x, p, tx, stopped) == x \in Run /\ x.pc = p /\ x.tx = tx /\ x.stopped = stopped

LEMMA RunExcept ==
  ASSUME NEW x \in Run, NEW p \in PCs, NEW tx \in Contents, NEW s \in BOOLEAN
  PROVE  /\ Is([x EXCEPT !.pc = p], p, x.tx, x.stopped)
         /\ Is([x EXCEPT !.pc = p, !.tx = tx], p, tx, x.stopped)
         /\ Is([x EXCEPT !.pc = p, !.stopped = s], p, x.tx, s)
BY DEF Run, Is

LEMMA Moves ==
  ASSUME TypeOK, NEW r \in Runs, NEW new, NEW p, NEW tx, NEW s, Is(new, p, tx, s),
         run' = [run EXCEPT ![r] = new], UNCHANGED <<tables, live, writes, server>>
  PROVE  Moved(r, p, tx, s)
BY DEF Moved, TypeOK, Is

LEMMA EndMoves ==
  ASSUME TypeOK, NEW r \in Runs, NEW p \in PCs, end(r, p),
         UNCHANGED <<tables, live, writes, server>>
  PROVE  Moved(r, p, Empty, run[r].stopped)
<1>1. run[r] \in Run /\ Empty \in Contents /\ run[r].stopped \in BOOLEAN
  BY RunTyped, EmptyTyped
<1> DEFINE new == [run[r] EXCEPT !.pc = p, !.tx = Empty]
<1>2. Is(new, p, Empty, run[r].stopped)
  BY <1>1, RunExcept
<1>3. run' = [run EXCEPT ![r] = new]
  BY DEF end
<1> HIDE DEF new
<1> QED BY <1>2, <1>3, Moves

LEMMA CopyIs ==
  ASSUME TypeOK, NEW r \in Runs, NEW t \in Tables, NEW next \in Working,
         Behind(next) = Behind(t) \cup {t}, t \notin Behind(t), copyTable(r, t, next)
  PROVE  IsRefused(r, t) \/ Copies(r, t, next)
<1>1. /\ run[r] \in Run /\ run[r].stopped \in BOOLEAN /\ run[r].tx \in Contents
      /\ Source \in Contents /\ mysql' = mysql /\ at(r, t)
      /\ UNCHANGED <<tables, live, writes, server>>
  BY RunTyped DEF copyTable
<1>2. CASE Refuses(Join(mysql, run[r].tx), t, Source[t]) /\ end(r, "refused")
  BY <1>1, <1>2, EndMoves DEF IsRefused, PCs
<1>3. CASE /\ ~Refuses(Join(mysql, run[r].tx), t, Source[t]) /\ ~Waits(r, t, Source[t])
           /\ run' = [run EXCEPT ![r] =
                [@ EXCEPT !.pc = next, !.tx = [run[r].tx EXCEPT ![t] = Source[t]]]]
  <2> DEFINE tx == [run[r].tx EXCEPT ![t] = Source[t]]
             new == [run[r] EXCEPT !.pc = next, !.tx = tx]
  <2>1. Source[t] \in SUBSET Row[t] /\ next \in PCs
    BY <1>1, OfContents DEF PCs
  <2>2. Is(new, next, tx, run[r].stopped)
    <3>1. tx \in Contents
      BY <1>1, <2>1, ExceptTyped
    <3> HIDE DEF tx
    <3> QED BY <1>1, <2>1, <3>1, RunExcept
  <2>3. run' = [run EXCEPT ![r] = new]
    BY <1>3
  <2>5. Moved(r, next, tx, run[r].stopped)
    <3> HIDE DEF tx, new
    <3> QED BY <1>1, <2>2, <2>3, Moves
  <2> QED BY <1>1, <1>3, <2>5 DEF Copies
<1> QED BY <1>2, <1>3 DEF copyTable

LEMMA ToolSteps ==
  ASSUME TypeOK, NEW r \in Runs, step(r) \/ Fail(r) \/ Kill(r) \/ Rollback(r)
  PROVE  ToolStep(r)
<1>1. /\ run[r] \in Run /\ run[r].tx \in Contents /\ run[r].stopped \in BOOLEAN
      /\ live \in BOOLEAN
  BY RunTyped DEF TypeOK
<1>2. ASSUME CountUsers(r) PROVE Begins(r)
  <2> DEFINE p == IF mysql.users = {} THEN "users" ELSE "failed"
  <2>1. run[r].tx = Empty /\ Empty \in Contents
    BY <1>2, RunTyped, EmptyTyped DEF CountUsers, at, working, Working, Tables
  <2>2. p \in {"users", "failed"} /\ p \in PCs /\ (~live) \in BOOLEAN
    BY DEF PCs, Working, Tables
  <2>3. run' = [run EXCEPT ![r] = [run[r] EXCEPT !.pc = p, !.stopped = ~live]]
    BY <1>2 DEF CountUsers
  <2> HIDE DEF p
  <2> DEFINE new == [run[r] EXCEPT !.pc = p, !.stopped = ~live]
  <2>4. Moved(r, p, Empty, ~live)
    <3>1. Is(new, p, Empty, ~live)
      BY <1>1, <2>1, <2>2, RunExcept
    <3> HIDE DEF new
    <3>2. UNCHANGED <<tables, live, writes, server>>
      BY <1>2 DEF CountUsers
    <3> QED BY <2>3, <3>1, <3>2, Moves DEF new
  <2> QED BY <1>2, <2>2, <2>4 DEF CountUsers, Begins
<1>3. ASSUME NEW t \in Tables, NEW next \in Working, copyTable(r, t, next),
             Behind(next) = Behind(t) \cup {t}, t \notin Behind(t)
      PROVE  ToolStep(r)
  <2>1. run[r].pc = t
    BY <1>3 DEF copyTable, at
  <2>2. IsRefused(r, t) \/ Copies(r, t, next)
    BY <1>3, CopyIs
  <2> QED BY <2>1, <2>2 DEF ToolStep
<1>4. ASSUME copyUsers(r) \/ copyGroups(r) \/ copyGroupMembers(r) \/ copyAPITokens(r)
             \/ copyACLRules(r)
      PROVE  ToolStep(r)
  <2>1. /\ Behind("users") = {} /\ Behind("groups") = {"users"}
        /\ Behind("members") = {"users", "groups"}
        /\ Behind("tokens") = {"users", "groups", "members"}
        /\ Behind("rules") = {"users", "groups", "members", "tokens"}
        /\ Behind("commit") = Tables
    BY DEF Behind
  <2>2. \A t \in Tables : t \notin Behind(t)
    BY <2>1 DEF Tables
  <2>3. /\ Behind("groups") = Behind("users") \cup {"users"}
        /\ Behind("members") = Behind("groups") \cup {"groups"}
        /\ Behind("tokens") = Behind("members") \cup {"members"}
        /\ Behind("rules") = Behind("tokens") \cup {"tokens"}
        /\ Behind("commit") = Behind("rules") \cup {"rules"}
    BY <2>1 DEF Tables
  <2>4. {"users", "groups", "members", "tokens", "rules"} = Tables /\ Tables \subseteq Working
        /\ "commit" \in Working
    BY DEF Tables, Working
  <2> QED BY <1>3, <1>4, <2>2, <2>3, <2>4
      DEF copyUsers, copyGroups, copyGroupMembers, copyAPITokens, copyACLRules
<1>5. ASSUME Commit(r) PROVE Commits(r)
  <2>1. "ok" \in PCs /\ "lost" \in PCs
    BY DEF PCs
  <2> QED BY <1>5, <2>1, EndMoves DEF Commit, Commits
<1>6. ASSUME Fail(r) \/ Rollback(r) PROVE Gives(r)
  <2>1. "failed" \in PCs
    BY DEF PCs
  <2> QED BY <1>6, <2>1, EndMoves DEF Fail, Rollback, Gives, working, at
<1>7. ASSUME Kill(r) PROVE IsKilled(r)
  <2>1. "killed" \in PCs
    BY DEF PCs
  <2> DEFINE new == [run[r] EXCEPT !.pc = "killed"]
  <2>2. run' = [run EXCEPT ![r] = new] /\ UNCHANGED <<tables, live, writes, server>>
    BY <1>7 DEF Kill
  <2>3. Is(new, "killed", run[r].tx, run[r].stopped)
    BY <1>1, <2>1, RunExcept
  <2> HIDE DEF new
  <2>4. Moved(r, "killed", run[r].tx, run[r].stopped)
    BY <2>2, <2>3, Moves
  <2> QED BY <1>7, <2>4 DEF Kill, IsKilled
<1> QED BY <1>2, <1>4, <1>5, <1>6, <1>7 DEF step, ToolStep

LEMMA AdminsTyped == Admins \subseteq Row["users"]
<1>1. HashPassword(AdminPassword) \in Hashes
  BY MigrateCopyAssumption DEF HashPassword, Hashes, Secrets
<1>2. [username |-> AdminUser, hash |-> HashPassword(AdminPassword),
       active |-> TRUE, admin |-> TRUE] \in UserRow
  BY <1>1, MigrateCopyAssumption DEF UserRow
<1>3. Row["users"] = UserIds \X UserRow
  BY DEF Row
<1> QED BY <1>2, <1>3 DEF Admins, AdminRow

LEMMA WorldSteps ==
  ASSUME TypeOK, ServiceWrites \/ StopService \/ MysqlCountUsers \/ MysqlCreateAdmin
  PROVE  WorldStep
<1>1. /\ StoreTypeOK /\ live \in BOOLEAN /\ writes \in 0..MaxWrites
      /\ server \in {"down", "create", "up"}
  BY DEF TypeOK
<1>2. UNCHANGED tables => StoreTypeOK' /\ UsersKept
  BY <1>1 DEF tables, StoreTypeOK, UsersKept, IsUser
<1>3. CASE ServiceWrites
  <2>1. RuleInputs \in SUBSET RuleRow
    BY StoreAssumption
  <2>2. StoreTypeOK' /\ UsersKept
    BY <1>1, <1>3, <2>1, WritesTyped DEF ServiceWrites
  <2>3. writes' \in 0..MaxWrites
    BY <1>1, <1>3, MigrateCopyAssumption DEF ServiceWrites
  <2> QED BY <1>1, <1>3, <2>2, <2>3 DEF ServiceWrites, WorldStep
<1>4. CASE StopService
  BY <1>1, <1>2, <1>4 DEF StopService, WorldStep
<1>5. CASE MysqlCountUsers
  BY <1>1, <1>2, <1>5 DEF MysqlCountUsers, WorldStep
<1>6. CASE MysqlCreateAdmin
  <2>1. \A id \in UserIds : AdminRow(id) \in Admins
    BY DEF Admins
  <2>2. \/ server' = "down" /\ UNCHANGED mysql
        \/ server' = "up" /\ \E x \in Admins : mysql' = [mysql EXCEPT !.users = @ \cup {x}]
    BY <1>6, <2>1 DEF MysqlCreateAdmin
  <2>3. UNCHANGED <<tables, live, writes, run>>
    BY <1>6 DEF MysqlCreateAdmin
  <2> QED BY <1>1, <1>2, <2>2, <2>3 DEF WorldStep
<1> QED BY <1>3, <1>4, <1>5, <1>6

LEMMA StepCases ==
  ASSUME TypeOK, Next
  PROVE  Observe /\ (WorldStep \/ \E r \in Runs : ToolStep(r))
BY ToolSteps, WorldSteps DEF Next

LEMMA MovedTyped ==
  ASSUME TypeOK, Observe, NEW r \in Runs, NEW p, NEW tx, NEW s, Moved(r, p, tx, s),
         p \in Working \cup {"killed"} \/ tx = Empty, mysql' \in Contents
  PROVE  TypeOK'
<1>1. StoreTypeOK'
  BY DEF Moved, TypeOK, StoreTypeOK, tables
<1>2. \A q \in Runs : run'[q].pc \notin Working \cup {"killed"} => run'[q].tx = Empty
  BY DEF Moved, TypeOK
<1>3. /\ live' \in BOOLEAN /\ writes' \in 0..MaxWrites /\ server' \in {"down", "create", "up"}
      /\ run' \in [Runs -> Run]
  BY DEF Moved, TypeOK
<1> QED BY <1>1, <1>2, <1>3, ObserveTyped DEF TypeOK

LEMMA TypeStep == ASSUME TypeOK, Next PROVE TypeOK'
<1>1. Observe /\ (WorldStep \/ \E r \in Runs : ToolStep(r))
  BY StepCases
<1>2. mysql \in Contents
  BY DEF TypeOK
<1>3. ASSUME NEW r \in Runs, ToolStep(r) PROVE TypeOK'
  <2>1. mysql' \in Contents
    <3>1. Commits(r) => mysql' \in Contents
      BY <1>2, RunTyped, JoinTyped DEF Commits
    <3> QED BY <1>2, <1>3, <3>1 DEF ToolStep, Begins, IsRefused, Gives, IsKilled, Copies
  <2>2. CASE Begins(r)
    BY <1>1, <2>1, <2>2, MovedTyped DEF Begins
  <2>3. CASE IsRefused(r, run[r].pc)
    BY <1>1, <2>1, <2>3, MovedTyped DEF IsRefused
  <2>4. CASE Gives(r)
    BY <1>1, <2>1, <2>4, MovedTyped DEF Gives
  <2>5. CASE IsKilled(r)
    BY <1>1, <2>1, <2>5, MovedTyped DEF IsKilled
  <2>6. ASSUME NEW next \in Working, Copies(r, run[r].pc, next) PROVE TypeOK'
    BY <1>1, <2>1, <2>6, MovedTyped DEF Copies
  <2>7. CASE Commits(r)
    BY <1>1, <2>1, <2>7, MovedTyped DEF Commits
  <2> QED BY <1>3, <2>2, <2>3, <2>4, <2>5, <2>6, <2>7 DEF ToolStep
<1>4. CASE WorldStep
  <2>1. mysql' \in Contents
    <3>1. ASSUME NEW x \in Admins, mysql' = [mysql EXCEPT !.users = @ \cup {x}]
          PROVE  mysql' \in Contents
      <4>1. mysql.users \cup {x} \in SUBSET Row["users"] /\ "users" \in Tables
        BY <1>2, AdminsTyped, OfContents DEF Tables
      <4> QED BY <1>2, <3>1, <4>1, ExceptTyped
    <3> QED BY <1>2, <1>4, <3>1 DEF WorldStep
  <2>2. /\ run' \in [Runs -> Run] /\ StoreTypeOK'
        /\ \A q \in Runs : run'[q].pc \notin Working \cup {"killed"} => run'[q].tx = Empty
    BY <1>4 DEF WorldStep, TypeOK
  <2> QED BY <1>1, <1>4, <2>1, <2>2, ObserveTyped DEF WorldStep, TypeOK
<1> QED BY <1>1, <1>3, <1>4

LEMMA TypeInit == Init => TypeOK
<1> SUFFICES ASSUME Init PROVE TypeOK
  OBVIOUS
<1>1. StoreTypeOK
  BY MigrateCopyAssumption DEF Init, StoreTypeOK
<1>2. NewRun \in Run /\ NewRun.tx = Empty
  BY EmptyTyped DEF NewRun, Run, PCs
<1>3. mysql \in Contents
  BY EmptyTyped DEF Init
<1>4. /\ run \in [Runs -> Run] /\ \A r \in Runs : run[r] = NewRun
  BY <1>2 DEF Init
<1>5. /\ seen \in [Runs -> [Tables -> SUBSET UNION {SUBSET Row[t] : t \in Tables}]]
      /\ \A r \in Runs, t \in Tables : seen[r][t] = {}
  BY DEF Init
<1>6. writes \in 0..MaxWrites
  BY MigrateCopyAssumption DEF Init
<1> QED BY <1>1, <1>2, <1>3, <1>4, <1>5, <1>6 DEF Init, TypeOK

LEMMA TypeStutter == TypeOK /\ UNCHANGED vars => TypeOK'
BY DEF TypeOK, vars, StoreTypeOK

\* Every row of mysql, of an open transaction and of the history is a row of its
\* table, and a run that is over holds no transaction open.
THEOREM MigrateTypeCorrect == Spec => []TypeOK
<1>1. TypeOK /\ [Next]_vars => TypeOK'
  BY TypeStep, TypeStutter
<1> QED BY <1>1, TypeInit, PTL DEF Spec

-----------------------------------------------------------------------------
(***************************************************************************)
(* One run.                                                                *)
(***************************************************************************)
LEMMA BehindIs ==
  /\ \A pc : pc \notin Working => Behind(pc) = {}
  /\ Behind("users") = {} /\ Behind("commit") = Tables /\ "users" \in Tables
  /\ \A pc : Behind(pc) \subseteq Tables
  /\ \A pc \in {"new", "ok", "lost", "refused", "failed", "killed"} : pc \notin Working
BY DEF Behind, Working, Tables

LEMMA SourceSame == UNCHANGED tables => Source' = Source
BY DEF tables, Source, RowsOf

\* A run that does not move keeps its invariant while the others, and the
\* service, go on.
LEMMA RunStays ==
  ASSUME TypeOK, Observe, NEW q \in Runs, RunInv(q), run'[q] = run[q],
         run[q].stopped => ~live' /\ Source' = Source
  PROVE  RunInv(q)'
<1>1. ASSUME working(q), NEW t \in Tables
      PROVE  seen'[q][t] = seen[q][t] \cup {Source'[t]}
  BY <1>1, Observed, BehindIs DEF working, at
<1>2. ASSUME NEW t \in Behind(run[q].pc) PROVE working(q) /\ t \in Tables
  BY BehindIs DEF working
<1>3. working(q)' <=> working(q)
  BY DEF working
<1> QED BY <1>1, <1>2, <1>3 DEF RunInv

\* A run that is over, or is killed, has nothing to keep.
LEMMA RunEnds ==
  ASSUME NEW r \in Runs, NEW p, NEW tx, Moved(r, p, tx, run[r].stopped), p \notin Working, RunInv(r)
  PROVE  RunInv(r)'
BY BehindIs DEF RunInv, Moved, working

LEMMA RunBegins ==
  ASSUME TypeOK, Observe, NEW r \in Runs, Begins(r)
  PROVE  RunInv(r)'
<1>1. PICK p \in {"users", "failed"} : Moved(r, p, Empty, ~live)
  BY DEF Begins
<1>2. Behind(p) = {}
  BY BehindIs
<1>3. working(r)' => \A t \in Tables : Source'[t] \in seen'[r][t]
  BY <1>1, Observed DEF Begins, working
<1> QED BY <1>1, <1>2, <1>3, EmptyTyped DEF RunInv, Moved

LEMMA RunCopies ==
  ASSUME TypeOK, Observe, NEW r \in Runs, RunInv(r), NEW t, NEW next \in Working,
         Copies(r, t, next)
  PROVE  RunInv(r)'
<1> DEFINE tx == [run[r].tx EXCEPT ![t] = Source[t]]
<1>1. /\ t \in Tables /\ run[r].pc = t /\ working(r) /\ run'[r].pc = next /\ run'[r].tx = tx
      /\ run'[r].stopped = run[r].stopped /\ live' = live /\ Source' = Source
  BY SourceSame DEF Copies, Moved, working, at, Working
<1>2. tx[t] = Source[t] /\ \A s \in Tables \ {t} : tx[s] = run[r].tx[s]
  <2>1. t \in Tables /\ run[r].tx = [s \in Tables |-> run[r].tx[s]]
    BY <1>1, RunTyped, OfContents
  <2> QED BY <2>1
<1> HIDE DEF tx
<1>3. \A s \in Tables : seen'[r][s] = seen[r][s] \cup {Source[s]}
  BY <1>1, Observed, BehindIs DEF at, working
<1>4. Behind(next) = Behind(t) \cup {t} /\ Behind(t) \subseteq Tables
  BY BehindIs DEF Copies
<1>5. \A s \in Behind(next) : /\ tx[s] \in seen'[r][s]
                              /\ run[r].stopped => tx[s] = Source[s]
  BY <1>1, <1>2, <1>3, <1>4 DEF RunInv
<1>6. \A s \in Tables \ Behind(next) : tx[s] = {}
  BY <1>1, <1>2, <1>4 DEF RunInv
<1> QED BY <1>1, <1>3, <1>5, <1>6 DEF RunInv

LEMMA RunStep ==
  ASSUME TypeOK, Next, \A q \in Runs : RunInv(q)
  PROVE  \A q \in Runs : RunInv(q)'
<1>1. Observe /\ (WorldStep \/ \E r \in Runs : ToolStep(r))
  BY StepCases
<1>2. ASSUME NEW r \in Runs, ToolStep(r), NEW q \in Runs PROVE RunInv(q)'
  <2>1. /\ live' = live /\ Source' = Source
        /\ q # r => run'[q] = run[q]
    BY <1>2, SourceSame DEF ToolStep, Begins, IsRefused, Gives, IsKilled, Copies, Commits, Moved
  <2>2. CASE q # r
    BY <1>1, <2>1, <2>2, RunStays DEF RunInv
  <2>3. CASE Begins(r) /\ q = r
    BY <1>1, <2>3, RunBegins
  <2>4. CASE q = r /\ \E next \in Working : Copies(r, run[r].pc, next)
    BY <1>1, <2>4, RunCopies
  <2>5. CASE q = r /\ (IsRefused(r, run[r].pc) \/ Gives(r) \/ IsKilled(r) \/ Commits(r))
    BY <2>5, RunEnds, BehindIs DEF IsRefused, Gives, IsKilled, Commits
  <2> QED BY <1>2, <2>2, <2>3, <2>4, <2>5 DEF ToolStep
<1>3. ASSUME WorldStep, NEW q \in Runs PROVE RunInv(q)'
  <2>1. run'[q] = run[q] /\ (~live => ~live' /\ Source' = Source)
    BY <1>3, SourceSame DEF WorldStep
  <2> QED BY <1>1, <2>1, RunStays DEF RunInv
<1> QED BY <1>1, <1>2, <1>3

-----------------------------------------------------------------------------
(***************************************************************************)
(* All runs together.                                                      *)
(***************************************************************************)
\* Nothing but COMMIT makes a copy, or changes mysql from within the tool.
LEMMA OnlyCommitCopies ==
  ASSUME NEW r \in Runs, ToolStep(r), ~Commits(r)
  PROVE  /\ mysql' = mysql /\ Copied' = Copied /\ run[r].pc \notin {"ok", "lost"}
         /\ run'[r].pc \notin {"ok", "lost"} /\ r \notin Copied
<1>1. /\ mysql' = mysql /\ \A q \in Runs \ {r} : run'[q] = run[q]
      /\ run[r].pc \in {"new", "killed"} \cup Working
      /\ run'[r].pc \in {"users", "failed", "refused", "killed"} \cup Working
  BY DEF ToolStep, Begins, IsRefused, Gives, IsKilled, Copies, Moved, at, working, Working
<1>2. "ok" \notin Working /\ "lost" \notin Working
  BY BehindIs
<1> QED BY <1>1, <1>2 DEF Copied

LEMMA Keyed ==
  ASSUME StoreTypeOK, NEW u \in UserIds, IsUser(u)
  PROVE  HasUser(Source.users, u)
<1>1. <<u, users[u]>> \in RowsOf(users)
  BY DEF RowsOf, StoreTypeOK, IsUser
<1> QED BY <1>1 DEF Source, HasUser

\* Two sets of users that both have u cannot be inserted both.
LEMMA SameUser ==
  ASSUME NEW X, NEW Y, NEW u, HasUser(X, u), HasUser(Y, u)
  PROVE  \E x \in X, y \in Y : SameKey("users", x, y)
BY DEF HasUser, SameKey

\* The one that copies the users is alone with them, and before any copy.
LEMMA CopiesUsersAlone ==
  ASSUME TypeOK, NEW u \in UserIds, AnchorInv(u), NEW r \in Runs, NEW next,
         Copies(r, "users", next)
  PROVE  Copied = {} /\ Holders \subseteq {r}
<1>1. HasUser(Source.users, u) /\ Source["users"] = Source.users
  BY Keyed DEF AnchorInv, TypeOK
<1>2. ASSUME NEW q \in Holders, q # r PROVE FALSE
  <2>1. HasUser(run[q].tx.users, u) /\ run[q].tx["users"] = run[q].tx.users /\ q \in Runs
    BY DEF AnchorInv, Holders
  <2>2. Waits(r, "users", Source["users"])
    BY <1>1, <1>2, <2>1, SameUser DEF Waits
  <2> QED BY <2>2 DEF Copies
<1>3. ASSUME Copied # {} PROVE FALSE
  <2>1. HasUser(mysql.users, u)
    BY <1>3 DEF AnchorInv
  <2>2. mysql.users \subseteq Join(mysql, run[r].tx)["users"]
    <3>1. mysql \in Contents /\ run[r].tx \in Contents /\ "users" \in Tables
      BY RunTyped, BehindIs DEF TypeOK
    <3> QED BY <3>1, JoinTyped
  <2>3. \E x \in Source["users"], y \in mysql.users : SameKey("users", x, y)
    BY <1>1, <2>1, SameUser
  <2>4. Refuses(Join(mysql, run[r].tx), "users", Source["users"])
    BY <2>2, <2>3 DEF Refuses
  <2> QED BY <2>4 DEF Copies
<1> QED BY <1>2, <1>3

LEMMA AnchorCopies ==
  ASSUME TypeOK, NEW u \in UserIds, AnchorInv(u), NEW r \in Runs, NEW t, NEW next \in Working,
         Copies(r, t, next), IsUser(u)', Copied' = Copied, mysql' = mysql
  PROVE  AnchorInv(u)'
<1>1. /\ t \in Tables /\ run[r].pc = t /\ run'[r].pc = next /\ "users" \in Tables
      /\ run'[r].tx = [run[r].tx EXCEPT ![t] = Source[t]]
      /\ \A q \in Runs \ {r} : run'[q] = run[q]
      /\ Behind(next) = Behind(t) \cup {t}
  BY BehindIs DEF Copies, Moved, at
<1>2. Source[t] \in SUBSET Row[t] /\ run[r].tx \in Contents
  BY <1>1, RunTyped, OfContents
<1>3. CASE t = "users"
  <2>1. Copied = {} /\ Holders \subseteq {r}
    BY <1>3, CopiesUsersAlone
  <2>2. run'[r].tx.users = Source.users /\ HasUser(Source.users, u)
    <3>1. HasUser(Source.users, u) /\ Source["users"] = Source.users
      BY Keyed DEF AnchorInv, TypeOK
    <3>2. t \in Tables
      BY <1>1
    <3>3. [run[r].tx EXCEPT ![t] = Source[t]][t] = Source[t]
      <4>1. run[r].tx = [s \in Tables |-> run[r].tx[s]]
        BY <1>2, OfContents
      <4> QED BY <3>2, <4>1
    <3> QED BY <1>1, <1>3, <3>1, <3>3
  <2>3. Source.users # {}
    BY <2>2 DEF HasUser
  <2>4. Holders' = {r}
    BY <1>1, <2>1, <2>2, <2>3 DEF Holders
  <2>5. \A q \in Runs : "users" \in Behind(run'[q].pc) => q = r
    BY <1>1, <2>1 DEF AnchorInv
  <2> QED BY <2>1, <2>2, <2>4, <2>5 DEF AnchorInv, HasUser
<1>4. CASE t # "users"
  <2>1. run'[r].tx.users = run[r].tx.users
    BY <1>1, <1>2, <1>4, ExceptTyped
  <2>2. /\ Holders' = Holders
        /\ \A q \in Holders : run'[q].tx.users = run[q].tx.users
    BY <1>1, <2>1 DEF Holders
  <2>3. \A q \in Runs : "users" \in Behind(run'[q].pc) => "users" \in Behind(run[q].pc)
    BY <1>1, <1>4
  <2> QED BY <2>2, <2>3 DEF AnchorInv, HasUser
<1> QED BY <1>3, <1>4

LEMMA AnchorStep ==
  ASSUME TypeOK, Next, NEW u \in UserIds, AnchorInv(u)
  PROVE  AnchorInv(u)'
<1>1. ASSUME NEW r \in Runs, ToolStep(r) PROVE AnchorInv(u)'
  <2>1. IsUser(u)'
    BY <1>1 DEF ToolStep, Begins, IsRefused, Gives, IsKilled, Copies, Commits, Moved, tables,
                AnchorInv, IsUser
  <2>2. Empty.users = {} /\ "users" \in Tables
    BY EmptyTyped, BehindIs
  <2>3. ASSUME NEW p, NEW tx, NEW s, Moved(r, p, tx, s), "users" \notin Behind(p),
               tx.users = {} \/ tx = run[r].tx, mysql' = mysql, Copied' = Copied
        PROVE  AnchorInv(u)'
    <3>1. /\ Holders' \subseteq Holders
          /\ \A q \in Holders' : run'[q].tx.users = run[q].tx.users
      BY <2>3 DEF Moved, Holders
    <3>2. \A q \in Runs : "users" \in Behind(run'[q].pc) => q # r /\ run'[q] = run[q]
      BY <2>3 DEF Moved
    <3>3. \A q \in Runs \ {r} : q \in Holders => q \in Holders'
      BY <2>3 DEF Moved, Holders
    <3> QED BY <2>1, <2>3, <3>1, <3>2, <3>3 DEF AnchorInv
  <2>4. CASE ~Commits(r)
    <3>1. mysql' = mysql /\ Copied' = Copied
      BY <1>1, <2>4, OnlyCommitCopies
    <3>2. CASE Begins(r)
      <4>1. PICK p \in {"users", "failed"} : Moved(r, p, Empty, ~live)
        BY <3>2 DEF Begins
      <4>2. "users" \notin Behind(p)
        BY BehindIs
      <4> QED BY <2>2, <2>3, <3>1, <4>1, <4>2
    <3>3. CASE IsRefused(r, run[r].pc) \/ Gives(r) \/ IsKilled(r)
      <4>1. \A p \in {"refused", "failed", "killed"} : "users" \notin Behind(p)
        BY BehindIs
      <4> QED BY <2>2, <2>3, <3>1, <3>3, <4>1 DEF IsRefused, Gives, IsKilled
    <3>4. ASSUME NEW next \in Working, Copies(r, run[r].pc, next) PROVE AnchorInv(u)'
      BY <2>1, <3>1, <3>4, AnchorCopies
    <3> QED BY <1>1, <2>4, <3>2, <3>3, <3>4 DEF ToolStep
  <2>5. CASE Commits(r)
    <3>1. PICK p \in {"ok", "lost"} : Moved(r, p, Empty, run[r].stopped)
      BY <2>5 DEF Commits
    <3>2. r \in Holders /\ HasUser(run[r].tx.users, u) /\ \A q \in Holders : q = r
      BY <2>2, <2>5, BehindIs DEF Commits, at, AnchorInv
    <3>3. Holders' = {}
      BY <2>2, <3>1, <3>2 DEF Moved, Holders
    <3>4. HasUser(mysql'.users, u)
      <4>1. mysql \in Contents /\ run[r].tx \in Contents /\ mysql' = Join(mysql, run[r].tx)
        BY <2>5, RunTyped DEF TypeOK, Commits
      <4>2. Join(mysql, run[r].tx)["users"] = mysql["users"] \cup run[r].tx["users"]
        BY <2>2, <4>1, JoinTyped
      <4>3. mysql'.users = mysql.users \cup run[r].tx.users
        BY <4>1, <4>2
      <4> QED BY <3>2, <4>3 DEF HasUser
    <3>5. \A q \in Runs : "users" \in Behind(run'[q].pc) => FALSE
      <4>1. "users" \notin Behind(p)
        BY BehindIs
      <4>2. \A q \in Runs \ {r} : "users" \notin Behind(run[q].pc)
        BY <3>2 DEF AnchorInv
      <4> QED BY <3>1, <4>1, <4>2 DEF Moved
    <3> QED BY <2>1, <3>3, <3>4, <3>5 DEF AnchorInv
  <2> QED BY <2>4, <2>5
<1>2. ASSUME WorldStep PROVE AnchorInv(u)'
  <2>1. run' = run /\ IsUser(u)'
    BY <1>2 DEF WorldStep, UsersKept, AnchorInv
  <2>2. Holders' = Holders /\ Copied' = Copied
    BY <2>1 DEF Holders, Copied
  <2>3. mysql.users \subseteq mysql'.users
    <3>1. mysql = [t \in Tables |-> mysql[t]] /\ "users" \in Tables
      BY OfContents, BehindIs DEF TypeOK
    <3>2. ASSUME NEW x, mysql' = [mysql EXCEPT !.users = @ \cup {x}]
          PROVE  mysql.users \subseteq mysql'.users
      BY <3>1, <3>2
    <3> QED BY <1>2, <3>2 DEF WorldStep
  <2> QED BY <2>1, <2>2, <2>3 DEF AnchorInv, HasUser
<1> QED BY <1>1, <1>2, StepCases

\* What mysql gains outside the tool is an administrator.
LEMMA WorldTarget ==
  ASSUME TypeOK, WorldStep
  PROVE  \/ mysql' = mysql
         \/ /\ \E x \in Admins : mysql'.users = mysql.users \cup {x}
            /\ \A t \in Tables \ {"users"} : mysql'[t] = mysql[t]
            /\ live' = live /\ UNCHANGED tables
<1>1. mysql = [t \in Tables |-> mysql[t]] /\ "users" \in Tables
  BY OfContents, BehindIs DEF TypeOK
<1>2. ASSUME NEW x \in Admins, mysql' = [mysql EXCEPT !.users = @ \cup {x}]
      PROVE  /\ mysql'.users = mysql.users \cup {x}
             /\ \A t \in Tables \ {"users"} : mysql'[t] = mysql[t]
  BY <1>1, <1>2
<1> QED BY <1>2 DEF WorldStep

LEMMA CommitTarget ==
  ASSUME TypeOK, NEW r \in Runs, Commits(r)
  PROVE  \A t \in Tables : mysql'[t] = mysql[t] \cup run[r].tx[t]
<1>1. mysql \in Contents /\ run[r].tx \in Contents /\ mysql' = Join(mysql, run[r].tx)
  BY RunTyped DEF TypeOK, Commits
<1> QED BY <1>1, JoinTyped

LEMMA TargetStep == ASSUME TypeOK, Next, TargetInv PROVE TargetInv'
<1>1. ASSUME NEW r \in Runs, ToolStep(r) PROVE TargetInv'
  <2>1. CASE ~Commits(r)
    BY <1>1, <2>1, OnlyCommitCopies DEF TargetInv
  <2>2. CASE Commits(r)
    BY <2>2 DEF Commits, Moved, Copied, TargetInv
  <2> QED BY <2>1, <2>2
<1>2. ASSUME WorldStep PROVE TargetInv'
  <2>1. Copied' = Copied
    BY <1>2 DEF WorldStep, Copied
  <2> QED BY <1>2, <2>1, WorldTarget DEF TargetInv
<1> QED BY <1>1, <1>2, StepCases

LEMMA ExactStep ==
  ASSUME TypeOK, Next, \A q \in Runs : RunInv(q), NEW u \in UserIds, AnchorInv(u),
         TargetInv, ExactWhenStopped
  PROVE  ExactWhenStopped'
<1> DEFINE Exact == /\ \A t \in Tables : Source[t] \subseteq mysql[t]
                    /\ mysql.users \ Source.users \subseteq Admins
                    /\ \A t \in Tables \ {"users"} : mysql[t] = Source[t]
<1> SUFFICES ASSUME NEW q \in Runs, run'[q].pc = "ok", run'[q].stopped PROVE Exact'
  BY DEF ExactWhenStopped, at
<1>1. ASSUME NEW r \in Runs, ToolStep(r) PROVE Exact'
  <2>1. /\ Source' = Source
        /\ q # r => run'[q] = run[q]
    BY <1>1, SourceSame DEF ToolStep, Begins, IsRefused, Gives, IsKilled, Copies, Commits, Moved
  <2>2. CASE ~Commits(r)
    <3>1. mysql' = mysql /\ q # r
      BY <1>1, <2>2, OnlyCommitCopies
    <3> QED BY <2>1, <3>1 DEF ExactWhenStopped, at
  <2>3. CASE Commits(r)
    <3>1. r \in Holders
      BY <2>3, BehindIs DEF Commits, at, AnchorInv
    <3>2. Copied = {}
      BY <3>1 DEF AnchorInv
    <3>3. q = r
      BY <2>1, <3>2 DEF Copied
    <3>4. run[r].stopped
      BY <2>3, <3>3 DEF Commits, Moved
    <3>5. \A t \in Tables : run[r].tx[t] = Source[t]
      BY <2>3, <3>4, BehindIs DEF Commits, at, RunInv
    <3>6. /\ mysql.users \subseteq Admins /\ \A t \in Tables \ {"users"} : mysql[t] = {}
      BY <3>2 DEF TargetInv
    <3>7. \A t \in Tables : mysql'[t] = mysql[t] \cup Source[t]
      BY <2>3, <3>5, CommitTarget
    <3>8. mysql'.users = mysql.users \cup Source.users
      BY <3>7, BehindIs
    <3> QED BY <2>1, <3>6, <3>7, <3>8
  <2> QED BY <2>2, <2>3
<1>2. ASSUME WorldStep PROVE Exact'
  <2>1. run'[q] = run[q] /\ Exact /\ ~live
    BY <1>2 DEF WorldStep, ExactWhenStopped, RunInv, at
  <2>2. Source' = Source
    BY <1>2, <2>1, SourceSame DEF WorldStep
  <2>3. CASE mysql' = mysql
    BY <2>1, <2>2, <2>3
  <2>4. ASSUME NEW x \in Admins, mysql'.users = mysql.users \cup {x},
               \A t \in Tables \ {"users"} : mysql'[t] = mysql[t]
        PROVE  Exact'
    <3>1. \A t \in Tables : mysql[t] \subseteq mysql'[t]
      BY <2>4
    <3> QED BY <2>1, <2>2, <2>4, <3>1
  <2> QED BY <1>2, <2>3, <2>4, WorldTarget
<1> QED BY <1>1, <1>2, StepCases

\* A mysql that has nothing but what the run inserted refuses a row of a table
\* only if the other rows of the file are no place for it either: the tables
\* that a row refers to are copied before its own.
LEMMA RefusalIsForCause ==
  ASSUME TypeOK, NEW r \in Runs, RunInv(r), run[r].stopped, mysql = Empty,
         NEW t \in Tables, IsRefused(r, t)
  PROVE  Unholdable
<1> DEFINE db1 == Join(mysql, run[r].tx)
           db2 == [Source EXCEPT ![t] = {}]
<1>1. /\ run[r].pc = t /\ working(r) /\ Refuses(db1, t, Source[t])
      /\ mysql \in Contents /\ run[r].tx \in Contents /\ Source \in Contents
  BY RunTyped DEF IsRefused, at, working, Working, TypeOK
<1>2. \A s \in Tables : db1[s] = IF s \in Behind(t) THEN Source[s] ELSE {}
  <2>1. \A s \in Tables : db1[s] = mysql[s] \cup run[r].tx[s]
    BY <1>1, JoinTyped
  <2>2. \A s \in Tables : mysql[s] = {}
    BY EmptyTyped
  <2>3. \A s \in Tables : run[r].tx[s] = IF s \in Behind(t) THEN Source[s] ELSE {}
    BY <1>1 DEF RunInv
  <2> QED BY <2>1, <2>2, <2>3
<1>3. \A s \in Tables : db2[s] = IF s = t THEN {} ELSE Source[s]
  <2>1. Source = [s \in Tables |-> Source[s]]
    BY <1>1, OfContents
  <2> QED BY <2>1
<1> HIDE DEF db1, db2
<1>4. /\ "users" \in Tables /\ "groups" \in Tables
      /\ t = "tokens" => "users" \in Behind(t) /\ t # "users"
      /\ t = "members" => {"users", "groups"} \subseteq Behind(t) /\ t \notin {"users", "groups"}
      /\ t \notin Behind(t)
  BY DEF Behind, Tables
<1>5. db1[t] = {} /\ db2[t] = {}
  BY <1>2, <1>3, <1>4
<1>6. \A x : Dangling(t, x, db1) => Dangling(t, x, db2)
  <2>1. t \in {"tokens", "members"} => db1["users"] = db2["users"]
    BY <1>2, <1>3, <1>4
  <2>2. t = "members" => db1["groups"] = db2["groups"]
    BY <1>2, <1>3, <1>4
  <2> QED BY <2>1, <2>2 DEF Dangling
<1>7. Refuses(db2, t, Source[t])
  BY <1>1, <1>5, <1>6 DEF Refuses
<1> QED BY <1>7 DEF Unholdable, db2

LEMMA UnholdableStays == Source' = Source => (Unholdable' <=> Unholdable)
BY DEF Unholdable, Refuses, Dangling, SameKey

LEMMA RefusedStep ==
  ASSUME TypeOK, Next, \A q \in Runs : RunInv(q), NEW u \in UserIds, AnchorInv(u),
         RefusedForCause
  PROVE  RefusedForCause'
<1> SUFFICES ASSUME NEW q \in Runs, run'[q].pc = "refused", run'[q].stopped, mysql' = Empty
             PROVE  Unholdable'
  BY DEF RefusedForCause, at
<1>1. ASSUME NEW r \in Runs, ToolStep(r) PROVE Unholdable'
  <2>1. /\ Source' = Source
        /\ q # r => run'[q] = run[q]
    BY <1>1, SourceSame DEF ToolStep, Begins, IsRefused, Gives, IsKilled, Copies, Commits, Moved
  <2>2. CASE Commits(r)
    <3>1. r \in Holders
      BY <2>2, BehindIs DEF Commits, at, AnchorInv
    <3>2. mysql'["users"] = mysql["users"] \cup run[r].tx["users"] /\ mysql'["users"] = {}
      BY <2>2, CommitTarget, EmptyTyped, BehindIs
    <3> QED BY <3>1, <3>2 DEF Holders
  <2>3. CASE ~Commits(r)
    <3>1. mysql = Empty
      BY <1>1, <2>3, OnlyCommitCopies
    <3>2. CASE q # r
      BY <2>1, <3>1, <3>2, UnholdableStays DEF RefusedForCause, at
    <3>3. CASE q = r
      <4>1. IsRefused(r, run[r].pc) /\ run[r].pc \in Tables
        BY <1>1, <2>3, <3>3
        DEF ToolStep, Begins, IsRefused, Gives, IsKilled, Copies, Moved, Working, Tables
      <4>2. run[r].stopped
        BY <3>3, <4>1 DEF IsRefused, Moved
      <4> QED BY <2>1, <3>1, <4>1, <4>2, RefusalIsForCause, UnholdableStays
    <3> QED BY <3>2, <3>3
  <2> QED BY <2>2, <2>3
<1>2. ASSUME WorldStep PROVE Unholdable'
  <2>1. mysql' = mysql
    BY <1>2, WorldTarget, EmptyTyped, BehindIs
  <2>2. run'[q] = run[q] /\ ~live
    BY <1>2 DEF WorldStep, RunInv
  <2>3. Source' = Source
    BY <1>2, <2>2, SourceSame DEF WorldStep
  <2> QED BY <2>1, <2>2, <2>3, UnholdableStays DEF RefusedForCause, at
<1> QED BY <1>1, <1>2, StepCases

-----------------------------------------------------------------------------
(***************************************************************************)
(* The theorems.                                                           *)
(***************************************************************************)
LEMMA MigrateInit == ASSUME SourceHasUser, Init PROVE MigrateInv
<1>1. TypeOK
  BY TypeInit
<1>2. \A r \in Runs : run[r].pc = "new" /\ run[r].tx = Empty /\ ~run[r].stopped
  BY DEF Init, NewRun
<1>3. mysql = Empty /\ \A t \in Tables : Empty[t] = {}
  BY EmptyTyped DEF Init
<1>4. "new" \notin Working /\ Behind("new") = {} /\ "users" \in Tables
  BY BehindIs
<1>5. \A r \in Runs : RunInv(r)
  BY <1>2, <1>4 DEF RunInv, working
<1>6. Holders = {} /\ Copied = {}
  BY <1>2, <1>3, <1>4 DEF Holders, Copied
<1>7. PICK u \in UserIds : IsUser(u)
  BY DEF Init, SourceHasUser, IsUser
<1>8. AnchorInv(u)
  BY <1>2, <1>4, <1>6, <1>7 DEF AnchorInv
<1>9. TargetInv /\ ExactWhenStopped /\ RefusedForCause
  BY <1>2, <1>3, <1>4 DEF TargetInv, ExactWhenStopped, RefusedForCause, at
<1> QED BY <1>1, <1>5, <1>8, <1>9 DEF MigrateInv

LEMMA MigrateStep == MigrateInv /\ Next => MigrateInv'
<1> SUFFICES ASSUME MigrateInv, Next PROVE MigrateInv'
  OBVIOUS
<1>1. PICK u \in UserIds : AnchorInv(u)
  BY DEF MigrateInv
<1>2. AnchorInv(u)'
  BY <1>1, AnchorStep DEF MigrateInv
<1>3. TypeOK' /\ \A r \in Runs : RunInv(r)'
  BY TypeStep, RunStep DEF MigrateInv
<1>4. TargetInv' /\ ExactWhenStopped' /\ RefusedForCause'
  BY <1>1, TargetStep, ExactStep, RefusedStep DEF MigrateInv
<1> QED BY <1>2, <1>3, <1>4 DEF MigrateInv

LEMMA MigrateStutter == MigrateInv /\ UNCHANGED vars => MigrateInv'
<1> SUFFICES ASSUME MigrateInv, UNCHANGED vars PROVE MigrateInv'
  OBVIOUS
<1>1. /\ Source' = Source /\ run' = run /\ seen' = seen /\ mysql' = mysql /\ live' = live
      /\ users' = users
  BY SourceSame DEF vars, tables
<1>2. TypeOK'
  BY TypeStutter DEF MigrateInv
<1>3. \A r \in Runs : RunInv(r)'
  BY <1>1 DEF MigrateInv, RunInv, working
<1>4. Holders' = Holders /\ Copied' = Copied
  BY <1>1 DEF Holders, Copied
<1>5. \A u \in UserIds : AnchorInv(u) => AnchorInv(u)'
  BY <1>1, <1>4 DEF AnchorInv, IsUser, HasUser
<1>6. TargetInv' /\ ExactWhenStopped'
  BY <1>1, <1>4 DEF MigrateInv, TargetInv, ExactWhenStopped, at
<1>7. RefusedForCause'
  BY <1>1, UnholdableStays DEF MigrateInv, RefusedForCause, at
<1> QED BY <1>2, <1>3, <1>5, <1>6, <1>7 DEF MigrateInv

LEMMA MigrateInvariant == ASSUME SourceHasUser PROVE Spec => []MigrateInv
<1>1. Init => MigrateInv
  BY MigrateInit
<1>2. MigrateInv /\ [Next]_vars => MigrateInv'
  BY MigrateStep, MigrateStutter
<1> QED BY <1>1, <1>2, PTL DEF Spec

\* A run that says "ok" after the service on sqlite was stopped has brought over
\* every row, and mysql has nothing else but an administrator.
THEOREM CopyIsExact == ASSUME SourceHasUser PROVE Spec => []ExactWhenStopped
<1>1. MigrateInv => ExactWhenStopped
  BY DEF MigrateInv
<1> QED BY <1>1, MigrateInvariant, PTL

\* "in FK-safe order": a mysql that is empty refuses a row of a quiet file only
\* if no order of copying could have saved it.
THEOREM OrderIsSafe == ASSUME SourceHasUser PROVE Spec => []RefusedForCause
<1>1. MigrateInv => RefusedForCause
  BY DEF MigrateInv
<1> QED BY <1>1, MigrateInvariant, PTL

\* "All inserts run inside a single transaction": the tool, however many of it
\* run, fail or are killed, implements the one step of AtomicCopy.
LEMMA ContractStep ==
  ASSUME MigrateInv, Next
  PROVE  Contract!Next
<1>1. Observe /\ (WorldStep \/ \E r \in Runs : ToolStep(r)) /\ TypeOK
  BY StepCases DEF MigrateInv
<1>2. \A r \in Runs : Contract!Window(r)
  BY <1>1, Observed DEF Contract!Window
<1>3. ASSUME NEW r \in Runs, Commits(r) PROVE Contract!Copy(r)
  <2>1. PICK u \in UserIds : AnchorInv(u)
    BY DEF MigrateInv
  <2>2. r \in Holders /\ Copied = {}
    BY <1>3, <2>1, BehindIs DEF Commits, at, AnchorInv
  <2>3. Copied' = {r}
    BY <1>3, <2>2 DEF Commits, Moved, Copied
  <2>4. \A t \in Tables : run[r].tx[t] \in seen[r][t]
    BY <1>3, BehindIs DEF MigrateInv, RunInv, Commits, at
  <2> QED BY <1>1, <1>3, <2>2, <2>3, <2>4, CommitTarget DEF Contract!Copy
<1>4. ASSUME NEW r \in Runs, ToolStep(r), ~Commits(r) PROVE UNCHANGED <<mysql, Copied>>
  BY <1>4, OnlyCommitCopies
<1>5. ASSUME WorldStep PROVE UNCHANGED <<mysql, Copied>> \/ Contract!EnsureAdmin
  BY <1>5 DEF WorldStep, Copied, Contract!EnsureAdmin
<1> QED BY <1>1, <1>2, <1>3, <1>4, <1>5 DEF Contract!Next

LEMMA ContractInit == Init => Contract!Init
BY DEF Init, NewRun, Empty, Copied, Contract!Init

LEMMA ContractStutter == UNCHANGED vars => UNCHANGED <<Source, mysql, seen, Copied>>
BY SourceSame DEF vars, tables, Copied

THEOREM MigrationIsAtomic == ASSUME SourceHasUser PROVE Spec => MigratesAtomically
<1>1. MigrateInv /\ [Next]_vars => [Contract!Next]_<<Source, mysql, seen, Copied>>
  BY ContractStep, ContractStutter
<1> QED BY <1>1, ContractInit, MigrateInvariant, PTL DEF Spec, MigratesAtomically, Contract!Spec
=============================================================================
