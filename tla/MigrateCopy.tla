---------------------------- MODULE MigrateCopy ----------------------------
(***************************************************************************)
(* cmd/migrate-sqlite-to-mysql: count the users of the mysql database and, *)
(* when there are none, copy the five tables of the sqlite file, one after *)
(* the other, in one mysql transaction (migratecopy.Copy).                 *)
(*                                                                         *)
(*   new -> users -> groups -> members -> tokens -> rules -> commit -> ok  *)
(*                                                                         *)
(* The variables of Store are the sqlite file, which the auth service may  *)
(* still write to; "mysql" is what is committed there.  A row is a pair    *)
(* <<id, values>>, a row of group_members a pair of ids.  Every invocation *)
(* of the tool is a run: an operator repeats one that failed, and the      *)
(* transaction of one that was killed stays open until mysql notices.      *)
(***************************************************************************)
EXTENDS Store

CONSTANTS
  Runs,                      \* invocations of the tool
  Fold,                      \* name -> what utf8mb4_unicode_ci makes of it
  AdminUser, AdminPassword,  \* of the service that is deployed on mysql
  InitialSources,            \* what the sqlite file may hold at first
  MaxWrites                  \* bound on the statements that still change it

Tables == {"users", "groups", "members", "tokens", "rules"}
Row    == [users   |-> UserIds \X UserRow,   groups |-> GroupIds \X GroupNames,
           members |-> GroupIds \X UserIds,  tokens |-> TokenIds \X TokenRow,
           rules   |-> RuleIds \X RuleRow]
Contents == {db \in [Tables -> SUBSET UNION {Row[t] : t \in Tables}] :
               \A t \in Tables : db[t] \subseteq Row[t]}
Empty  == [t \in Tables |-> {}]

ASSUME MigrateCopyAssumption ==
  /\ ~ForeignKeys   \* the source is sqlite
  /\ DOMAIN Fold = Usernames \cup GroupNames
  /\ AdminUser \in Usernames /\ AdminPassword \in Passwords
  /\ MaxWrites \in Nat
  /\ \A db \in InitialSources :
       /\ db.users   \in [UserIds  -> UserRow \cup {NULL}]
       /\ db.tokens  \in [TokenIds -> TokenRow \cup {NULL}]
       /\ db.groups  \in [GroupIds -> GroupNames \cup {NULL}]
       /\ db.members \subseteq GroupIds \X UserIds
       /\ db.rules   \in [RuleIds  -> RuleRow \cup {NULL}]

VARIABLES
  live,    \* does the auth service still run on the sqlite file?
  writes,  \* how often it has written
  mysql,   \* table -> its committed rows
  server,  \* the auth service that is being deployed on mysql
  run,     \* run -> where it is, and the rows of its open transaction
  seen     \* history: run -> table -> the contents sqlite has had during it

vars == <<users, tokens, groups, members, rules, live, writes, mysql, server, run, seen>>

Working == Tables \cup {"commit"}
\* "lost": committed, but the answer to COMMIT did not arrive; "refused": mysql
\* rejects a row; "killed": its transaction is still open.
PCs == Working \cup {"new", "ok", "lost", "refused", "failed", "killed"}

\* "stopped": the service on sqlite had been stopped before the run began.
Run    == [pc : PCs, tx : Contents, stopped : BOOLEAN]
NewRun == [pc |-> "new", tx |-> Empty, stopped |-> FALSE]

RowsOf(table) == {<<id, table[id]>> : id \in {i \in DOMAIN table : table[i] # NULL}}

\* What the five SELECTs of migratecopy would return now.
Source == [users |-> RowsOf(users), groups |-> RowsOf(groups), members |-> members,
           tokens |-> RowsOf(tokens), rules |-> RowsOf(rules)]

TypeOK ==
  /\ StoreTypeOK
  /\ live \in BOOLEAN /\ writes \in 0..MaxWrites
  /\ server \in {"down", "create", "up"}
  /\ mysql \in Contents
  /\ run \in [Runs -> Run]
  /\ \A r \in Runs : run[r].pc \notin Working \cup {"killed"} => run[r].tx = Empty
  /\ seen \in [Runs -> [Tables -> SUBSET UNION {SUBSET Row[t] : t \in Tables}]]
  /\ \A r \in Runs, t \in Tables : seen[r][t] \subseteq SUBSET Row[t]

Init ==
  /\ \E db \in InitialSources :
       /\ users = db.users /\ tokens = db.tokens /\ groups = db.groups
       /\ members = db.members /\ rules = db.rules
  /\ live \in BOOLEAN
  /\ writes = 0
  /\ mysql = Empty
  /\ server = "down"
  /\ run = [r \in Runs |-> NewRun]
  /\ seen = [r \in Runs |-> [t \in Tables |-> {}]]

at(r, pc)  == run[r].pc = pc
working(r) == run[r].pc \in Working

\* Keeps the history: what sqlite held while a run was under way.
Observe ==
  seen' = [r \in Runs |-> [t \in Tables |->
             IF run'[r].pc \notin Working THEN {}
             ELSE IF at(r, "new") THEN {Source'[t]} ELSE seen[r][t] \cup {Source'[t]}]]

(***************************************************************************)
(* The mysql schema (mysql/migrate.go).                                    *)
(***************************************************************************)

\* A primary key or a UNIQUE key has both rows.
SameKey(t, x, y) ==
  \/ IF t = "members" THEN x = y ELSE x[1] = y[1]
  \/ t = "users"  /\ Fold[x[2].username] = Fold[y[2].username]
  \/ t = "groups" /\ Fold[x[2]] = Fold[y[2]]

\* REFERENCES; acl_rules has none.
Dangling(t, x, db) ==
  LET User(u)  == \E y \in db.users  : y[1] = u
      Group(g) == \E y \in db.groups : y[1] = g
  IN \/ t = "tokens"  /\ ~User(x[2].user)
     \/ t = "members" /\ ~(Group(x[1]) /\ User(x[2]))

Refuses(db, t, rows) ==
  \E x \in rows :
    Dangling(t, x, db) \/ \E y \in db[t] \cup (rows \ {x}) : SameKey(t, x, y)

\* A row in another open transaction has the same key: the INSERT waits for it.
Waits(r, t, rows) ==
  \E q \in Runs \ {r} : \E x \in rows, y \in run[q].tx[t] : SameKey(t, x, y)

Join(db, tx) == [t \in Tables |-> db[t] \cup tx[t]]

(***************************************************************************)
(* The tool.                                                               *)
(***************************************************************************)
end(r, pc) == run' = [run EXCEPT ![r] = [@ EXCEPT !.pc = pc, !.tx = Empty]]

\* run: the count of users stands for "the database is empty".
CountUsers(r) ==
  /\ at(r, "new")
  /\ run' = [run EXCEPT ![r] =
       [@ EXCEPT !.pc = IF mysql.users = {} THEN "users" ELSE "failed",
                 !.stopped = ~live]]
  /\ UNCHANGED <<tables, live, writes, mysql, server>>

\* A SELECT on sqlite, and an INSERT for every row of its result.  The result
\* is one snapshot and rows that are not committed are seen by nobody, so the
\* loop is one step; the first error ends it.
copyTable(r, t, next) ==
  /\ at(r, t)
  /\ \/ /\ Refuses(Join(mysql, run[r].tx), t, Source[t])
        /\ end(r, "refused")
     \/ /\ ~Refuses(Join(mysql, run[r].tx), t, Source[t])
        /\ ~Waits(r, t, Source[t])
        /\ run' = [run EXCEPT ![r] =
             [@ EXCEPT !.pc = next, !.tx = [run[r].tx EXCEPT ![t] = Source[t]]]]
  /\ UNCHANGED <<tables, live, writes, mysql, server>>

BUG_copyUsers_MembersNext(r) == copyTable(r, "users", "members")

copyUsers(r) == copyTable(r, "users", "groups")

BUG_copyGroups_NoTransaction(r) ==   \* dst.Exec instead of tx.Exec
  /\ at(r, "groups")
  /\ ~Refuses(Join(mysql, run[r].tx), "groups", Source.groups)
  /\ run' = [run EXCEPT ![r] = [@ EXCEPT !.pc = "members"]]
  /\ mysql' = [mysql EXCEPT !.groups = @ \cup Source.groups]
  /\ UNCHANGED <<tables, live, writes, server>>

copyGroups(r) == copyTable(r, "groups", "members")

BUG_copyGroupMembers_NoTransaction(r) ==   \* dst.Exec waits for the rows of its own tx
  LET Uncommitted(t, id) == \E y \in run[r].tx[t] : y[1] = id
  IN /\ at(r, "members")
     /\ \A x \in Source.members : ~Uncommitted("groups", x[1]) /\ ~Uncommitted("users", x[2])
     /\ IF Refuses(mysql, "members", Source.members)
        THEN end(r, "refused") /\ UNCHANGED mysql
        ELSE /\ run' = [run EXCEPT ![r] = [@ EXCEPT !.pc = "tokens"]]
             /\ mysql' = [mysql EXCEPT !.members = @ \cup Source.members]
     /\ UNCHANGED <<tables, live, writes, server>>

copyGroupMembers(r) == copyTable(r, "members", "tokens")

BUG_copyAPITokens_DefaultActive(r) ==   \* the column is left to its DEFAULT 1
  /\ at(r, "tokens")
  /\ run' = [run EXCEPT ![r] = [@ EXCEPT !.pc = "rules",
       !.tx = [@ EXCEPT !.tokens = {<<x[1], [x[2] EXCEPT !.active = TRUE]>> : x \in Source.tokens}]]]
  /\ UNCHANGED <<tables, live, writes, mysql, server>>

copyAPITokens(r) == copyTable(r, "tokens", "rules")

BUG_copyACLRules_WrongQuery(r) ==   \* the SELECT of the function above it
  /\ at(r, "rules")
  /\ run' = [run EXCEPT ![r] =
       [@ EXCEPT !.pc = "commit", !.tx = [@ EXCEPT !.rules = Source.tokens]]]
  /\ UNCHANGED <<tables, live, writes, mysql, server>>

copyACLRules(r) == copyTable(r, "rules", "commit")

\* COMMIT: its effect and the arrival of its answer are two things.
Commit(r) ==
  /\ at(r, "commit")
  /\ mysql' = Join(mysql, run[r].tx)
  /\ end(r, "ok") \/ end(r, "lost")
  /\ UNCHANGED <<tables, live, writes, server>>

\* Any other error of either database, a lock-wait timeout among them; the
\* deferred Rollback and the end of the process close the transaction.
Fail(r) ==
  /\ working(r)
  /\ end(r, "failed")
  /\ UNCHANGED <<tables, live, writes, mysql, server>>

step(r) == \/ CountUsers(r)
           \/ copyUsers(r) \/ copyGroups(r) \/ copyGroupMembers(r)
           \/ copyAPITokens(r) \/ copyACLRules(r)
           \/ Commit(r)

Kill(r) ==
  /\ working(r)
  /\ run' = [run EXCEPT ![r] = [@ EXCEPT !.pc = "killed"]]
  /\ UNCHANGED <<tables, live, writes, mysql, server>>

\* External: mysql ends the transaction of a client that is gone.
Rollback(r) ==
  /\ at(r, "killed")
  /\ end(r, "failed")
  /\ UNCHANGED <<tables, live, writes, mysql, server>>

(***************************************************************************)
(* Around the tool: the service on sqlite, which an operator may stop, and *)
(* the start of the service on mysql (bootstrap.EnsureAdmin).              *)
(***************************************************************************)
ServiceWrites ==
  /\ live /\ writes < MaxWrites
  /\ Write(RuleInputs)
  /\ writes' = writes + 1
  /\ UNCHANGED <<live, mysql, server, run>>

StopService ==
  /\ live
  /\ live' = FALSE
  /\ UNCHANGED <<tables, writes, mysql, server, run>>

MysqlCountUsers ==
  /\ server = "down"
  /\ server' = IF mysql.users = {} THEN "create" ELSE "up"
  /\ UNCHANGED <<tables, live, writes, mysql, run>>

AdminRow(id) == <<id, [username |-> AdminUser, hash |-> HashPassword(AdminPassword),
                       active |-> TRUE, admin |-> TRUE]>>

MysqlCreateAdmin ==
  /\ server = "create"
  /\ \E id \in UserIds :
       /\ NewUserID(id)
       /\ \A y \in mysql.users : y[1] # id
       /\ \A r \in Runs : ~\E y \in run[r].tx.users : SameKey("users", AdminRow(id), y)
       /\ IF \E y \in mysql.users : SameKey("users", AdminRow(id), y)
          THEN server' = "down" /\ UNCHANGED mysql    \* log.Fatal; started again
          ELSE server' = "up" /\ mysql' = [mysql EXCEPT !.users = @ \cup {AdminRow(id)}]
  /\ UNCHANGED <<tables, live, writes, run>>

Next ==
  /\ \/ \E r \in Runs : step(r) \/ Fail(r) \/ Kill(r) \/ Rollback(r)
     \/ ServiceWrites \/ StopService
     \/ MysqlCountUsers \/ MysqlCreateAdmin
  /\ Observe

\* A started tool goes on unless it waits, and mysql drops the dead sooner or
\* later; that anyone starts the tool, or a service, is not promised.
Spec == Init /\ [][Next]_vars
             /\ \A r \in Runs : /\ WF_vars(working(r) /\ step(r) /\ Observe)
                                /\ WF_vars(Rollback(r) /\ Observe)

-----------------------------------------------------------------------------
Admins == {AdminRow(id) : id \in UserIds}
Copied == {r \in Runs : run[r].pc \in {"ok", "lost"}}

\* "All inserts run inside a single transaction" (copy.go): whatever fails, is
\* killed, is repeated or runs at once, mysql goes in one step from no copy to a
\* whole one, each table as sqlite had it at one moment of the run.
Contract == INSTANCE AtomicCopy WITH source <- Source, target <- mysql, copied <- Copied
MigratesAtomically == Contract!Spec

\* With the service on sqlite stopped first, a run that says "ok" has brought
\* over every row there is, and mysql holds nothing else but the administrator
\* that a service started there meanwhile may have created.
ExactWhenStopped ==
  \A r \in Runs : at(r, "ok") /\ run[r].stopped =>
    /\ \A t \in Tables : Source[t] \subseteq mysql[t]
    /\ mysql.users \ Source.users \subseteq Admins
    /\ \A t \in Tables \ {"users"} : mysql[t] = Source[t]

\* The rows of a file that mysql cannot hold: a token or a membership whose
\* user or group does not exist, names that differ in case or accents only.
Unholdable == \E t \in Tables : Refuses([Source EXCEPT ![t] = {}], t, Source[t])

\* "in FK-safe order" (copy.go): as long as nobody else has put anything into
\* mysql, it refuses a row only if the file as a whole cannot be held.
RefusedForCause ==
  \A r \in Runs : at(r, "refused") /\ run[r].stopped /\ mysql = Empty => Unholdable

\* A run that has begun ends, without the lock-wait timeout of mysql (which Fail
\* has, and no fairness): it never waits for ever, neither two runs for each other
\* nor one for a dead one nor for rows of its own.
RunsEnd == \A r \in Runs : working(r) ~> ~working(r)
=============================================================================
