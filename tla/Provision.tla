----------------------------- MODULE Provision -----------------------------
(***************************************************************************)
(* cmd/demoseed on the database of Startup: after the service has served   *)
(* for the first time it creates the demo users and a rule for each.  It   *)
(* looks before it creates, in separate statements, and may be aborted at  *)
(* any point and run again.                                                *)
(*                                                                         *)
(*   off -> get [-> create] -> rule -> get ... -> rule -> done -> off      *)
(*                                                                         *)
(* demo.sh stops the service meanwhile; here it may go on, or start again. *)
(***************************************************************************)
EXTENDS Startup, Sequences

CONSTANTS
  DemoUsers,   \* <<[username, password, action]>>
  RepoPattern

ASSUME ProvisionAssumption ==
  /\ RepoPattern \in Patterns
  /\ DemoUsers \in Seq([username : Usernames, password : Passwords, action : Actions])
  /\ DemoUsers # <<>>

VARIABLE seed   \* the seeding process: where it is, its user, the rules it knows of

provisionVars == <<vars, seed>>

Off == [pc |-> "off", i |-> 1, user |-> NULL, known |-> {}]

ProvisionTypeOK ==
  /\ TypeOK
  /\ seed \in [pc : {"off", "get", "create", "rule", "done"}, i : DOMAIN DemoUsers,
               user : UserIds \cup {NULL}, known : SUBSET RuleRow]
  /\ seed.pc = "rule" => seed.user \in UserIds

ProvisionInit == Init /\ seed = Off

demo == DemoUsers[seed.i]
ruleFor(u, action) ==
  [kind |-> "user", subject |-> u, pattern |-> RepoPattern, action |-> action]
service == <<process, disk, registry, generated, served, crashes>>

BUG_ListRules_AtOnce ==   \* demo.sh does not wait for the service
  /\ seed.pc = "off"
  /\ seed' = [Off EXCEPT !.pc = "get", !.known = ListACLRules]
  /\ UNCHANGED tables

\* The rules are read once, at the beginning.
ListRules ==
  /\ seed.pc = "off"
  /\ served # {}   \* external: demo.sh waits for /healthz first
  /\ seed' = [Off EXCEPT !.pc = "get", !.known = ListACLRules]
  /\ UNCHANGED tables

ensureUserGet ==
  /\ seed.pc = "get"
  /\ LET found == GetUserByUsername(demo.username)
     IN \/ found = {} /\ seed' = [seed EXCEPT !.pc = "create"]
        \/ \E u \in found : seed' = [seed EXCEPT !.pc = "rule", !.user = u]
  /\ UNCHANGED tables

ensureUserCreate ==
  /\ seed.pc = "create"
  /\ \E u \in UserIds :
       /\ CreateUser(u, demo.username, HashPassword(demo.password), FALSE)
       /\ seed' = [seed EXCEPT !.pc = "rule", !.user = u]

\* The loop goes on with what it knows of the rules now.
nextUser(known) ==
  seed' = IF seed.i = Len(DemoUsers) THEN [Off EXCEPT !.pc = "done"]
          ELSE [seed EXCEPT !.pc = "get", !.i = @ + 1, !.user = NULL, !.known = known]

BUG_ensureRule_Unconditional ==   \* no hasRule
  /\ seed.pc = "rule"
  /\ \E r \in RuleIds : CreateACLRule(r, ruleFor(seed.user, demo.action))
  /\ nextUser(seed.known)

\* hasRule, and CreateACLRule if it has not.
ensureRule ==
  /\ seed.pc = "rule"
  /\ LET rule == ruleFor(seed.user, demo.action)
     IN IF rule \in seed.known
        THEN nextUser(seed.known) /\ UNCHANGED tables
        ELSE /\ \E r \in RuleIds : CreateACLRule(r, rule)
             /\ nextUser(seed.known \cup {rule})

\* The process ends; or it is killed, or an error of the store ends it.
EndSeed ==
  /\ seed.pc # "off"
  /\ seed' = Off
  /\ UNCHANGED tables

Seed == ListRules \/ ensureUserGet \/ ensureUserCreate \/ ensureRule \/ EndSeed

ProvisionNext ==
  \/ Next /\ UNCHANGED seed
  \/ Seed /\ UNCHANGED service

\* The supervisor restarts the service; that anyone seeds is not promised.
ProvisionSpec ==
  /\ ProvisionInit /\ [][ProvisionNext]_provisionVars
  /\ \A r \in Replicas : WF_vars(main(r) /\ UNCHANGED <<registry, crashes>>)

-----------------------------------------------------------------------------
\* Whatever was aborted before and left half done, a seeding that comes to its
\* end leaves every demo user in place, active and without the admin flag, with
\* its rule there exactly once; and no rule of it is ever there twice.
SeedsOnce ==
  /\ \A r, s \in RuleIds : IsRule(r) /\ rules[r] = rules[s] => r = s
  /\ seed.pc = "done" =>
       \A i \in DOMAIN DemoUsers : \E u \in GetUserByUsername(DemoUsers[i].username) :
         /\ users[u].active /\ ~users[u].admin
         /\ ruleFor(u, DemoUsers[i].action) \in ListACLRules
=============================================================================
