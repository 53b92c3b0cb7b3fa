----------------------------- MODULE AtomicCopy -----------------------------
(***************************************************************************)
(* What the migration of the auth data to mysql promises: one step.        *)
(*                                                                         *)
(* A run of the tool either changes nothing or adds a whole copy, each     *)
(* table as the source had it at one moment of the run, and no second copy *)
(* ever joins the first.  Of the target it assumes nothing but that a      *)
(* service may create its first administrator there.                       *)
(***************************************************************************)
CONSTANTS
  Runs,     \* invocations of the tool
  Tables,
  Admins    \* the rows a service may create

VARIABLES
  source,   \* table -> its rows
  target,   \* table -> its rows
  seen,     \* run -> table -> the contents the table has had during the run
  copied    \* the runs whose copy is in the target

Init ==
  /\ target = [t \in Tables |-> {}]
  /\ seen = [r \in Runs |-> [t \in Tables |-> {}]]
  /\ copied = {}

\* A run begins, and goes on while the service writes to its own database.
Window(r) ==
  \A t \in Tables :
    seen'[r][t] \in {{}, {source'[t]}, seen[r][t] \cup {source'[t]}}

Copy(r) ==
  /\ copied = {} /\ copied' = {r}
  /\ \A t \in Tables : \E rows \in seen[r][t] : target'[t] = target[t] \cup rows

EnsureAdmin ==
  /\ \E x \in Admins : target' = [target EXCEPT !.users = @ \cup {x}]
  /\ UNCHANGED copied

Next ==
  /\ \A r \in Runs : Window(r)
  /\ \/ UNCHANGED <<target, copied>>
     \/ \E r \in Runs : Copy(r)
     \/ EnsureAdmin

Spec == Init /\ [][Next]_<<source, target, seen, copied>>
=============================================================================
