---------------------------- MODULE MCProvision ----------------------------
(* TLC instances of Provision.                                             *)
EXTENDS Provision

CONSTANTS k0, writer, reader, secret

NoRules == {}

\* PEM files that were put there before the first start.
ProvidedFiles == {[key |-> k0, cert |-> k0]}

MCDemoUsers == <<[username |-> writer, password |-> secret, action |-> "push"],
                 [username |-> reader, password |-> secret, action |-> "pull"]>>
=============================================================================
