------------------------------ MODULE Startup ------------------------------
(***************************************************************************)
(* cmd/server/main.go up to ListenAndServe: each replica makes sure that   *)
(* an administrator exists (bootstrap.EnsureAdmin) and loads or creates    *)
(* the key pair that signs tokens (auth.LoadOrCreateKeys), then serves.    *)
(* Replicas share the database and the volume with the two PEM files; a    *)
(* fatal error or a crash ends a process, and its supervisor starts it     *)
(* again.                                                                  *)
(*                                                                         *)
(*  down -> count [-> create] -> loadKey -> loadCert ----------> serving   *)
(*                                  \-> openKey -> writeKey                *)
(*                                  -> openCert -> writeCert --/           *)
(*                                                                         *)
(* os.WriteFile is two steps: the file is created or truncated, then       *)
(* written; a reader in between, or after a crash in between, finds no PEM *)
(* block in it.                                                            *)
(***************************************************************************)
EXTENDS Store

CONSTANTS
  Replicas,
  KeyIds,                    \* RSA keys; a certificate is named by its key
  AdminUser, AdminPassword,  \* ADMIN_USER and ADMIN_PASSWORD
  InitialFiles,              \* what the two files may hold before the first start
  MaxCrashes                 \* bound on crashes

Absent == "absent"
Broken == "broken"

ASSUME StartupAssumption ==
  /\ KeyIds \cap {Absent, Broken, NULL} = {}
  /\ AdminUser \in Usernames /\ AdminPassword \in Passwords
  /\ InitialFiles \subseteq [key : KeyIds \cup {Absent}, cert : KeyIds \cup {Absent}]
  /\ MaxCrashes \in Nat

File == KeyIds \cup {Absent, Broken}

VARIABLES
  pc,        \* replica -> where main is
  issuer,    \* replica -> the key and the certificate in its memory
  disk,      \* the key file and the certificate file
  registry,  \* external: the certificate the registry has loaded, or NULL
  generated, \* history: the keys that rsa.GenerateKey has returned
  served,    \* history: the keys a serving replica has signed with
  crashes

process == <<pc, issuer>>
vars == <<users, tokens, groups, members, rules,
          pc, issuer, disk, registry, generated, served, crashes>>

Writing == {"openKey", "writeKey", "openCert", "writeCert"}
PCs == {"down", "count", "create", "loadKey", "loadCert", "serving"} \cup Writing
NoIssuer == [key |-> NULL, cert |-> NULL]

TypeOK ==
  /\ StoreTypeOK
  /\ pc \in [Replicas -> PCs]
  /\ issuer \in [Replicas -> [key : KeyIds \cup {NULL}, cert : KeyIds \cup {NULL}]]
  /\ disk \in [key : File, cert : File]
  /\ registry \in KeyIds \cup {NULL}
  /\ generated \subseteq KeyIds /\ served \subseteq KeyIds
  /\ crashes \in 0..MaxCrashes
  /\ \A r \in Replicas :
       /\ pc[r] \in Writing \cup {"serving"} => issuer[r] \in [key : KeyIds, cert : KeyIds]
       /\ pc[r] = "loadCert" => issuer[r].key \in KeyIds

Init ==
  /\ EmptyDatabase
  /\ disk \in InitialFiles
  /\ pc = [r \in Replicas |-> "down"]
  /\ issuer = [r \in Replicas |-> NoIssuer]
  /\ registry = NULL
  /\ generated = {disk.key, disk.cert} \ {Absent}
  /\ served = {} /\ crashes = 0

at(r, l)   == pc[r] = l
goto(r, l) == pc' = [pc EXCEPT ![r] = l]
hold(r, key, cert) == issuer' = [issuer EXCEPT ![r] = [key |-> key, cert |-> cert]]
fatal(r) == goto(r, "down") /\ hold(r, NULL, NULL) /\ UNCHANGED served
serve(r) == goto(r, "serving") /\ served' = served \cup {issuer'[r].key}

Start(r) ==
  /\ at(r, "down")
  /\ goto(r, "count")
  /\ UNCHANGED <<tables, issuer, disk, generated, served>>

(***************************************************************************)
(* EnsureAdmin: a count, then an insert that the UNIQUE username decides.  *)
(***************************************************************************)
BUG_CountUsers_AlwaysCreates(r) ==   \* no early return when users exist
  /\ at(r, "count")
  /\ goto(r, "create")
  /\ UNCHANGED <<tables, issuer, disk, generated, served>>

CountUsers(r) ==
  /\ at(r, "count")
  /\ goto(r, IF NoUsers THEN "create" ELSE "loadKey")
  /\ UNCHANGED <<tables, issuer, disk, generated, served>>

CreateAdmin(r) ==
  /\ at(r, "create")
  /\ \E u \in UserIds : CreateUser(u, AdminUser, HashPassword(AdminPassword), TRUE)
  /\ goto(r, "loadKey")
  /\ UNCHANGED <<issuer, disk, generated, served>>

CreateAdminFails(r) ==
  /\ at(r, "create")
  /\ GetUserByUsername(AdminUser) # {}
  /\ fatal(r)
  /\ UNCHANGED <<tables, disk, generated>>

(***************************************************************************)
(* LoadOrCreateKeys.  Only a key file that does not exist leads to a new   *)
(* pair; every other failure to load is fatal.  That the loaded pair       *)
(* belongs together is not looked at.                                      *)
(***************************************************************************)
loadPrivateKey(r) ==
  /\ at(r, "loadKey")
  /\ \/ /\ disk.key \in KeyIds
        /\ hold(r, disk.key, NULL) /\ goto(r, "loadCert")
        /\ UNCHANGED <<generated, served>>
     \/ /\ disk.key = Absent
        /\ \E k \in KeyIds \ generated :
             /\ hold(r, k, k) /\ generated' = generated \cup {k}
        /\ goto(r, "openKey") /\ UNCHANGED served
     \/ /\ disk.key = Broken
        /\ fatal(r) /\ UNCHANGED generated
  /\ UNCHANGED <<tables, disk>>

BUG_loadCertificate_Shadowed(r) ==   \* "cert, err :=" in the inner block; cert stays nil
  /\ at(r, "loadCert")
  /\ IF disk.cert \in KeyIds THEN UNCHANGED issuer /\ serve(r) ELSE fatal(r)
  /\ UNCHANGED <<tables, disk, generated>>

BUG_loadCertificate_Renews(r) ==   \* a certificate that fails to load is replaced
  /\ at(r, "loadCert")
  /\ \/ /\ disk.cert \in KeyIds
        /\ hold(r, issuer[r].key, disk.cert) /\ serve(r) /\ UNCHANGED generated
     \/ /\ disk.cert \notin KeyIds
        /\ \E k \in KeyIds \ generated :
             hold(r, issuer[r].key, k) /\ generated' = generated \cup {k}
        /\ goto(r, "openCert") /\ UNCHANGED served
  /\ UNCHANGED <<tables, disk>>

loadCertificate(r) ==
  /\ at(r, "loadCert")
  /\ IF disk.cert \in KeyIds
     THEN hold(r, issuer[r].key, disk.cert) /\ serve(r)
     ELSE fatal(r)
  /\ UNCHANGED <<tables, disk, generated>>

BUG_OpenKeyFile_CertFirst(r) ==   \* the key stays in memory only
  /\ at(r, "openKey")
  /\ goto(r, "openCert")
  /\ UNCHANGED <<tables, issuer, disk, generated, served>>

OpenKeyFile(r) ==
  /\ at(r, "openKey")
  /\ disk' = [disk EXCEPT !.key = Broken]
  /\ goto(r, "writeKey")
  /\ UNCHANGED <<tables, issuer, generated, served>>

writePrivateKey(r) ==
  /\ at(r, "writeKey")
  /\ disk' = [disk EXCEPT !.key = issuer[r].key]
  /\ goto(r, "openCert")
  /\ UNCHANGED <<tables, issuer, generated, served>>

OpenCertFile(r) ==
  /\ at(r, "openCert")
  /\ disk' = [disk EXCEPT !.cert = Broken]
  /\ goto(r, "writeCert")
  /\ UNCHANGED <<tables, issuer, generated, served>>

writeCertificate(r) ==
  /\ at(r, "writeCert")
  /\ disk' = [disk EXCEPT !.cert = issuer[r].cert]
  /\ UNCHANGED issuer /\ serve(r)
  /\ UNCHANGED <<tables, generated>>

main(r) ==
  \/ Start(r) \/ CountUsers(r) \/ CreateAdmin(r) \/ CreateAdminFails(r)
  \/ loadPrivateKey(r) \/ loadCertificate(r)
  \/ OpenKeyFile(r) \/ writePrivateKey(r) \/ OpenCertFile(r) \/ writeCertificate(r)

\* The process is killed, or a store call or a write fails and log.Fatal ends it.
Crash(r) ==
  /\ ~at(r, "down")
  /\ crashes < MaxCrashes /\ crashes' = crashes + 1
  /\ fatal(r)
  /\ UNCHANGED <<tables, disk, generated, registry>>

\* External: the registry reads its rootcertbundle once, as it starts.
RegistryStart ==
  /\ registry = NULL /\ disk.cert \in KeyIds
  /\ registry' = disk.cert
  /\ UNCHANGED <<tables, process, disk, generated, served, crashes>>

RegistryStop ==
  /\ registry # NULL
  /\ registry' = NULL
  /\ UNCHANGED <<tables, process, disk, generated, served, crashes>>

Next ==
  \/ \E r \in Replicas : main(r) /\ UNCHANGED <<registry, crashes>>
  \/ \E r \in Replicas : Crash(r)
  \/ RegistryStart \/ RegistryStop

\* Processes run and supervisors restart them; nothing else is promised.
Spec == Init /\ [][Next]_vars
             /\ \A r \in Replicas : WF_vars(main(r) /\ UNCHANGED <<registry, crashes>>)

-----------------------------------------------------------------------------
\* "Later starts reuse those files", and replacing the key invalidates tokens
\* (README.md): through every crash and restart one key signs, so no restart
\* invalidates the tokens that are out.
OneSigningKey == \A j, k \in served : j = k

\* A registry that has read the certificate, whenever that was, accepts what a
\* serving replica signs now: x5c is what it trusts, and belongs to the key.
RegistryAcceptsTokens ==
  \A r \in Replicas :
    pc[r] = "serving" /\ registry # NULL
      => issuer[r].cert = registry /\ issuer[r].key = registry

\* Whoever serves, whichever of two first starts lost the race for the insert,
\* and whatever else has come into the table by then: there is one active admin.
OneBootstrapAdmin == served # {} => CountActiveAdmins = 1

\* A crash has left the pair half written.
TornPair ==
  /\ \A r \in Replicas : pc[r] \notin Writing
  /\ \/ disk.key = Broken
     \/ disk.key \in KeyIds /\ disk.cert \notin KeyIds

\* Crashes end, and then every replica comes to serve and stays: a lost race for
\* the admin or a crash before or after the pair is written costs one restart.
\* The one thing a restart does not get over is a half-written pair.
RecoversUnlessTorn ==
  <>TornPair \/ \A r \in Replicas : <>[](pc[r] = "serving")

\* "If the key file is missing at startup, auth generates ... and writes both
\* PEMs.  Later starts reuse those files" (README.md): whatever
\* happened before, a replica that is started again and again comes to serve.
LaterStartsServe == \A r \in Replicas : []<>(pc[r] = "serving")
=============================================================================
