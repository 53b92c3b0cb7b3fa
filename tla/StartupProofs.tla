---------------------------- MODULE StartupProofs ----------------------------
(***************************************************************************)
(* Theorems about the start of the service, the tokens that outlive it and *)
(* the demo seed beside it: for any number of crashes, keys, users and     *)
(* rules, and any lifetime, leeway and clock.                              *)
(***************************************************************************)
EXTENDS TokenLifetime, Provision, StoreProofs, FiniteSetTheorems

-----------------------------------------------------------------------------
(***************************************************************************)
(* Typing.                                                                 *)
(***************************************************************************)

\* What a step of a replica or a crash does to the database: nothing, or the
\* insert of the administrator.
LEMMA TablesStep ==
  ASSUME [Next]_vars
  PROVE  UNCHANGED tables \/ \E r \in Replicas : CreateAdmin(r)
BY DEF Next, vars, tables, main, Start, CountUsers, CreateAdminFails, loadPrivateKey,
       loadCertificate, OpenKeyFile, writePrivateKey, OpenCertFile, writeCertificate,
       Crash, RegistryStart, RegistryStop

LEMMA CreateAdminWrites ==
  ASSUME NEW r, CreateAdmin(r)
  PROVE  Write(RuleRow)
BY StartupAssumption DEF CreateAdmin, Write, WriteUser

LEMMA TablesTyped == ASSUME StoreTypeOK, [Next]_vars PROVE StoreTypeOK' /\ UsersKept
<1>1. CASE UNCHANGED tables
  BY <1>1 DEF tables, StoreTypeOK, UsersKept, IsUser
<1>2. CASE \E r \in Replicas : CreateAdmin(r)
  BY <1>2, CreateAdminWrites, WritesTyped
<1> QED BY <1>1, <1>2, TablesStep

\* The part of the type invariant that is about replicas, files and the registry.
ProcessTypeOK ==
  /\ pc \in [Replicas -> PCs]
  /\ issuer \in [Replicas -> [key : KeyIds \cup {NULL}, cert : KeyIds \cup {NULL}]]
  /\ disk \in [key : File, cert : File]
  /\ generated \subseteq KeyIds /\ served \subseteq KeyIds
  /\ \A r \in Replicas :
       /\ pc[r] \in Writing \cup {"serving"} => issuer[r] \in [key : KeyIds, cert : KeyIds]
       /\ pc[r] = "loadCert" => issuer[r].key \in KeyIds

\* One replica moves on with what it holds; the files and the histories are typed.
LEMMA MoveTyped ==
  ASSUME ProcessTypeOK, NEW r \in Replicas, NEW l \in PCs,
         NEW row \in [key : KeyIds \cup {NULL}, cert : KeyIds \cup {NULL}],
         l \in Writing \cup {"serving"} => row \in [key : KeyIds, cert : KeyIds],
         l = "loadCert" => row.key \in KeyIds,
         goto(r, l), issuer' = [issuer EXCEPT ![r] = row],
         disk' \in [key : File, cert : File],
         generated' \subseteq KeyIds, served' \subseteq KeyIds
  PROVE  ProcessTypeOK'
<1>1. /\ pc' \in [Replicas -> PCs]
      /\ issuer' \in [Replicas -> [key : KeyIds \cup {NULL}, cert : KeyIds \cup {NULL}]]
  BY DEF ProcessTypeOK, goto
<1>2. /\ pc'[r] = l /\ issuer'[r] = row
      /\ \A s \in Replicas \ {r} : pc'[s] = pc[s] /\ issuer'[s] = issuer[s]
  BY DEF ProcessTypeOK, goto
<1> QED BY <1>1, <1>2 DEF ProcessTypeOK

LEMMA MainTyped ==
  ASSUME ProcessTypeOK, NEW r \in Replicas, main(r)
  PROVE  ProcessTypeOK'
<1> DEFINE row == issuer[r]
           Row == [key : KeyIds \cup {NULL}, cert : KeyIds \cup {NULL}]
<1>1. /\ row \in Row /\ issuer = [issuer EXCEPT ![r] = row]
      /\ \A l \in {"down", "count", "create", "loadKey", "loadCert", "serving",
                   "openKey", "writeKey", "openCert", "writeCert"} : l \in PCs
      /\ Writing = {"openKey", "writeKey", "openCert", "writeCert"}
      /\ disk \in [key : File, cert : File]
      /\ generated \subseteq KeyIds /\ served \subseteq KeyIds
      /\ pc[r] \in Writing \cup {"serving"} => row \in [key : KeyIds, cert : KeyIds]
      /\ pc[r] = "loadCert" => row.key \in KeyIds
  BY DEF ProcessTypeOK, PCs, Writing
<1> DEFINE none == [key |-> NULL, cert |-> NULL]
<1>2. ASSUME fatal(r), disk' = disk, generated' = generated PROVE ProcessTypeOK'
  <2>1. none \in Row /\ issuer' = [issuer EXCEPT ![r] = none] /\ served' = served
        /\ goto(r, "down")
    BY <1>2 DEF fatal, hold
  <2> QED BY <1>1, <1>2, <2>1, MoveTyped
<1>3. CASE Start(r) \/ CountUsers(r) \/ CreateAdmin(r)
  <2>1. PICK l \in {"count", "create", "loadKey"} : goto(r, l)
    BY <1>3 DEF Start, CountUsers, CreateAdmin
  <2> QED BY <1>1, <1>3, <2>1, MoveTyped DEF Start, CountUsers, CreateAdmin
<1>4. CASE CreateAdminFails(r)
  BY <1>2, <1>4 DEF CreateAdminFails
<1>5. CASE loadPrivateKey(r)
  <2>1. CASE disk.key \in KeyIds /\ hold(r, disk.key, NULL) /\ goto(r, "loadCert")
             /\ UNCHANGED <<generated, served>>
    <3>1. [key |-> disk.key, cert |-> NULL] \in Row
      BY <2>1
    <3> QED BY <1>1, <1>5, <2>1, <3>1, MoveTyped DEF loadPrivateKey, hold
  <2>2. ASSUME NEW k \in KeyIds, hold(r, k, k), generated' = generated \cup {k},
               goto(r, "openKey"), UNCHANGED served
        PROVE  ProcessTypeOK'
    <3>1. /\ [key |-> k, cert |-> k] \in Row
          /\ [key |-> k, cert |-> k] \in [key : KeyIds, cert : KeyIds]
      OBVIOUS
    <3> QED BY <1>1, <1>5, <2>2, <3>1, MoveTyped DEF loadPrivateKey, hold
  <2> QED BY <1>2, <1>5, <2>1, <2>2 DEF loadPrivateKey
<1>6. CASE loadCertificate(r)
  <2>1. CASE disk.cert \in KeyIds
    <3> DEFINE new == [key |-> row.key, cert |-> disk.cert]
    <3>1. row.key \in KeyIds /\ new \in Row /\ new \in [key : KeyIds, cert : KeyIds]
      BY <1>1, <1>6, <2>1 DEF loadCertificate, at
    <3>2. issuer' = [issuer EXCEPT ![r] = new] /\ issuer'[r] = new
      BY <1>6, <2>1 DEF loadCertificate, hold, ProcessTypeOK
    <3>3. served' = served \cup {row.key} /\ goto(r, "serving")
      BY <1>6, <2>1, <3>2 DEF loadCertificate, serve
    <3> QED BY <1>1, <1>6, <3>1, <3>2, <3>3, MoveTyped DEF loadCertificate
  <2> QED BY <1>2, <1>6, <2>1 DEF loadCertificate
<1>7. CASE OpenKeyFile(r) \/ OpenCertFile(r) \/ writePrivateKey(r)
  <2>1. PICK l \in {"writeKey", "openCert", "writeCert"} : goto(r, l)
    BY <1>7 DEF OpenKeyFile, OpenCertFile, writePrivateKey
  <2>2. row \in [key : KeyIds, cert : KeyIds]
    BY <1>1, <1>7 DEF OpenKeyFile, OpenCertFile, writePrivateKey, at
  <2>3. disk' \in [key : File, cert : File]
    BY <1>1, <1>7, <2>2 DEF OpenKeyFile, OpenCertFile, writePrivateKey, File
  <2> QED
    BY <1>1, <1>7, <2>1, <2>2, <2>3, MoveTyped DEF OpenKeyFile, OpenCertFile, writePrivateKey
<1>8. CASE writeCertificate(r)
  <2>1. row \in [key : KeyIds, cert : KeyIds]
    BY <1>1, <1>8 DEF writeCertificate, at
  <2>2. disk' \in [key : File, cert : File] /\ served' = served \cup {row.key}
    BY <1>1, <1>8, <2>1 DEF writeCertificate, serve, File
  <2> QED BY <1>1, <1>8, <2>1, <2>2, MoveTyped DEF writeCertificate, serve
<1> QED BY <1>3, <1>4, <1>5, <1>6, <1>7, <1>8 DEF main

LEMMA ProcessTyped == ASSUME ProcessTypeOK, [Next]_vars PROVE ProcessTypeOK'
<1>1. CASE UNCHANGED <<pc, issuer, disk, generated, served>>
  BY <1>1 DEF ProcessTypeOK
<1>2. ASSUME NEW r \in Replicas, Crash(r) PROVE ProcessTypeOK'
  <2> DEFINE none == [key |-> NULL, cert |-> NULL]
  <2>1. /\ none \in [key : KeyIds \cup {NULL}, cert : KeyIds \cup {NULL}]
        /\ issuer' = [issuer EXCEPT ![r] = none] /\ served' = served
        /\ goto(r, "down") /\ disk' = disk /\ generated' = generated
        /\ "down" \in PCs /\ "down" \notin Writing \cup {"serving"}
    BY <1>2 DEF Crash, fatal, hold, PCs, Writing
  <2> QED BY <1>2, <2>1, MoveTyped DEF ProcessTypeOK
<1> QED
  BY <1>1, <1>2, MainTyped DEF Next, RegistryStart, RegistryStop, process, vars

LEMMA TypeStep == ASSUME TypeOK, [Next]_vars PROVE TypeOK'
<1>1. StoreTypeOK' /\ ProcessTypeOK'
  BY TablesTyped, ProcessTyped DEF TypeOK, ProcessTypeOK
<1>2. registry' \in KeyIds \cup {NULL}
  BY DEF TypeOK, Next, Crash, RegistryStart, RegistryStop, vars
<1>3. crashes' \in 0..MaxCrashes
  BY StartupAssumption DEF TypeOK, Next, Crash, RegistryStart, RegistryStop, vars
<1> QED BY <1>1, <1>2, <1>3 DEF TypeOK, ProcessTypeOK

LEMMA InitTyped == ASSUME Init PROVE TypeOK
<1>1. StoreTypeOK
  BY DEF Init, EmptyDatabase, StoreTypeOK
<1>2. disk \in [key : File, cert : File] /\ generated \subseteq KeyIds
  BY StartupAssumption DEF Init, File
<1>3. crashes \in 0..MaxCrashes
  BY StartupAssumption DEF Init
<1> QED BY <1>1, <1>2, <1>3 DEF Init, TypeOK, NoIssuer, PCs, Writing

\* The tables, the files and what the replicas hold keep their types.
THEOREM StartupTypeCorrect == Spec => []TypeOK
BY InitTyped, TypeStep, PTL DEF Spec

-----------------------------------------------------------------------------
(***************************************************************************)
(* What a step of one replica does to it and to the files, as the proofs   *)
(* below look at it.                                                       *)
(***************************************************************************)
Quiet(r) ==
  pc'[r] \in {"down", "count", "create", "loadKey"} /\ UNCHANGED <<disk, served>>

LoadsKey(r) ==
  /\ pc[r] = "loadKey" /\ pc'[r] = "loadCert"
  /\ disk.key \in KeyIds /\ issuer'[r].key = disk.key
  /\ UNCHANGED <<disk, served>>

Generates(r) ==
  /\ pc[r] = "loadKey" /\ pc'[r] = "openKey"
  /\ disk.key = Absent /\ issuer'[r].key = issuer'[r].cert
  /\ UNCHANGED <<disk, served>>

LoadsCertificate(r) ==
  /\ pc[r] = "loadCert" /\ pc'[r] = "serving"
  /\ disk.cert \in KeyIds
  /\ issuer'[r].key = issuer[r].key /\ issuer'[r].cert = disk.cert
  /\ served' = served \cup {issuer[r].key} /\ UNCHANGED disk

WritesKey(r) ==
  /\ issuer'[r] = issuer[r] /\ disk'.cert = disk.cert /\ UNCHANGED served
  /\ \/ pc[r] = "openKey"  /\ pc'[r] = "writeKey" /\ disk'.key = Broken
     \/ pc[r] = "writeKey" /\ pc'[r] = "openCert" /\ disk'.key = issuer[r].key

WritesCertificate(r) ==
  /\ issuer'[r] = issuer[r] /\ disk'.key = disk.key
  /\ \/ /\ pc[r] = "openCert" /\ pc'[r] = "writeCert"
        /\ disk'.cert = Broken /\ UNCHANGED served
     \/ /\ pc[r] = "writeCert" /\ pc'[r] = "serving"
        /\ disk'.cert = issuer[r].cert /\ served' = served \cup {issuer[r].key}

Moves(r) ==
  /\ \A s \in Replicas \ {r} : pc'[s] = pc[s] /\ issuer'[s] = issuer[s]
  /\ \/ Quiet(r) \/ LoadsKey(r) \/ Generates(r) \/ LoadsCertificate(r)
     \/ WritesKey(r) \/ WritesCertificate(r)

LEMMA ReplicaMoves ==
  ASSUME ProcessTypeOK, NEW r \in Replicas, main(r) \/ Crash(r)
  PROVE  Moves(r)
<1>1. ASSUME NEW l, goto(r, l)
      PROVE  pc'[r] = l /\ \A s \in Replicas \ {r} : pc'[s] = pc[s]
  BY <1>1 DEF goto, ProcessTypeOK
<1>2. ASSUME NEW s \in Replicas \ {r}, NEW row, issuer' = [issuer EXCEPT ![r] = row]
      PROVE  issuer'[s] = issuer[s]
  BY <1>2 DEF ProcessTypeOK
<1>3. ASSUME fatal(r), UNCHANGED disk PROVE Moves(r)
  BY <1>1, <1>2, <1>3 DEF fatal, hold, Moves, Quiet
<1>4. CASE Start(r) \/ CountUsers(r) \/ CreateAdmin(r)
  <2>1. PICK l \in {"count", "create", "loadKey"} : goto(r, l)
    BY <1>4 DEF Start, CountUsers, CreateAdmin
  <2> QED BY <1>1, <1>4, <2>1 DEF Start, CountUsers, CreateAdmin, Moves, Quiet
<1>5. CASE CreateAdminFails(r) \/ Crash(r)
  BY <1>3, <1>5 DEF CreateAdminFails, Crash
<1>6. CASE loadPrivateKey(r)
  <2>1. CASE disk.key \in KeyIds /\ hold(r, disk.key, NULL) /\ goto(r, "loadCert")
             /\ UNCHANGED <<generated, served>>
    <3>1. pc'[r] = "loadCert" /\ \A s \in Replicas \ {r} : pc'[s] = pc[s]
      BY <1>1, <2>1
    <3>2. issuer'[r].key = disk.key /\ \A s \in Replicas \ {r} : issuer'[s] = issuer[s]
      BY <2>1 DEF hold, ProcessTypeOK
    <3> QED BY <1>6, <2>1, <3>1, <3>2 DEF loadPrivateKey, at, Moves, LoadsKey
  <2>2. ASSUME disk.key = Absent, NEW k \in KeyIds, hold(r, k, k), goto(r, "openKey"),
               UNCHANGED served
        PROVE  Moves(r)
    <3>1. pc'[r] = "openKey" /\ \A s \in Replicas \ {r} : pc'[s] = pc[s]
      BY <1>1, <2>2
    <3>2. /\ issuer'[r].key = issuer'[r].cert
          /\ \A s \in Replicas \ {r} : issuer'[s] = issuer[s]
      BY <2>2 DEF hold, ProcessTypeOK
    <3> QED BY <1>6, <2>2, <3>1, <3>2 DEF loadPrivateKey, at, Moves, Generates
  <2> QED BY <1>3, <1>6, <2>1, <2>2 DEF loadPrivateKey
<1>7. CASE loadCertificate(r)
  <2>1. CASE disk.cert \in KeyIds
    <3>1. hold(r, issuer[r].key, disk.cert) /\ serve(r) /\ at(r, "loadCert") /\ UNCHANGED disk
      BY <1>7, <2>1 DEF loadCertificate
    <3>2. pc'[r] = "serving" /\ \A s \in Replicas \ {r} : pc'[s] = pc[s]
      BY <1>1, <3>1 DEF serve
    <3>3. /\ issuer'[r].key = issuer[r].key /\ issuer'[r].cert = disk.cert
          /\ \A s \in Replicas \ {r} : issuer'[s] = issuer[s]
      BY <3>1 DEF hold, ProcessTypeOK
    <3> QED BY <2>1, <3>1, <3>2, <3>3 DEF serve, at, Moves, LoadsCertificate
  <2> QED BY <1>3, <1>7, <2>1 DEF loadCertificate
<1>8. CASE OpenKeyFile(r)
  BY <1>1, <1>8 DEF OpenKeyFile, at, Moves, WritesKey, ProcessTypeOK
<1>9. CASE writePrivateKey(r)
  BY <1>1, <1>9 DEF writePrivateKey, at, Moves, WritesKey, ProcessTypeOK
<1>10. CASE OpenCertFile(r)
  BY <1>1, <1>10 DEF OpenCertFile, at, Moves, WritesCertificate, ProcessTypeOK
<1>11. CASE writeCertificate(r)
  BY <1>1, <1>11 DEF writeCertificate, serve, at, Moves, WritesCertificate, ProcessTypeOK
<1> QED BY <1>4, <1>5, <1>6, <1>7, <1>8, <1>9, <1>10, <1>11 DEF main

-----------------------------------------------------------------------------
(***************************************************************************)
(* One signing key.  The files are safe from two writers when one replica  *)
(* runs, or when the key file was there before the first start; with two   *)
(* replicas and an empty volume both would write theirs.  Then whoever has *)
(* signed has signed with the key that is on disk now, and nobody who has  *)
(* not signed yet can still replace it.                                    *)
(***************************************************************************)
OneReplica    == \A r, s \in Replicas : r = s
KeysProvided  == \A f \in InitialFiles : f.key # Absent
OneKeyWriter  == OneReplica \/ KeysProvided

KeyInv ==
  /\ served \subseteq {disk.key}
  /\ OneReplica \/ disk.key \in KeyIds
  /\ \A r \in Replicas :
       /\ pc[r] \in {"loadCert", "openCert", "writeCert", "serving"} => issuer[r].key = disk.key
       /\ pc[r] \in Writing => OneReplica /\ served = {}

LEMMA KeyStep == ASSUME TypeOK, KeyInv, [Next]_vars PROVE KeyInv'
<1>1. CASE UNCHANGED <<pc, issuer, disk, served>>
  BY <1>1 DEF KeyInv
<1>2. ASSUME NEW r \in Replicas, Moves(r) PROVE KeyInv'
  <2> USE DEF KeyInv, Writing
  <2>1. \A s \in Replicas \ {r} : pc'[s] = pc[s] /\ issuer'[s] = issuer[s]
    BY <1>2 DEF Moves
  <2>2. CASE Quiet(r) \/ LoadsKey(r)
    BY <2>1, <2>2 DEF Quiet, LoadsKey
  <2>3. CASE Generates(r)
    <3>1. OneReplica
      BY <2>3, StartupAssumption DEF Generates
    <3>2. served = {}
      BY <2>3, StartupAssumption DEF Generates, TypeOK
    <3> QED BY <2>1, <2>3, <3>1, <3>2 DEF Generates
  <2>4. CASE LoadsCertificate(r)
    <3>1. \A s \in Replicas \ {r} : pc[s] \notin Writing
      BY <2>4 DEF OneReplica, LoadsCertificate
    <3>2. \A s \in Replicas : pc'[s] \notin Writing
      BY <2>1, <2>4, <3>1 DEF LoadsCertificate
    <3> QED BY <2>1, <2>4, <3>2 DEF LoadsCertificate
  <2>5. CASE WritesKey(r)
    <3>1. OneReplica /\ served = {}
      BY <2>5 DEF WritesKey
    <3> QED BY <2>5, <3>1 DEF WritesKey, OneReplica
  <2>6. CASE WritesCertificate(r)
    <3>1. OneReplica /\ served = {}
      BY <2>6 DEF WritesCertificate
    <3> QED BY <2>6, <3>1 DEF WritesCertificate, OneReplica
  <2> QED BY <1>2, <2>2, <2>3, <2>4, <2>5, <2>6 DEF Moves
<1> QED
  BY <1>1, <1>2, ReplicaMoves
  DEF Next, RegistryStart, RegistryStop, process, vars, TypeOK, ProcessTypeOK

LEMMA KeyInit == ASSUME OneKeyWriter, Init PROVE KeyInv
<1>1. OneReplica \/ disk.key \in KeyIds
  BY StartupAssumption DEF Init, OneKeyWriter, KeysProvided
<1> QED BY <1>1 DEF Init, KeyInv, Writing

\* However often it crashes or is started again, the service signs with one key.
THEOREM OneKeySigns == ASSUME OneKeyWriter PROVE Spec => []OneSigningKey
<1>1. Init => KeyInv
  BY KeyInit
<1>2. TypeOK /\ KeyInv /\ [Next]_vars => KeyInv'
  BY KeyStep
<1>3. KeyInv => OneSigningKey
  BY DEF KeyInv, OneSigningKey
<1> QED BY <1>1, <1>2, <1>3, StartupTypeCorrect, PTL DEF Spec

-----------------------------------------------------------------------------
(***************************************************************************)
(* What the registry trusts.  A certificate that can be read is the one of *)
(* the key beside it, and a registry that has read one has read that; for  *)
(* as long as a replica writes, there is none to be read.                  *)
(***************************************************************************)
PairsProvided == \A f \in InitialFiles : f.key = f.cert

PairInv ==
  /\ disk.cert \in KeyIds => disk.cert = disk.key
  /\ disk.key = Absent => disk.cert = Absent
  /\ registry # NULL => registry \in KeyIds /\ registry = disk.cert
  /\ \A r \in Replicas :
       /\ pc[r] = "serving" => issuer[r].cert = disk.cert /\ disk.cert \in KeyIds
       /\ pc[r] \in Writing => disk.cert \notin KeyIds /\ issuer[r].key = issuer[r].cert

LEMMA PairStep == ASSUME TypeOK, KeyInv, PairInv, [Next]_vars PROVE PairInv'
<1> USE DEF PairInv, Writing
<1>1. CASE UNCHANGED <<pc, issuer, disk>>
  BY <1>1 DEF Next, RegistryStart, RegistryStop, Crash, vars
<1>2. ASSUME NEW r \in Replicas, Moves(r), UNCHANGED registry PROVE PairInv'
  <2>1. \A s \in Replicas \ {r} : pc'[s] = pc[s] /\ issuer'[s] = issuer[s]
    BY <1>2 DEF Moves
  <2>2. CASE Quiet(r) \/ LoadsKey(r)
    BY <1>2, <2>1, <2>2 DEF Quiet, LoadsKey
  <2>3. CASE Generates(r)
    <3>1. disk.cert \notin KeyIds
      BY <2>3, StartupAssumption DEF Generates
    <3> QED BY <1>2, <2>1, <2>3, <3>1 DEF Generates
  <2>4. CASE LoadsCertificate(r)
    BY <1>2, <2>1, <2>4 DEF LoadsCertificate
  <2>5. CASE WritesKey(r) \/ WritesCertificate(r)
    <3>1. /\ \A s \in Replicas : s = r
          /\ issuer[r].key \in KeyIds /\ issuer[r].key = issuer[r].cert
          /\ disk.cert \notin KeyIds /\ registry = NULL
          /\ pc[r] \in {"openCert", "writeCert"} => issuer[r].key = disk.key
      BY <2>5 DEF WritesKey, WritesCertificate, KeyInv, OneReplica, TypeOK
    <3>2. CASE WritesKey(r)
      BY <1>2, <3>1, <3>2, StartupAssumption DEF WritesKey, Broken, Absent
    <3>3. CASE WritesCertificate(r)
      BY <1>2, <3>1, <3>3, StartupAssumption DEF WritesCertificate, Broken, Absent
    <3> QED BY <2>5, <3>2, <3>3
  <2> QED BY <1>2, <2>2, <2>3, <2>4, <2>5 DEF Moves
<1> QED
  BY <1>1, <1>2, ReplicaMoves
  DEF Next, Crash, RegistryStart, RegistryStop, process, vars, TypeOK, ProcessTypeOK

LEMMA PairInit == ASSUME PairsProvided, Init PROVE PairInv
BY StartupAssumption DEF Init, PairsProvided, PairInv, Writing

\* Whenever the registry has read the certificate, it is that of every replica
\* which serves now, and belongs to the key the replica signs with.
THEOREM RegistryTrusts ==
  ASSUME OneKeyWriter, PairsProvided
  PROVE  Spec => []RegistryAcceptsTokens
<1>1. Init => KeyInv /\ PairInv
  BY KeyInit, PairInit
<1>2. TypeOK /\ KeyInv /\ PairInv /\ [Next]_vars => KeyInv' /\ PairInv'
  BY KeyStep, PairStep
<1>3. KeyInv /\ PairInv => RegistryAcceptsTokens
  BY DEF KeyInv, PairInv, RegistryAcceptsTokens
<1> QED BY <1>1, <1>2, <1>3, StartupTypeCorrect, PTL DEF Spec

-----------------------------------------------------------------------------
(***************************************************************************)
(* The tokens that are out.                                                *)
(***************************************************************************)

\* The service below the tokens is the service of Startup.
LEMMA LifetimeNextIsNext == ASSUME [LifetimeNext]_lifetimeVars PROVE [Next]_vars
BY DEF LifetimeNext, lifetimeVars, Process, Decide, Mint, Drop, Administrate, Tick

THEOREM LifetimeImplementsStartup == LifetimeSpec => Spec
<1>1. LifetimeInit => Init
  BY DEF LifetimeInit
<1>2. [LifetimeNext]_lifetimeVars => [Next]_vars
  BY LifetimeNextIsNext
<1> QED BY <1>1, <1>2, PTL DEF LifetimeSpec, Spec

LEMMA HorizonIsFar ==
  /\ Horizon \in Nat /\ Horizon > TTL + MaxDelay
  /\ Horizon > TTL + Leeway + Grace + Grace + MaxDelay
  /\ TTL \in Nat /\ Leeway \in Nat /\ Grace \in Nat /\ MaxDelay \in Nat
BY LifetimeAssumption DEF Horizon

LEMMA Clock ==
  /\ \A a \in Age : later(a) \in Age /\ later(a) =< a + 1
  /\ \A t \in Time : earlier(t) \in Time /\ earlier(t) =< t
BY HorizonIsFar DEF Age, Time, later, earlier

LEMMA MintTyped ==
  ASSUME LifetimeTypeOK, Mint
  PROVE  /\ request \in Request /\ request' = NULL
         /\ token' = [key |-> issuer[request.replica].key,
                      cert |-> issuer[request.replica].cert,
                      nbf |-> -Leeway, exp |-> TTL, age |-> 0]
         /\ token' \in Token /\ token' # NULL
         /\ UNCHANGED <<vars, skew, due, lapse>>
<1>1. request \in Request /\ pc[request.replica] = "serving"
  BY DEF Mint, LifetimeTypeOK
<1>2. issuer[request.replica] \in [key : KeyIds, cert : KeyIds]
  BY <1>1 DEF Request, LifetimeTypeOK, TypeOK
<1>3. -Leeway \in Time /\ TTL \in Time /\ 0 \in Age
  BY HorizonIsFar DEF Time, Age
<1> DEFINE new == [key |-> issuer[request.replica].key, cert |-> issuer[request.replica].cert,
                   nbf |-> -Leeway, exp |-> TTL, age |-> 0]
<1>4. new \in Token
  BY <1>2, <1>3 DEF Token
<1>5. token' = new /\ request' = NULL /\ UNCHANGED <<vars, skew, due, lapse>>
  BY DEF Mint
<1> HIDE DEF new
<1> QED BY <1>1, <1>4, <1>5, NullIsNoToken DEF new

LEMMA TickTyped ==
  ASSUME LifetimeTypeOK, Tick
  PROVE  /\ UNCHANGED <<vars, skew, due>>
         /\ lapse' \in Age /\ (due => lapse' = 0) /\ lapse' =< lapse + 1
         /\ request = NULL => request' = NULL
         /\ request # NULL => /\ request' \in Request /\ request' # NULL
                              /\ request'.replica = request.replica
                              /\ request'.age = request.age + 1
         /\ token = NULL => token' = NULL
         /\ token # NULL => /\ token' \in Token /\ token' # NULL
                            /\ token'.key = token.key /\ token'.cert = token.cert
                            /\ token'.nbf = earlier(token.nbf)
                            /\ token'.exp = earlier(token.exp)
                            /\ token'.age = later(token.age)
<1>1. lapse \in Age /\ lapse' = IF due THEN 0 ELSE later(lapse)
  BY DEF Tick, LifetimeTypeOK
<1>2. lapse' \in Age /\ (due => lapse' = 0) /\ lapse' =< lapse + 1
  BY <1>1, Clock, HorizonIsFar DEF Age
<1>3. ASSUME request # NULL
      PROVE  /\ request' \in Request /\ request' # NULL
             /\ request'.replica = request.replica /\ request'.age = request.age + 1
  <2>1. request \in Request /\ request.age < MaxDelay
    BY <1>3 DEF Tick, LifetimeTypeOK
  <2> DEFINE new == [request EXCEPT !.age = @ + 1]
  <2>2. new \in Request /\ new.replica = request.replica /\ new.age = request.age + 1
    BY <2>1, HorizonIsFar DEF Request
  <2>3. request' = new
    BY <1>3 DEF Tick
  <2> HIDE DEF new
  <2> QED BY <2>2, <2>3, NullIsNoToken
<1>4. ASSUME token # NULL
      PROVE  /\ token' \in Token /\ token' # NULL
             /\ token'.key = token.key /\ token'.cert = token.cert
             /\ token'.nbf = earlier(token.nbf) /\ token'.exp = earlier(token.exp)
             /\ token'.age = later(token.age)
  <2>1. token \in Token
    BY <1>4 DEF LifetimeTypeOK
  <2> DEFINE new == [token EXCEPT !.nbf = earlier(@), !.exp = earlier(@), !.age = later(@)]
  <2>2. /\ new \in Token /\ new.key = token.key /\ new.cert = token.cert
        /\ new.nbf = earlier(token.nbf) /\ new.exp = earlier(token.exp)
        /\ new.age = later(token.age)
    BY <2>1, Clock DEF Token
  <2>3. token' = new
    BY <1>4 DEF Tick
  <2> HIDE DEF new
  <2> QED BY <2>2, <2>3, NullIsNoToken
<1> QED BY <1>2, <1>3, <1>4 DEF Tick

LEMMA DecideTyped ==
  ASSUME LifetimeTypeOK, NEW r \in Replicas, Decide(r)
  PROVE  /\ request' \in Request /\ request' # NULL
         /\ request'.replica = r /\ request'.age = 0 /\ pc[r] = "serving"
         /\ due /\ UNCHANGED <<vars, skew, due, lapse, token>>
<1> DEFINE new == [replica |-> r, age |-> 0]
<1>1. new \in Request /\ new.replica = r /\ new.age = 0
  BY HorizonIsFar DEF Request
<1>2. request' = new /\ pc[r] = "serving" /\ due /\ UNCHANGED <<vars, skew, due, lapse, token>>
  BY DEF Decide
<1> HIDE DEF new
<1> QED BY <1>1, <1>2, NullIsNoToken

LEMMA LifetimeTypeStep ==
  ASSUME LifetimeTypeOK, [LifetimeNext]_lifetimeVars
  PROVE  LifetimeTypeOK'
<1>1. TypeOK'
  BY LifetimeNextIsNext, TypeStep DEF LifetimeTypeOK
<1>2. CASE Process
  <2>1. UNCHANGED <<skew, due, lapse, token>>
    BY <1>2 DEF Process
  <2>2. \/ request' = NULL
        \/ request # NULL /\ request' = request /\ pc'[request.replica] = "serving"
    BY <1>2 DEF Process
  <2> QED BY <1>1, <2>1, <2>2 DEF LifetimeTypeOK
<1>3. ASSUME NEW r \in Replicas, Decide(r) PROVE LifetimeTypeOK'
  BY <1>1, <1>3, DecideTyped DEF LifetimeTypeOK, vars
<1>4. CASE Mint
  BY <1>1, <1>4, MintTyped DEF LifetimeTypeOK, vars
<1>5. CASE Drop
  BY <1>1, <1>5 DEF Drop, LifetimeTypeOK, vars
<1>6. CASE Administrate
  <2>1. 0 \in Age
    BY HorizonIsFar DEF Age
  <2> QED BY <1>1, <1>6, <2>1 DEF Administrate, LifetimeTypeOK, vars
<1>7. CASE Tick
  BY <1>1, <1>7, TickTyped DEF LifetimeTypeOK, vars
<1>8. CASE UNCHANGED lifetimeVars
  BY <1>1, <1>8 DEF LifetimeTypeOK, lifetimeVars, lifetime, vars
<1> QED BY <1>2, <1>3, <1>4, <1>5, <1>6, <1>7, <1>8 DEF LifetimeNext

LEMMA LifetimeInitTyped == ASSUME LifetimeInit PROVE LifetimeTypeOK
<1>1. Horizon \in Age
  BY HorizonIsFar DEF Age
<1>2. due \in BOOLEAN /\ ~due
  BY DEF LifetimeInit
<1> QED BY <1>1, <1>2, InitTyped DEF LifetimeInit, LifetimeTypeOK

\* Requests and tokens keep their types, and every request is at a replica
\* that serves.
THEOREM LifetimeTypeCorrect == LifetimeSpec => []LifetimeTypeOK
BY LifetimeInitTyped, LifetimeTypeStep, PTL DEF LifetimeSpec

(***************************************************************************)
(* How long an access outlives the right to it.  The request was decided   *)
(* while there was a right, so the right has lapsed for no longer than the *)
(* decision is old; and the remaining life of a token and the time since   *)
(* the lapse together never exceed the lifetime and one request.           *)
(***************************************************************************)
LapseInv ==
  /\ request # NULL => lapse =< request.age
  /\ token # NULL => lapse =< MaxDelay + TTL - token.exp

LEMMA LapseStep ==
  ASSUME LifetimeTypeOK, LapseInv, [LifetimeNext]_lifetimeVars
  PROVE  LapseInv'
<1> USE DEF LapseInv
<1>1. lapse \in Age /\ lapse =< Horizon /\ 0 =< lapse /\ lapse \in Int
  BY HorizonIsFar DEF LifetimeTypeOK, Age
<1>2. request # NULL => request.age \in 0..MaxDelay
  BY DEF LifetimeTypeOK, Request
<1>3. token # NULL => token.exp \in Time
  BY DEF LifetimeTypeOK, Token
<1>4. CASE Process \/ Drop \/ UNCHANGED lifetimeVars
  BY <1>4 DEF Process, Drop, lifetimeVars, lifetime
<1>5. ASSUME NEW r \in Replicas, Decide(r) PROVE LapseInv'
  <2>1. lapse = 0
    BY <1>5, DecideTyped DEF LifetimeTypeOK
  <2> QED BY <1>5, <2>1, DecideTyped
<1>6. CASE Mint
  <2>1. request # NULL
    BY <1>6 DEF Mint
  <2>2. token'.exp = TTL /\ request' = NULL /\ lapse' = lapse
    BY <1>6, MintTyped
  <2> QED BY <1>1, <1>2, <2>1, <2>2, HorizonIsFar
<1>7. CASE Administrate
  <2>1. lapse' = 0 /\ UNCHANGED <<request, token>>
    BY <1>7 DEF Administrate
  <2> QED BY <1>1, <1>2, <1>3, <2>1, HorizonIsFar DEF Time
<1>8. CASE Tick
  <2>1. lapse' \in Age /\ lapse' =< lapse + 1 /\ lapse' \in Int
    BY <1>8, TickTyped, HorizonIsFar DEF Age
  <2>2. request' # NULL => request # NULL /\ request'.age = request.age + 1
    BY <1>8, TickTyped
  <2>3. token' # NULL => token # NULL /\ token'.exp = earlier(token.exp)
    BY <1>8, TickTyped
  <2>4. ASSUME token' # NULL PROVE lapse' =< MaxDelay + TTL - token'.exp
    <3>1. token'.exp = earlier(token.exp) /\ token.exp \in Time
      BY <1>3, <2>3, <2>4
    <3>2. CASE token.exp = -Horizon
      BY <2>1, <3>1, <3>2, HorizonIsFar DEF earlier, Age
    <3>3. CASE token.exp # -Horizon
      BY <1>1, <2>1, <2>3, <2>4, <3>1, <3>3, HorizonIsFar DEF earlier, Time
    <3> QED BY <3>2, <3>3
  <2> QED BY <1>1, <1>2, <2>1, <2>2, <2>4
<1> QED BY <1>4, <1>5, <1>6, <1>7, <1>8 DEF LifetimeNext

\* A token outlives the right to it by no more than its lifetime, the duration of
\* one request, the registry's grace and the difference of the clocks, whatever
\* happens meanwhile.
THEOREM AccessEnds == LifetimeSpec => []AccessLapses
<1>1. LifetimeInit => LapseInv
  BY DEF LifetimeInit, LapseInv
<1>2. LifetimeTypeOK /\ LapseInv /\ [LifetimeNext]_lifetimeVars => LapseInv'
  BY LapseStep
<1>3. LifetimeTypeOK /\ LapseInv => AccessLapses
  <2> SUFFICES ASSUME LifetimeTypeOK, LapseInv, token # NULL, Accepts(token)
               PROVE  lapse =< TTL + MaxDelay + Grace - skew
    BY DEF AccessLapses
  <2>1. token.exp \in Int /\ skew \in Int /\ lapse \in Int /\ skew =< token.exp + Grace
    BY LifetimeAssumption, HorizonIsFar DEF LifetimeTypeOK, Token, Time, Age, Accepts
  <2>2. lapse =< MaxDelay + TTL - token.exp
    BY DEF LapseInv
  <2> QED BY <2>1, <2>2, HorizonIsFar
<1> QED BY <1>1, <1>2, <1>3, LifetimeTypeCorrect, PTL DEF LifetimeSpec

(***************************************************************************)
(* How long a token is good.  Once a replica has signed, nobody writes the *)
(* two files any more: whoever would write has not served (KeyInv).  So a  *)
(* token carries the certificate that is on disk now, which is the one a   *)
(* registry has read whenever it was started.                              *)
(***************************************************************************)
ServedInv == \A r \in Replicas : pc[r] = "serving" => served # {}

LEMMA ServedStep == ASSUME TypeOK, ServedInv, [Next]_vars PROVE ServedInv' /\ served \subseteq served'
<1>1. CASE UNCHANGED <<pc, served>>
  BY <1>1 DEF ServedInv
<1>2. ASSUME NEW r \in Replicas, Moves(r) PROVE ServedInv' /\ served \subseteq served'
  BY <1>2
  DEF ServedInv, Moves, Quiet, LoadsKey, Generates, LoadsCertificate, WritesKey,
      WritesCertificate
<1> QED
  BY <1>1, <1>2, ReplicaMoves
  DEF Next, RegistryStart, RegistryStop, process, vars, TypeOK, ProcessTypeOK

LEMMA FilesRest ==
  ASSUME TypeOK, KeyInv, served # {}, [Next]_vars
  PROVE  UNCHANGED disk
<1>1. ASSUME NEW r \in Replicas, Moves(r) PROVE UNCHANGED disk
  BY <1>1
  DEF KeyInv, Writing, Moves, Quiet, LoadsKey, Generates, LoadsCertificate, WritesKey,
      WritesCertificate
<1> QED
  BY <1>1, ReplicaMoves
  DEF Next, RegistryStart, RegistryStop, vars, TypeOK, ProcessTypeOK

LastInv ==
  token # NULL =>
    /\ token.nbf =< -Leeway
    /\ token.age = Horizon \/ token.exp = TTL - token.age
    /\ token.key = disk.key /\ token.cert = disk.cert /\ disk.cert \in KeyIds
    /\ served # {}

LEMMA LastStep ==
  ASSUME LifetimeTypeOK, KeyInv, PairInv, ServedInv, LastInv, [LifetimeNext]_lifetimeVars
  PROVE  LastInv'
<1>1. [Next]_vars /\ TypeOK
  BY LifetimeNextIsNext DEF LifetimeTypeOK
<1>2. served # {} => UNCHANGED disk /\ served' # {}
  BY <1>1, FilesRest, ServedStep
<1>3. CASE UNCHANGED token
  BY <1>2, <1>3 DEF LastInv
<1>4. CASE Mint
  <2> DEFINE i == issuer[request.replica]
  <2>1. request.replica \in Replicas /\ pc[request.replica] = "serving"
    BY <1>4 DEF Mint, LifetimeTypeOK, Request
  <2>2. i.key = disk.key /\ i.cert = disk.cert /\ disk.cert \in KeyIds /\ served # {}
    BY <2>1 DEF KeyInv, PairInv, ServedInv
  <2>3. /\ token'.key = i.key /\ token'.cert = i.cert
        /\ token'.nbf = -Leeway /\ token'.exp = TTL /\ token'.age = 0
        /\ UNCHANGED <<disk, served>>
    BY <1>4, MintTyped DEF vars
  <2> HIDE DEF i
  <2> QED BY <2>2, <2>3, HorizonIsFar DEF LastInv
<1>5. CASE Tick
  <2> SUFFICES ASSUME token' # NULL PROVE LastInv'
    BY DEF LastInv
  <2>1. /\ token # NULL /\ UNCHANGED <<disk, served>>
        /\ token'.key = token.key /\ token'.cert = token.cert
        /\ token'.nbf = earlier(token.nbf) /\ token'.exp = earlier(token.exp)
        /\ token'.age = later(token.age)
    BY <1>5, TickTyped DEF vars
  <2>2. token.nbf \in Time /\ token.exp \in Time /\ token.age \in Age
    BY <2>1 DEF LifetimeTypeOK, Token
  <2>3. token'.nbf =< -Leeway
    BY <2>1, <2>2, Clock, HorizonIsFar DEF LastInv, Time
  <2>4. token'.age = Horizon \/ token'.exp = TTL - token'.age
    <3>1. CASE token.age = Horizon
      BY <2>1, <3>1 DEF later
    <3>2. CASE token.age # Horizon
      <4>1. token.exp = TTL - token.age /\ token.age \in Int /\ token.age < Horizon
        BY <2>1, <2>2, <3>2, HorizonIsFar DEF LastInv, Age
      <4>2. token.exp # -Horizon
        BY <4>1, HorizonIsFar
      <4>3. token'.exp = token.exp - 1 /\ token'.age = token.age + 1
        BY <2>1, <3>2, <4>2 DEF earlier, later
      <4> QED BY <4>1, <4>3, HorizonIsFar
    <3> QED BY <3>1, <3>2
  <2> QED BY <2>1, <2>3, <2>4 DEF LastInv
<1> QED
  BY <1>3, <1>4, <1>5
  DEF LifetimeNext, lifetimeVars, lifetime, Process, Decide, Drop, Administrate

\* From the signature to the end of its lifetime a token is good at a registry
\* that runs, and whose clock is behind by no more than both leeways, through
\* every crash and restart of the auth service and of the registry.
THEOREM TokensStayGood ==
  ASSUME OneKeyWriter, PairsProvided
  PROVE  LifetimeSpec => []TokensLast
<1> DEFINE Inv == KeyInv /\ PairInv /\ ServedInv /\ LastInv
<1>1. LifetimeInit => Inv
  <2> SUFFICES ASSUME LifetimeInit PROVE Inv
    OBVIOUS
  <2>1. ServedInv /\ LastInv
    BY DEF LifetimeInit, Init, ServedInv, LastInv
  <2> QED BY <2>1, KeyInit, PairInit DEF LifetimeInit
<1>2. LifetimeTypeOK /\ Inv /\ [LifetimeNext]_lifetimeVars => Inv'
  <2> SUFFICES ASSUME LifetimeTypeOK, Inv, [LifetimeNext]_lifetimeVars PROVE Inv'
    OBVIOUS
  <2>1. [Next]_vars /\ TypeOK
    BY LifetimeNextIsNext DEF LifetimeTypeOK
  <2> QED BY <2>1, KeyStep, PairStep, ServedStep, LastStep
<1>3. LifetimeTypeOK /\ Inv => TokensLast
  <2> SUFFICES ASSUME LifetimeTypeOK, Inv, token # NULL, registry # NULL,
                      token.age + skew =< TTL + Grace, -(Leeway + Grace) =< skew
               PROVE  Accepts(token)
    BY DEF TokensLast
  <2>1. /\ skew \in Int /\ token.age \in Int /\ token.nbf \in Int
        /\ token.nbf =< -Leeway
        /\ token.age = Horizon \/ token.exp = TTL - token.age
    BY LifetimeAssumption, HorizonIsFar DEF LifetimeTypeOK, Token, Time, Age, LastInv
  <2>2. token.exp = TTL - token.age
    BY <2>1, HorizonIsFar
  <2>3. token.nbf - Grace =< skew /\ skew =< token.exp + Grace
    BY <2>1, <2>2, HorizonIsFar
  <2>4. token.cert = registry /\ token.key = registry
    BY DEF LastInv, PairInv
  <2> QED BY <2>3, <2>4 DEF Accepts
<1> QED BY <1>1, <1>2, <1>3, LifetimeTypeCorrect, PTL DEF LifetimeSpec

-----------------------------------------------------------------------------
(***************************************************************************)
(* The first administrator, with the demo seed running or not.             *)
(***************************************************************************)

\* The service beside the seed is the service of Startup, and the seed writes
\* to the tables only.
LEMMA ProvisionSteps ==
  ASSUME [ProvisionNext]_provisionVars
  PROVE  \/ [Next]_vars /\ UNCHANGED seed
         \/ Seed /\ UNCHANGED service
BY DEF ProvisionNext, provisionVars, vars

LEMMA DemoTyped ==
  /\ DOMAIN DemoUsers = 1..Len(DemoUsers) /\ Len(DemoUsers) \in Nat /\ 1 \in DOMAIN DemoUsers
  /\ \A i \in DOMAIN DemoUsers :
       /\ DemoUsers[i].username \in Usernames /\ DemoUsers[i].password \in Passwords
       /\ DemoUsers[i].action \in Actions
       /\ \A u \in UserIds : ruleFor(u, DemoUsers[i].action) \in RuleRow
<1>1. DOMAIN DemoUsers = 1..Len(DemoUsers) /\ Len(DemoUsers) \in Nat /\ Len(DemoUsers) # 0
  BY ProvisionAssumption
<1>2. ASSUME NEW i \in DOMAIN DemoUsers
      PROVE  DemoUsers[i] \in [username : Usernames, password : Passwords, action : Actions]
  <2>1. \A S : DemoUsers \in Seq(S) => \A j \in 1..Len(DemoUsers) : DemoUsers[j] \in S
    OBVIOUS
  <2> QED BY <1>1, <2>1, ProvisionAssumption
<1>3. ASSUME NEW u \in UserIds, NEW a \in Actions PROVE ruleFor(u, a) \in RuleRow
  BY ProvisionAssumption DEF ruleFor, RuleRow, Kinds
<1> QED BY <1>1, <1>2, <1>3

LEMMA NewUserRow ==
  ASSUME StoreTypeOK, NEW u \in UserIds, NEW name \in Usernames, NEW p \in Passwords,
         NEW admin \in BOOLEAN, CreateUser(u, name, HashPassword(p), admin)
  PROVE  /\ IsUser(u)' /\ ~IsUser(u) /\ GetUserByUsername(name) = {}
         /\ users'[u].username = name /\ users'[u].active /\ users'[u].admin = admin
         /\ \A v \in UserIds \ {u} : users'[v] = users[v]
         /\ UNCHANGED <<tokens, groups, members, rules>>
<1> DEFINE row == [username |-> name, hash |-> HashPassword(p), active |-> TRUE,
                   admin |-> admin]
<1>1. row \in UserRow
  BY DEF UserRow, HashPassword, Hashes, Secrets
<1>2. row.username = name /\ row.active /\ row.admin = admin
  OBVIOUS
<1>3. users' = [users EXCEPT ![u] = row]
  BY DEF CreateUser
<1> HIDE DEF row
<1>4. users'[u] = row /\ \A v \in UserIds \ {u} : users'[v] = users[v]
  BY <1>3 DEF StoreTypeOK
<1> QED BY <1>1, <1>2, <1>4, NullIsNoRow DEF CreateUser, NewUserID, IsUser

\* A step of the seed creates at most one user, without the admin flag, or one
\* rule.
SeedWrites ==
  \/ UNCHANGED tables
  \/ /\ seed.pc = "create"
     /\ \E u \in UserIds : CreateUser(u, demo.username, HashPassword(demo.password), FALSE)
  \/ /\ seed.pc = "rule"
     /\ \E r \in RuleIds : CreateACLRule(r, ruleFor(seed.user, demo.action))

LEMMA SeedStep == ASSUME Seed PROVE SeedWrites
BY DEF Seed, SeedWrites, ListRules, ensureUserGet, ensureUserCreate, ensureRule, EndSeed

LEMMA SeedTablesTyped == ASSUME ProvisionTypeOK, Seed PROVE StoreTypeOK'
<1>1. seed.i \in DOMAIN DemoUsers /\ StoreTypeOK
  BY DEF ProvisionTypeOK, TypeOK
<1>2. CASE UNCHANGED tables
  BY <1>1, <1>2 DEF tables, StoreTypeOK
<1>3. ASSUME NEW u \in UserIds,
             CreateUser(u, demo.username, HashPassword(demo.password), FALSE)
      PROVE  StoreTypeOK'
  <2>1. Write(RuleRow)
    <3>1. demo.username \in Usernames /\ demo.password \in Passwords
      BY <1>1, DemoTyped DEF demo
    <3>2. \E name \in Usernames, p \in Passwords, admin \in BOOLEAN :
            CreateUser(u, name, HashPassword(p), admin)
      BY <1>3, <3>1, Zenon
    <3> QED BY <3>2, Zenon DEF Write, WriteUser
  <2> QED BY <1>1, <2>1, WritesTyped
<1>4. ASSUME NEW r \in RuleIds, seed.pc = "rule",
             CreateACLRule(r, ruleFor(seed.user, demo.action))
      PROVE  StoreTypeOK'
  <2>1. ruleFor(seed.user, demo.action) \in RuleRow
    BY <1>1, <1>4, DemoTyped DEF ProvisionTypeOK, demo
  <2>2. Write(RuleRow)
    BY <1>4, <2>1 DEF Write, WriteRule
  <2> QED BY <1>1, <2>2, WritesTyped
<1> QED BY <1>2, <1>3, <1>4, SeedStep DEF SeedWrites

\* Where a step of the seed leaves the seeding process.
LEMMA SeedMoves ==
  ASSUME ProvisionTypeOK, Seed
  PROVE  /\ seed' \in [pc : {"off", "get", "create", "rule", "done"}, i : DOMAIN DemoUsers,
                       user : UserIds \cup {NULL}, known : SUBSET RuleRow]
         /\ seed'.pc = "rule" => seed'.user \in UserIds
         /\ seed'.pc # "off" => seed.pc # "off" \/ served # {}
<1> DEFINE S == [pc : {"off", "get", "create", "rule", "done"}, i : DOMAIN DemoUsers,
                 user : UserIds \cup {NULL}, known : SUBSET RuleRow]
           L == ListACLRules
<1>1. seed \in S /\ Off \in S /\ L \in SUBSET RuleRow
  BY DemoTyped DEF ProvisionTypeOK, TypeOK, StoreTypeOK, Off, ListACLRules, IsRule
<1>2. CASE ListRules
  <2>1. seed' = [Off EXCEPT !.pc = "get", !.known = L] /\ served # {}
    BY <1>2 DEF ListRules
  <2> HIDE DEF L
  <2> QED BY <1>1, <2>1 DEF Off
<1>3. CASE ensureUserGet
  <2>1. \/ seed' = [seed EXCEPT !.pc = "create"]
        \/ \E u \in UserIds : seed' = [seed EXCEPT !.pc = "rule", !.user = u]
    BY <1>3 DEF ensureUserGet, GetUserByUsername
  <2> QED BY <1>1, <1>3, <2>1 DEF ensureUserGet
<1>4. CASE ensureUserCreate
  <2>1. PICK u \in UserIds : seed' = [seed EXCEPT !.pc = "rule", !.user = u]
    BY <1>4 DEF ensureUserCreate
  <2> QED BY <1>1, <1>4, <2>1 DEF ensureUserCreate
<1>5. CASE ensureRule
  <2>1. seed.pc = "rule" /\ seed.user \in UserIds
    BY <1>5 DEF ensureRule, ProvisionTypeOK
  <2>2. ruleFor(seed.user, demo.action) \in RuleRow
    BY <1>1, <2>1, DemoTyped DEF demo
  <2>3. PICK known \in SUBSET RuleRow : nextUser(known)
    <3>1. seed.known \in SUBSET RuleRow
      BY <1>1
    <3> QED BY <1>5, <2>2, <3>1 DEF ensureRule
  <2>4. CASE seed.i = Len(DemoUsers)
    <3>1. seed' = [Off EXCEPT !.pc = "done"]
      BY <2>3, <2>4 DEF nextUser
    <3> QED BY <1>1, <2>1, <3>1 DEF Off
  <2>5. CASE seed.i # Len(DemoUsers)
    <3>1. seed' = [seed EXCEPT !.pc = "get", !.i = @ + 1, !.user = NULL, !.known = known]
      BY <2>3, <2>5 DEF nextUser
    <3>2. seed.i + 1 \in DOMAIN DemoUsers
      BY <1>1, <2>5, DemoTyped
    <3> QED BY <1>1, <2>1, <3>1, <3>2
  <2> QED BY <2>4, <2>5
<1>6. CASE EndSeed
  BY <1>1, <1>6 DEF EndSeed, Off
<1> QED BY <1>2, <1>3, <1>4, <1>5, <1>6 DEF Seed

LEMMA ProvisionTypeStep ==
  ASSUME ProvisionTypeOK, [ProvisionNext]_provisionVars
  PROVE  ProvisionTypeOK'
<1>1. CASE [Next]_vars /\ UNCHANGED seed
  BY <1>1, TypeStep DEF ProvisionTypeOK
<1>2. CASE Seed /\ UNCHANGED service
  BY <1>2, SeedTablesTyped, SeedMoves DEF ProvisionTypeOK, TypeOK, service, process
<1> QED BY <1>1, <1>2, ProvisionSteps

LEMMA ProvisionInitTyped == ASSUME ProvisionInit PROVE ProvisionTypeOK
<1>1. Off \in [pc : {"off", "get", "create", "rule", "done"}, i : DOMAIN DemoUsers,
               user : UserIds \cup {NULL}, known : SUBSET RuleRow]
  BY DemoTyped DEF Off
<1> QED BY <1>1, InitTyped DEF ProvisionInit, ProvisionTypeOK, Off

\* The service, its files and the seeding process keep their types.
THEOREM ProvisionTypeCorrect == ProvisionSpec => []ProvisionTypeOK
BY ProvisionInitTyped, ProvisionTypeStep, PTL DEF ProvisionSpec

(***************************************************************************)
(* Either nobody is in the table, or the administrator of the bootstrap    *)
(* is, and no other active admin.  A replica that is past EnsureAdmin has  *)
(* found or made it so; whoever tries to insert later, a replica or the    *)
(* seed, fails on the username or adds a user without the flag.            *)
(***************************************************************************)
Bootstrapped ==
  \E u \in UserIds :
    /\ IsActiveAdmin(u) /\ users[u].username = AdminUser
    /\ \A v \in UserIds : IsActiveAdmin(v) => v = u

AdminInv ==
  /\ NoUsers \/ Bootstrapped
  /\ \A r \in Replicas : pc[r] \notin {"down", "count", "create"} => Bootstrapped
  /\ served # {} => Bootstrapped

LEMMA AdminIsThere ==
  ASSUME Bootstrapped
  PROVE  ~NoUsers /\ GetUserByUsername(AdminUser) # {}
BY DEF Bootstrapped, NoUsers, IsActiveAdmin, GetUserByUsername

LEMMA AdminCount == ASSUME AdminInv PROVE OneBootstrapAdmin
<1> SUFFICES ASSUME served # {} PROVE CountActiveAdmins = 1
  BY DEF OneBootstrapAdmin
<1>1. PICK u \in UserIds : ActiveAdmins = {u}
  BY DEF AdminInv, Bootstrapped, ActiveAdmins
<1> QED BY <1>1, FS_Singleton DEF CountActiveAdmins

LEMMA AdminStep == ASSUME TypeOK, AdminInv, [Next]_vars PROVE AdminInv'
<1>1. CASE UNCHANGED <<pc, served, users>>
  BY <1>1 DEF AdminInv, NoUsers, Bootstrapped, IsActiveAdmin, IsUser
<1>2. ASSUME NEW r \in Replicas, CreateAdmin(r) PROVE AdminInv'
  <2>1. PICK u \in UserIds : CreateUser(u, AdminUser, HashPassword(AdminPassword), TRUE)
    BY <1>2 DEF CreateAdmin
  <2>2. /\ users'[u].username = AdminUser /\ users'[u].active /\ users'[u].admin
        /\ IsUser(u)' /\ GetUserByUsername(AdminUser) = {}
        /\ \A v \in UserIds \ {u} : users'[v] = users[v]
    BY <2>1, NewUserRow, StartupAssumption DEF TypeOK
  <2>3. NoUsers
    BY <2>2, AdminIsThere DEF AdminInv
  <2> QED
    BY <2>2, <2>3 DEF AdminInv, Bootstrapped, IsActiveAdmin, IsUser, NoUsers
<1>3. ASSUME NEW r \in Replicas, main(r) \/ Crash(r), ~CreateAdmin(r) PROVE AdminInv'
  <2>1. UNCHANGED users
    BY <1>3 DEF tables, main, Start, CountUsers, CreateAdminFails, loadPrivateKey, loadCertificate,
          OpenKeyFile, writePrivateKey, OpenCertFile, writeCertificate, Crash
  <2>2. (Bootstrapped' <=> Bootstrapped) /\ (NoUsers' <=> NoUsers)
    BY <2>1 DEF Bootstrapped, NoUsers, IsActiveAdmin, IsUser
  <2>3. Moves(r)
    BY <1>3, ReplicaMoves DEF TypeOK, ProcessTypeOK
  <2>4. pc[r] \in {"down", "count", "create"} /\ pc'[r] \notin {"down", "count", "create"}
          => ~NoUsers
    BY <1>3 DEF main, Start, CountUsers, CreateAdminFails, loadPrivateKey, loadCertificate,
          OpenKeyFile, writePrivateKey, OpenCertFile, writeCertificate, Crash, fatal, goto,
          at, TypeOK
  <2>5. served' # served => pc[r] \notin {"down", "count", "create"}
    BY <2>3 DEF Moves, Quiet, LoadsKey, Generates, LoadsCertificate, WritesKey,
          WritesCertificate
  <2>6. \A s \in Replicas \ {r} : pc'[s] = pc[s]
    BY <2>3 DEF Moves
  <2> QED BY <2>2, <2>4, <2>5, <2>6 DEF AdminInv
<1> QED
  BY <1>1, <1>2, <1>3 DEF Next, RegistryStart, RegistryStop, process, vars, tables

LEMMA AdminInit == ASSUME Init PROVE AdminInv
BY DEF Init, EmptyDatabase, AdminInv, NoUsers, IsUser

LEMMA SeedKeepsAdmin ==
  ASSUME ProvisionTypeOK, AdminInv, Seed, UNCHANGED service,
         seed.pc # "off" => served # {}
  PROVE  AdminInv'
<1>1. ASSUME UNCHANGED users PROVE AdminInv'
  BY <1>1 DEF service, process, AdminInv, NoUsers, Bootstrapped, IsActiveAdmin, IsUser
<1>2. ASSUME NEW u \in UserIds, seed.pc = "create",
             CreateUser(u, demo.username, HashPassword(demo.password), FALSE)
      PROVE  AdminInv'
  <2>1. demo.username \in Usernames /\ demo.password \in Passwords
    BY DemoTyped DEF ProvisionTypeOK, demo
  <2>2. ~IsUser(u) /\ ~users'[u].admin /\ \A v \in UserIds \ {u} : users'[v] = users[v]
    BY <1>2, <2>1, NewUserRow DEF ProvisionTypeOK, TypeOK
  <2>3. Bootstrapped
    BY <1>2 DEF AdminInv
  <2>4. Bootstrapped'
    BY <2>2, <2>3 DEF Bootstrapped, IsActiveAdmin, IsUser
  <2> QED BY <2>4 DEF AdminInv
<1> QED BY <1>1, <1>2, SeedStep DEF SeedWrites, tables, CreateACLRule

\* However many replicas start for the first time at once, whoever crashes and
\* whatever the seed adds: once one has served there is one active administrator.
THEOREM OneAdminBootstrapped ==
  /\ Spec => []OneBootstrapAdmin
  /\ ProvisionSpec => []OneBootstrapAdmin
<1>1. AdminInv => OneBootstrapAdmin
  BY AdminCount
<1>2. Spec => []OneBootstrapAdmin
  <2>1. Init => AdminInv
    BY AdminInit
  <2>2. TypeOK /\ AdminInv /\ [Next]_vars => AdminInv'
    BY AdminStep
  <2> QED BY <1>1, <2>1, <2>2, StartupTypeCorrect, PTL DEF Spec
<1>3. ProvisionSpec => []OneBootstrapAdmin
  <2> DEFINE Inv == AdminInv /\ ServedInv /\ (seed.pc # "off" => served # {})
  <2>1. ProvisionInit => Inv
    BY AdminInit DEF ProvisionInit, Off, ServedInv, Init
  <2>2. ProvisionTypeOK /\ Inv /\ [ProvisionNext]_provisionVars => Inv'
    <3> SUFFICES ASSUME ProvisionTypeOK, Inv, [ProvisionNext]_provisionVars PROVE Inv'
      OBVIOUS
    <3>1. CASE [Next]_vars /\ UNCHANGED seed
      BY <3>1, AdminStep, ServedStep DEF ProvisionTypeOK
    <3>2. CASE Seed /\ UNCHANGED service
      <4>1. AdminInv'
        BY <3>2, SeedKeepsAdmin
      <4>2. UNCHANGED <<pc, served>> /\ (seed'.pc # "off" => seed.pc # "off" \/ served # {})
        BY <3>2, SeedMoves DEF service, process
      <4> QED BY <4>1, <4>2 DEF ServedInv
    <3> QED BY <3>1, <3>2, ProvisionSteps
  <2>3. Inv => OneBootstrapAdmin
    BY <1>1
  <2> QED BY <2>1, <2>2, <2>3, ProvisionTypeCorrect, PTL DEF ProvisionSpec
<1> QED BY <1>2, <1>3

(***************************************************************************)
(* What a seeding leaves behind.  Rows are only added while it runs, so a  *)
(* user or a rule that is found stays; the rules it knows of are exactly   *)
(* those in the table, for nobody else writes rules, and so it never adds  *)
(* one twice, in whatever state an aborted seeding has left the tables.    *)
(***************************************************************************)
DemoIsNotAdmin == \A i \in DOMAIN DemoUsers : DemoUsers[i].username # AdminUser

DistinctRules == \A r, s \in RuleIds : IsRule(r) /\ rules[r] = rules[s] => r = s

PlainUsers ==
  \A u \in UserIds :
    IsUser(u) /\ users[u].username # AdminUser => users[u].active /\ ~users[u].admin

Seeded(i) ==
  \E u \in GetUserByUsername(DemoUsers[i].username) :
    /\ users[u].active /\ ~users[u].admin
    /\ ruleFor(u, DemoUsers[i].action) \in ListACLRules

SeedInv ==
  /\ DistinctRules /\ PlainUsers
  /\ seed.pc \in {"get", "create", "rule"} =>
       /\ seed.known = ListACLRules
       /\ \A i \in DOMAIN DemoUsers : i < seed.i => Seeded(i)
  /\ seed.pc = "rule" => seed.user \in GetUserByUsername(demo.username)
  /\ seed.pc = "done" => \A i \in DOMAIN DemoUsers : Seeded(i)

\* Rows are added and never changed.
RowsKept ==
  /\ \A u \in UserIds : IsUser(u) => IsUser(u)' /\ users'[u] = users[u]
  /\ ListACLRules \subseteq ListACLRules'

LEMMA SeededStays == ASSUME NEW i, Seeded(i), RowsKept PROVE Seeded(i)'
BY DEF Seeded, RowsKept, GetUserByUsername

LEMMA ServiceKeepsRows ==
  ASSUME TypeOK, DistinctRules, PlainUsers, [Next]_vars
  PROVE  /\ RowsKept /\ DistinctRules' /\ PlainUsers'
         /\ UNCHANGED ListACLRules
<1>1. CASE UNCHANGED tables
  BY <1>1 DEF tables, RowsKept, DistinctRules, PlainUsers, ListACLRules, IsUser, IsRule
<1>2. ASSUME NEW u \in UserIds,
             CreateUser(u, AdminUser, HashPassword(AdminPassword), TRUE)
      PROVE  /\ RowsKept /\ DistinctRules' /\ PlainUsers'
             /\ UNCHANGED ListACLRules
  <2>1. /\ users'[u].username = AdminUser /\ ~IsUser(u)
        /\ \A v \in UserIds \ {u} : users'[v] = users[v]
        /\ UNCHANGED rules
    BY <1>2, NewUserRow, StartupAssumption DEF TypeOK
  <2> QED
    BY <2>1 DEF RowsKept, DistinctRules, PlainUsers, ListACLRules, IsUser, IsRule
<1> QED BY <1>1, <1>2, TablesStep DEF CreateAdmin

LEMMA SeedCreatesUser ==
  ASSUME ProvisionTypeOK, DemoIsNotAdmin, SeedInv, ensureUserCreate
  PROVE  SeedInv'
<1>1. PICK u \in UserIds :
        /\ CreateUser(u, demo.username, HashPassword(demo.password), FALSE)
        /\ seed' = [seed EXCEPT !.pc = "rule", !.user = u]
  BY DEF ensureUserCreate
<1>2. /\ demo.username \in Usernames /\ demo.password \in Passwords
      /\ demo.username # AdminUser
  BY DemoTyped DEF ProvisionTypeOK, demo, DemoIsNotAdmin
<1>3. /\ IsUser(u)' /\ ~IsUser(u)
      /\ users'[u].username = demo.username /\ users'[u].active /\ ~users'[u].admin
      /\ \A v \in UserIds \ {u} : users'[v] = users[v]
      /\ UNCHANGED rules
  BY <1>1, <1>2, NewUserRow DEF ProvisionTypeOK, TypeOK
<1>4. /\ seed.pc = "create" /\ seed'.pc = "rule" /\ seed'.i = seed.i
      /\ seed'.user = u /\ seed'.known = seed.known
  BY <1>1 DEF ensureUserCreate, ProvisionTypeOK
<1>5. RowsKept /\ DistinctRules' /\ PlainUsers' /\ UNCHANGED ListACLRules
  BY <1>3 DEF SeedInv, RowsKept, DistinctRules, PlainUsers, ListACLRules, IsUser, IsRule
<1>6. u \in GetUserByUsername(demo.username)'
  BY <1>3, <1>4 DEF GetUserByUsername, demo
<1>7. \A i \in DOMAIN DemoUsers : i < seed.i => Seeded(i)'
  BY <1>4, <1>5, SeededStays DEF SeedInv
<1> QED BY <1>4, <1>5, <1>6, <1>7 DEF SeedInv

LEMMA SeedCreatesRule ==
  ASSUME ProvisionTypeOK, DemoIsNotAdmin, SeedInv, ensureRule
  PROVE  SeedInv'
<1> DEFINE rule == ruleFor(seed.user, demo.action)
           known == seed.known \cup {rule}
<1>1. /\ seed.pc = "rule" /\ seed.i \in DOMAIN DemoUsers /\ seed.i \in Nat
      /\ seed.known = ListACLRules
  BY DemoTyped DEF ensureRule, SeedInv, ProvisionTypeOK
<1>2. rule \in RuleRow
  BY <1>1, DemoTyped DEF ProvisionTypeOK, demo
<1>3. /\ UNCHANGED users /\ nextUser(known) /\ ListACLRules' = known
      /\ DistinctRules'
  <2>1. CASE rule \in seed.known
    <3>1. known = seed.known
      BY <2>1
    <3>2. UNCHANGED tables /\ nextUser(known)
      BY <2>1, <3>1 DEF ensureRule
    <3> QED BY <1>1, <3>1, <3>2 DEF tables, ListACLRules, SeedInv, DistinctRules, IsRule
  <2>2. CASE rule \notin seed.known
    <3>1. PICK r \in RuleIds : CreateACLRule(r, rule) /\ nextUser(known)
      BY <2>2 DEF ensureRule
    <3> HIDE DEF rule
    <3>2. /\ rules'[r] = rule /\ ~IsRule(r) /\ rule # NULL
          /\ \A s \in RuleIds \ {r} : rules'[s] = rules[s]
          /\ UNCHANGED users
      BY <1>2, <3>1, StoreAssumption DEF CreateACLRule, ProvisionTypeOK, TypeOK, StoreTypeOK
    <3>3. ListACLRules' = ListACLRules \cup {rule}
      BY <3>2 DEF ListACLRules, IsRule
    <3>4. \A s \in RuleIds : IsRule(s) => rules[s] # rule
      BY <1>1, <2>2 DEF ListACLRules
    <3>5. DistinctRules'
      BY <3>2, <3>4 DEF SeedInv, DistinctRules, IsRule
    <3> QED BY <1>1, <3>1, <3>2, <3>3, <3>5
  <2> QED BY <2>1, <2>2
<1>4. RowsKept /\ PlainUsers'
  BY <1>1, <1>3 DEF SeedInv, RowsKept, PlainUsers, IsUser
<1>5. \A i \in DOMAIN DemoUsers : i =< seed.i => Seeded(i)'
  <2>1. \A i \in DOMAIN DemoUsers : i < seed.i => Seeded(i)'
    BY <1>1, <1>4, SeededStays DEF SeedInv
  <2>2. /\ seed.user \in GetUserByUsername(DemoUsers[seed.i].username)
        /\ users[seed.user].active /\ ~users[seed.user].admin
    BY <1>1 DEF SeedInv, demo, GetUserByUsername, PlainUsers, DemoIsNotAdmin
  <2>3. rule \in ListACLRules' /\ rule = ruleFor(seed.user, DemoUsers[seed.i].action)
    BY <1>3 DEF demo
  <2>4. ASSUME NEW i \in DOMAIN DemoUsers, i = seed.i PROVE Seeded(i)'
    <3>1. /\ seed.user \in GetUserByUsername(DemoUsers[i].username)'
          /\ users'[seed.user].active /\ ~users'[seed.user].admin
      BY <1>3, <2>2, <2>4 DEF GetUserByUsername, IsUser
    <3>2. ruleFor(seed.user, DemoUsers[i].action) \in ListACLRules'
      BY <2>3, <2>4
    <3> QED BY <3>1, <3>2 DEF Seeded
  <2> QED BY <1>1, <2>1, <2>4, DemoTyped
<1> HIDE DEF known
<1>6. CASE seed.i = Len(DemoUsers)
  <2>1. seed'.pc = "done"
    BY <1>3, <1>6 DEF nextUser, Off
  <2>2. \A i \in DOMAIN DemoUsers : Seeded(i)'
    BY <1>5, <1>6, DemoTyped
  <2> QED BY <1>3, <1>4, <2>1, <2>2 DEF SeedInv
<1>7. CASE seed.i # Len(DemoUsers)
  <2>1. seed'.pc = "get" /\ seed'.i = seed.i + 1 /\ seed'.known = known
    BY <1>3, <1>7 DEF nextUser, ProvisionTypeOK
  <2>2. \A i \in DOMAIN DemoUsers : i < seed.i + 1 => Seeded(i)'
    BY <1>1, <1>5, DemoTyped
  <2> QED BY <1>3, <1>4, <2>1, <2>2 DEF SeedInv
<1> QED BY <1>6, <1>7

LEMMA SeedLooks ==
  ASSUME ProvisionTypeOK, SeedInv, ListRules \/ ensureUserGet \/ EndSeed
  PROVE  SeedInv'
<1> DEFINE L == ListACLRules
<1>1. UNCHANGED <<users, rules>>
  BY DEF ListRules, ensureUserGet, EndSeed, tables
<1>2. DistinctRules' /\ PlainUsers' /\ UNCHANGED L /\ \A i : Seeded(i) => Seeded(i)'
  BY <1>1
  DEF SeedInv, DistinctRules, PlainUsers, ListACLRules, Seeded, GetUserByUsername, IsUser,
      IsRule
<1>3. CASE ListRules
  <2> HIDE DEF L
  <2>1. seed' = [Off EXCEPT !.pc = "get", !.known = L]
    BY <1>3 DEF ListRules, L
  <2>2. seed'.pc = "get" /\ seed'.i = 1 /\ seed'.known = L
    BY <2>1 DEF Off
  <2>3. \A i \in DOMAIN DemoUsers : ~(i < 1)
    BY DemoTyped
  <2> QED BY <1>2, <2>2, <2>3 DEF SeedInv, L
<1>4. CASE ensureUserGet
  <2>1. CASE seed' = [seed EXCEPT !.pc = "create"]
    <3>1. seed.pc = "get" /\ seed'.pc = "create" /\ seed'.i = seed.i /\ seed'.known = seed.known
      BY <1>4, <2>1 DEF ensureUserGet, ProvisionTypeOK
    <3> QED BY <1>2, <3>1 DEF SeedInv
  <2>2. ASSUME NEW u \in GetUserByUsername(demo.username),
               seed' = [seed EXCEPT !.pc = "rule", !.user = u]
        PROVE  SeedInv'
    <3>1. /\ seed.pc = "get" /\ seed'.pc = "rule" /\ seed'.i = seed.i
          /\ seed'.known = seed.known /\ seed'.user = u
      BY <1>4, <2>2 DEF ensureUserGet, ProvisionTypeOK
    <3>2. u \in GetUserByUsername(demo.username)'
      BY <1>1, <2>2, <3>1 DEF GetUserByUsername, IsUser, demo
    <3> QED BY <1>2, <3>1, <3>2 DEF SeedInv
  <2> QED BY <1>4, <2>1, <2>2 DEF ensureUserGet
<1>5. CASE EndSeed
  <2>1. seed'.pc = "off"
    BY <1>5 DEF EndSeed, Off
  <2> QED BY <1>2, <2>1 DEF SeedInv
<1> QED BY <1>3, <1>4, <1>5

LEMMA SeedInvStep ==
  ASSUME ProvisionTypeOK, DemoIsNotAdmin, SeedInv, [ProvisionNext]_provisionVars
  PROVE  SeedInv'
<1>1. CASE [Next]_vars /\ UNCHANGED seed
  <2>1. RowsKept /\ DistinctRules' /\ PlainUsers' /\ UNCHANGED ListACLRules
    BY <1>1, ServiceKeepsRows DEF ProvisionTypeOK, SeedInv
  <2>2. \A i \in DOMAIN DemoUsers : Seeded(i) => Seeded(i)'
    BY <2>1, SeededStays
  <2>3. \A u \in GetUserByUsername(demo.username) : u \in GetUserByUsername(demo.username)'
    BY <1>1, <2>1 DEF RowsKept, GetUserByUsername, demo
  <2> QED BY <1>1, <2>1, <2>2, <2>3 DEF SeedInv
<1>2. CASE Seed
  BY <1>2, SeedLooks, SeedCreatesUser, SeedCreatesRule DEF Seed
<1> QED BY <1>1, <1>2, ProvisionSteps

\* However often the seeding is aborted and run again, while the service starts
\* and crashes beside it: no rule is there twice, and one that comes to its end
\* leaves every demo user in place, active and without the admin flag, with its rule.
THEOREM SeedingIsRepeatable ==
  ASSUME DemoIsNotAdmin
  PROVE  ProvisionSpec => []SeedsOnce
<1>1. ProvisionInit => SeedInv
  BY DEF ProvisionInit, Init, EmptyDatabase, SeedInv, DistinctRules, PlainUsers, IsUser,
         IsRule, Off
<1>2. ProvisionTypeOK /\ SeedInv /\ [ProvisionNext]_provisionVars => SeedInv'
  BY SeedInvStep
<1>3. SeedInv => SeedsOnce
  BY DEF SeedInv, SeedsOnce, DistinctRules, Seeded
<1> QED BY <1>1, <1>2, <1>3, ProvisionTypeCorrect, PTL DEF ProvisionSpec
=============================================================================
