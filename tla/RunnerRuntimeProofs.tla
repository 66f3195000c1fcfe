------------------------ MODULE RunnerRuntimeProofs ------------------------
(***************************************************************************)
(* Proofs about RunnerRuntime for any number of rotations, rejections and  *)
(* faults: the credential on the auth volume, the account of registrations, *)
(* the order of the stores that two loops interleave, why the poll loop    *)
(* ends, which heartbeat can overwrite a degraded report, and that the     *)
(* runner keeps the promise of RunnerIdentity.                             *)
(***************************************************************************)
EXTENDS RunnerRuntime, SequenceTheorems, TLAPS

(* The inductive invariant. *)

\* Which credential a process in each phase holds, and that the loops have no
\* bootstrap token.
Credentials ==
    /\ main = "auth" => cfgAuth = 0 \/ cfgAuth = authFile
    /\ main = "token" => cfgAuth # 0
    /\ main \in {"fingerprint", "heartbeat", "serve"} => cfgAuth # 0 /\ authFile = cfgAuth
    /\ main \in {"heartbeat", "serve"} => cfgReg = 0
    /\ main = "serve" => pollReg = 0 /\ pollAuth = cfgAuth

\* A further registration is paid for.
Paid == Len(srvTok) <= (srvBoot - 1) + revocations + faults

\* The last credential granted is not rejected.
LastIsGood == Len(srvTok) > 0 /\ srvTok[Len(srvTok)] \in {"issued", "stale"}

\* A registration is paid for, or none is needed: the last credential is on its
\* way to the auth volume, or is there, under the fingerprint of the current
\* bootstrap token.
Accounts ==
    /\ RegistrationsAccounted
    /\ fpFile <= secret
    /\ cfgReg <= secret /\ bootTok <= secret
    /\ main = "auth" /\ cfgAuth = 0 /\ cfgReg = srvBoot => Paid
    /\ \/ Paid
       \/ LastIsGood /\ main = "token" /\ cfgAuth = Len(srvTok) /\ cfgReg = srvBoot
       \/ LastIsGood /\ main = "fingerprint" /\ authFile = Len(srvTok) /\ cfgReg = srvBoot
       \/ LastIsGood /\ authFile = Len(srvTok) /\ secret = srvBoot
          /\ fpFile \in {0, srvBoot} /\ main \notin {"token", "fingerprint"}

IInv == TypeOK /\ Credentials /\ Accounts

-----------------------------------------------------------------------------
(* Lemmas on the operators of the model. *)

\* Every list of stores that a goroutine queues consists of stores.
LEMMA StoresTyped ==
    /\ \A b \in BOOLEAN : HealthSet(b) \in Seq(StoreType)
    /\ HealthSetDegraded \in Seq(StoreType)
    /\ MarkStale \in Seq(StoreType)
    /\ StateSetDegraded \o HealthSetDegraded \in Seq(StoreType)
<1>1. /\ <<"hOnline", TRUE>> \in StoreType /\ <<"hOnline", FALSE>> \in StoreType
      /\ <<"hDegraded", TRUE>> \in StoreType /\ <<"hDegraded", FALSE>> \in StoreType
      /\ <<"status", "degraded">> \in StoreType /\ <<"stale", TRUE>> \in StoreType
      /\ <<"hStale", TRUE>> \in StoreType
  BY DEF StoreType
<1>2. \A b \in BOOLEAN : HealthSet(b) \in Seq(StoreType)
  BY <1>1 DEF HealthSet
<1>3. HealthSetDegraded \in Seq(StoreType) /\ StateSetDegraded \in Seq(StoreType)
  BY <1>1 DEF HealthSetDegraded, StateSetDegraded
<1>4. MarkStale \in Seq(StoreType)
  BY <1>1 DEF MarkStale
<1>5. StateSetDegraded \o HealthSetDegraded \in Seq(StoreType)
  BY <1>3, ConcatProperties
<1> QED
  BY <1>2, <1>3, <1>4, <1>5

\* A store changes one field of the shared atomics, to a value of its type.
LEMMA StoreTyped ==
    ASSUME NEW m \in MemType, NEW s \in StoreType
    PROVE  [m EXCEPT ![s[1]] = s[2]] \in MemType
<1>1. CASE s \in {"status"} \X {"online", "degraded"}
  <2>1. s[1] = "status" /\ s[2] \in {"online", "degraded"}
    BY <1>1
  <2> QED
    BY <2>1 DEF MemType
<1>2. CASE s \in {"stale", "hOnline", "hDegraded", "hStale"} \X BOOLEAN
  <2>1. s[1] \in {"stale", "hOnline", "hDegraded", "hStale"} /\ s[2] \in BOOLEAN
    BY <1>2
  <2>2. CASE s[1] = "stale"
    BY <2>1, <2>2 DEF MemType
  <2>3. CASE s[1] = "hOnline"
    BY <2>1, <2>3 DEF MemType
  <2>4. CASE s[1] = "hDegraded"
    BY <2>1, <2>4 DEF MemType
  <2>5. CASE s[1] = "hStale"
    BY <2>1, <2>5 DEF MemType
  <2> QED
    BY <2>1, <2>2, <2>3, <2>4, <2>5
<1> QED
  BY <1>1, <1>2 DEF StoreType

\* Changing verdicts without adding a token keeps the length of the list.
LEMMA Relabel ==
    ASSUME NEW s \in Seq(Verdicts), NEW v \in Verdicts
    PROVE  LET t == [i \in DOMAIN s |-> IF s[i] = "issued" THEN v ELSE s[i]]
           IN  t \in Seq(Verdicts) /\ Len(t) = Len(s)
<1>1. /\ Len(s) \in Nat /\ DOMAIN s = 1..Len(s)
      /\ \A i \in 1..Len(s) : s[i] \in Verdicts
  BY LenProperties, ElementOfSeq
<1> DEFINE t == [i \in 1..Len(s) |-> IF s[i] = "issued" THEN v ELSE s[i]]
<1>2. t \in [1..Len(s) -> Verdicts]
  BY <1>1
<1>3. t \in Seq(Verdicts)
  BY <1>1, <1>2, SeqDef
<1>4. Len(t) = Len(s)
  BY <1>1, <1>3, LenProperties
<1> QED
  BY <1>1, <1>3, <1>4

\* A registration grants one token more, and the control plane accepts it.
LEMMA IssueGrants ==
    ASSUME srvTok \in Seq(Verdicts), Issue
    PROVE  /\ srvTok' \in Seq(Verdicts)
           /\ Len(srvTok') = Len(srvTok) + 1
           /\ srvTok'[Len(srvTok')] = "issued"
<1> DEFINE t == [i \in DOMAIN srvTok |-> IF srvTok[i] = "issued" THEN "unissued" ELSE srvTok[i]]
<1>1. t \in Seq(Verdicts) /\ Len(t) = Len(srvTok)
  BY Relabel DEF Verdicts
<1>2. srvTok' = Append(t, "issued")
  BY DEF Issue
<1> HIDE DEF t
<1> QED
  BY <1>1, <1>2 DEF Verdicts

-----------------------------------------------------------------------------
(* The type invariant. *)

\* The only step that changes the shared atomics while both loops run.
LEMMA StoreKeepsType ==
    ASSUME TypeOK, NEW g \in Goroutines, Store(g)
    PROVE  TypeOK'
<1>1. pend[g] \in Seq(StoreType) /\ pend[g] # <<>>
  BY DEF TypeOK, Store
<1>2. Head(pend[g]) \in StoreType /\ Tail(pend[g]) \in Seq(StoreType)
  BY <1>1, HeadTailProperties
<1>3. mem' \in MemType
  BY <1>2, StoreTyped DEF TypeOK, Store
<1>4. pend' \in [Goroutines -> Seq(StoreType)]
  BY <1>2 DEF TypeOK, Store
<1> QED
  BY <1>3, <1>4 DEF TypeOK, Store, disk, server, mainVars, hbVars, pollVars, budget

\* A halted process has its volatile state in its type.
LEMMA HaltedTyped ==
    ASSUME Halted
    PROVE  /\ main' = "down" /\ cfgAuth' = 0 /\ cfgReg' = 0 /\ bootTok' = 0 /\ retried' = FALSE
           /\ hb' = "tick" /\ hbStatus' = "online"
           /\ poll' = "none" /\ pollAuth' = 0 /\ pollReg' = 0
           /\ mem' \in MemType /\ pend' \in [Goroutines -> Seq(StoreType)]
<1>1. <<>> \in Seq(StoreType)
  BY EmptySeq
<1>2. FreshMem \in MemType
  BY DEF FreshMem, MemType
<1> QED
  BY <1>1, <1>2 DEF Halted

\* The marking of a stale identity before the loops run keeps the type.
LEMMA StaleMemTyped == StaleMem \in MemType
  BY DEF StaleMem, MemType

\* Every step keeps every variable in its type.
LEMMA TypeStep ==
    ASSUME TypeOK, Credentials, [Next]_vars
    PROVE  TypeOK'
<1> USE BoundsAssumption DEF TypeOK
<1>1. CASE Rotate
  <2>1. srvTok' \in Seq(Verdicts) /\ Len(srvTok') = Len(srvTok)
    <3>1. CASE UNCHANGED srvTok
      BY <3>1
    <3>2. CASE srvTok' = [t \in DOMAIN srvTok |-> IF srvTok[t] = "issued" THEN "stale" ELSE srvTok[t]]
      <4>1. "stale" \in Verdicts
        BY DEF Verdicts
      <4> QED
        BY <3>2, <4>1, Relabel
    <3> QED
      BY <1>1, <3>1, <3>2 DEF Rotate
  <2> QED
    BY <1>1, <2>1, SMTT(30) DEF Rotate, disk, mainVars, hbVars, pollVars, shared, budget
<1>2. CASE Rollout
  BY <1>2, HaltedTyped DEF Rollout, Fault, InRegistration, disk, server, mainVars, hbVars, pollVars, shared, budget
<1>3. CASE ApiChange
  BY <1>3 DEF ApiChange, disk, server, mainVars, hbVars, pollVars, shared, budget
<1>4. CASE Crash
  BY <1>4, HaltedTyped DEF Crash, Fault, InRegistration, disk, server, mainVars, hbVars, pollVars, shared, budget
<1>5. CASE Start
  BY <1>5 DEF Start, AdoptFingerprint, registrationTokenChanged, Fault, disk, server, mainVars, hbVars, pollVars, shared, budget
<1>6. CASE UseToken
  BY <1>6 DEF UseToken, disk, server, mainVars, hbVars, pollVars, shared, budget
<1>7. CASE Register
  <2>1. srvTok' \in Seq(Verdicts) /\ Len(srvTok') = Len(srvTok) + 1
    BY <1>7, IssueGrants DEF Register
  <2>2. CASE Exit /\ Fault
    BY <1>7, <2>1, <2>2, HaltedTyped DEF Register, Exit, Fault, disk
  <2>3. CASE main' = "token" /\ cfgAuth' = Len(srvTok')
             /\ UNCHANGED <<cfgReg, bootTok, retried, hbVars, pollVars, shared, faults>>
    BY <1>7, <2>1, <2>3 DEF Register, disk, hbVars, pollVars, shared
  <2> QED
    BY <1>7, <2>2, <2>3 DEF Register
<1>8. CASE RegisterStale
  BY <1>8, StaleMemTyped DEF RegisterStale, Block, disk, server, mainVars, hbVars, pollVars, shared, budget
<1>9. CASE RegisterFails
  BY <1>9, HaltedTyped DEF RegisterFails, Exit, disk, server, mainVars, hbVars, pollVars, shared, budget
<1>10. CASE PersistToken
  <2>1. CASE authFile' \in {0, authFile} /\ Exit /\ Fault
    BY <1>10, <2>1, HaltedTyped DEF PersistToken, Exit, Fault, server
  <2>2. CASE authFile' = cfgAuth /\ main' = "fingerprint"
             /\ UNCHANGED <<cfgAuth, cfgReg, bootTok, retried, hbVars, pollVars, shared, faults>>
    BY <1>10, <2>2 DEF PersistToken, server, hbVars, pollVars, shared
  <2> QED
    BY <1>10, <2>1, <2>2 DEF PersistToken
<1>11. CASE PersistFingerprint
  <2>1. CASE fpFile' \in {0, fpFile} /\ Exit /\ Fault
    BY <1>11, <2>1, HaltedTyped DEF PersistFingerprint, Exit, Fault, server
  <2>2. CASE fpFile' = cfgReg /\ cfgReg' = 0 /\ main' = "heartbeat"
             /\ UNCHANGED <<cfgAuth, bootTok, retried, hbVars, pollVars, shared, faults>>
    BY <1>11, <2>2 DEF PersistFingerprint, server, hbVars, pollVars, shared
  <2> QED
    BY <1>11, <2>1, <2>2 DEF PersistFingerprint
<1>12. CASE InitialHeartbeat
  BY <1>12 DEF InitialHeartbeat, HeartbeatStatus, MemType, disk, server, mainVars, hbVars, pollVars, shared, budget
<1>13. CASE InitialHeartbeatRejected
  <2>1. CASE UNCHANGED authFile /\ Exit /\ (Fault \/ UNCHANGED faults)
    BY <1>13, <2>1, HaltedTyped DEF InitialHeartbeatRejected, Exit, Fault, server
  <2>2. CASE /\ ClearToken /\ cfgAuth' = 0 /\ cfgReg' = bootTok /\ retried' = TRUE
             /\ main' = "auth"
             /\ UNCHANGED <<bootTok, hbVars, pollVars, shared, faults>>
    BY <1>13, <2>2 DEF InitialHeartbeatRejected, ClearToken, server, hbVars, pollVars, shared
  <2> QED
    BY <1>13, <2>1, <2>2 DEF InitialHeartbeatRejected
<1>14. CASE InitialHeartbeatReissued
  BY <1>14, HaltedTyped DEF InitialHeartbeatReissued, IdentityRecovery, ClearToken, Exit, Fault, disk, server, mainVars, hbVars, pollVars, shared, budget
<1>15. CASE InitialHeartbeatStale
  BY <1>15, StaleMemTyped DEF InitialHeartbeatStale, Block, disk, server, mainVars, hbVars, pollVars, shared, budget
<1>16. CASE InitialHeartbeatFails
  BY <1>16, HaltedTyped DEF InitialHeartbeatFails, Exit, disk, server, mainVars, hbVars, pollVars, shared, budget
<1>17. CASE HbTick
  BY <1>17 DEF HbTick, HeartbeatStatus, MemType, disk, server, mainVars, hbVars, pollVars, shared, budget
<1>18. CASE HbAccepted
  BY <1>18, StoresTyped DEF HbAccepted, HbReady, disk, server, mainVars, hbVars, pollVars, shared, budget
<1>19. CASE HbReissued
  BY <1>19, HaltedTyped DEF HbReissued, IdentityRecovery, ClearToken, Exit, Fault, disk, server, mainVars, hbVars, pollVars, shared, budget
<1>20. CASE HbStale
  BY <1>20, StoresTyped, ZenonT(60) DEF HbStale, disk, server, mainVars, hbVars, pollVars, shared, budget
<1>21. CASE HbFails
  BY <1>21, StoresTyped, ZenonT(60) DEF HbFails, disk, server, mainVars, hbVars, pollVars, shared, budget
<1>22. CASE PollStale
  BY <1>22 DEF PollStale, disk, server, mainVars, hbVars, pollVars, shared, budget
<1>23. CASE PollIncompatible
  BY <1>23, StoresTyped DEF PollIncompatible, disk, server, mainVars, hbVars, pollVars, shared, budget
<1>24. CASE PollTell
  BY <1>24 DEF PollTell, disk, server, mainVars, hbVars, pollVars, shared, budget
<1>25. CASE PollIdentityStale
  BY <1>25, StoresTyped DEF PollIdentityStale, disk, server, mainVars, hbVars, pollVars, shared, budget
<1>26. CASE PollRejected
  BY <1>26 DEF PollRejected, PollReady, Credentials, disk, server, mainVars, hbVars, pollVars, shared, budget
<1>27. CASE PollClaim
  BY <1>27 DEF PollClaim, disk, server, mainVars, hbVars, pollVars, shared, budget
<1>28. CASE PollReport
  BY <1>28, StoresTyped, ZenonT(60) DEF PollReport, disk, server, mainVars, hbVars, pollVars, shared, budget
<1>29. CASE \E kind \in RevokeKinds : Revoke(kind)
  BY <1>29, ExceptSeq DEF Revoke, Verdicts, disk, mainVars, hbVars, pollVars, shared
<1>30. CASE \E g \in Goroutines : Store(g)
  BY <1>30, StoreKeepsType
<1>31. CASE UNCHANGED vars
  BY <1>31 DEF disk, server, mainVars, hbVars, pollVars, shared, budget, vars
<1> QED
  BY <1>1, <1>2, <1>3, <1>4, <1>5, <1>6, <1>7, <1>8, <1>9, <1>10, <1>11, <1>12, <1>13, <1>14, <1>15, <1>16, <1>17, <1>18, <1>19, <1>20, <1>21, <1>22, <1>23, <1>24, <1>25, <1>26, <1>27, <1>28, <1>29, <1>30, <1>31
     DEF Next, Environment, Startup, HeartbeatLoop, PollLoop

-----------------------------------------------------------------------------
(* The credential and the accounts. *)

\* The steps that concern neither.
Quiet == UNCHANGED <<authFile, fpFile, secret, srvBoot, srvTok, main, cfgAuth, cfgReg,
                     bootTok, pollAuth, pollReg, revocations, faults>>

QuietNext ==
    \/ ApiChange \/ HbTick \/ HbAccepted \/ HbStale \/ HbFails
    \/ PollStale \/ PollIncompatible \/ PollTell \/ PollIdentityStale \/ PollRejected
    \/ PollClaim \/ PollReport
    \/ \E g \in Goroutines : Store(g)

\* The heartbeat and poll loops leave credential, files and control plane alone.
\* PollRejected is among them because the poll loop has no bootstrap token.
LEMMA QuietNextIsQuiet ==
    ASSUME Credentials, QuietNext
    PROVE  Quiet
<1> USE DEF Quiet, disk, server, mainVars, hbVars, pollVars, shared, budget
<1>1. CASE ApiChange \/ HbTick \/ HbAccepted \/ HbStale \/ HbFails
  BY <1>1 DEF ApiChange, HbTick, HbAccepted, HbStale, HbFails
<1>2. CASE PollStale \/ PollIncompatible \/ PollTell \/ PollIdentityStale \/ PollClaim \/ PollReport
  BY <1>2 DEF PollStale, PollIncompatible, PollTell, PollIdentityStale, PollClaim, PollReport
<1>3. CASE PollRejected
  BY <1>3 DEF PollRejected, PollReady, Credentials
<1>4. CASE \E g \in Goroutines : Store(g)
  BY <1>4 DEF Store
<1> QED
  BY <1>1, <1>2, <1>3, <1>4 DEF QuietNext

\* A quiet step changes nothing that the accounts or the credentials speak of.
LEMMA QuietKeepsRest ==
    ASSUME Credentials, Accounts, Quiet
    PROVE  Credentials' /\ Accounts'
  BY DEF Quiet, Credentials, Accounts, Paid, LastIsGood, RegistrationsAccounted

\* Next, by what the steps do to the credential.
LEMMA NextCases ==
    ASSUME Next
    PROVE  \/ QuietNext
           \/ Rotate \/ Rollout \/ Crash \/ Start \/ UseToken
           \/ Register \/ RegisterStale \/ RegisterFails \/ PersistToken \/ PersistFingerprint
           \/ InitialHeartbeat \/ InitialHeartbeatRejected \/ InitialHeartbeatStale
           \/ InitialHeartbeatFails
           \/ IdentityRecovery /\ main \in {"heartbeat", "serve"} /\ Verdict(cfgAuth) = "reissued"
           \/ \E kind \in RevokeKinds : Revoke(kind)
  BY DEF Next, Environment, Startup, HeartbeatLoop, PollLoop, QuietNext,
         InitialHeartbeatReissued, HbReissued, HbReady

\* A process that does not run holds nothing.
LEMMA DownHoldsNothing == ASSUME main' = "down" PROVE Credentials'
  BY DEF Credentials

\* Every step keeps the credential of each phase where Credentials says it is.
LEMMA CredentialStep ==
    ASSUME TypeOK, Credentials, Accounts, [Next]_vars
    PROVE  Credentials'
<1> USE DEF disk, server, mainVars, hbVars, pollVars, shared, budget
<1>1. CASE QuietNext
  BY <1>1, QuietNextIsQuiet, QuietKeepsRest
<1>2. CASE \/ Rollout \/ Crash \/ RegisterFails \/ InitialHeartbeatFails \/ IdentityRecovery
  BY <1>2, DownHoldsNothing
     DEF Rollout, Crash, RegisterFails, InitialHeartbeatFails, IdentityRecovery, Exit, Halted
<1>3. CASE Rotate \/ \E kind \in RevokeKinds : Revoke(kind)
  BY <1>3 DEF Rotate, Revoke, Credentials
<1>4. CASE Start \/ UseToken
  BY <1>4 DEF Start, UseToken, Credentials
<1>5. CASE Register
  <2>1. CASE main' = "down"
    BY <2>1, DownHoldsNothing
  <2>2. CASE main' = "token" /\ cfgAuth' = Len(srvTok')
    BY <1>5, <2>2, IssueGrants, LenProperties DEF Register, Credentials, TypeOK
  <2> QED
    BY <1>5, <2>1, <2>2 DEF Register, Exit, Halted
<1>6. CASE RegisterStale \/ InitialHeartbeatStale
  BY <1>6 DEF RegisterStale, InitialHeartbeatStale, Block, Credentials
<1>7. CASE PersistToken \/ PersistFingerprint
  BY <1>7 DEF PersistToken, PersistFingerprint, Exit, Halted, Credentials
<1>8. CASE InitialHeartbeat
  BY <1>8 DEF InitialHeartbeat, Credentials
<1>9. CASE InitialHeartbeatRejected
  BY <1>9 DEF InitialHeartbeatRejected, ClearToken, Exit, Halted, Credentials
<1>10. CASE UNCHANGED vars
  BY <1>10, QuietKeepsRest DEF vars, Quiet
<1> QED
  BY <1>1, <1>2, <1>3, <1>4, <1>5, <1>6, <1>7, <1>8, <1>9, <1>10, NextCases

\* Every step that grants a registration finds it paid for.
LEMMA AccountStep ==
    ASSUME TypeOK, Credentials, Accounts, [Next]_vars
    PROVE  Accounts'
<1> DEFINE n == Len(srvTok)
<1>0. n \in Nat /\ srvTok \in Seq(Verdicts)
  BY LenProperties DEF TypeOK
<1> USE DEF disk, server, mainVars, hbVars, pollVars, shared, budget
<1>1. CASE QuietNext
  BY <1>1, QuietNextIsQuiet, QuietKeepsRest
<1>2. CASE Rotate
  <2>1. Len(srvTok') = n
    <3>1. CASE UNCHANGED srvTok
      BY <3>1
    <3>2. CASE srvTok' = [t \in DOMAIN srvTok |-> IF srvTok[t] = "issued" THEN "stale" ELSE srvTok[t]]
      <4>1. "stale" \in Verdicts
        BY DEF Verdicts
      <4> QED
        BY <1>0, <3>2, <4>1, Relabel
    <3> QED
      BY <1>2, <3>1, <3>2 DEF Rotate
  <2>2. Paid'
    BY <1>0, <1>2, <2>1 DEF Rotate, Accounts, RegistrationsAccounted, Paid, TypeOK
  <2> QED
    BY <1>0, <1>2, <2>1, <2>2, SMTT(30) DEF Rotate, Accounts, RegistrationsAccounted, Paid, TypeOK
<1>3. CASE \E kind \in RevokeKinds : Revoke(kind)
  <2> PICK kind \in RevokeKinds : Revoke(kind)
    BY <1>3
  <2>1. Len(srvTok') = n
    BY <1>0, BoundsAssumption, ExceptSeq DEF Revoke, Verdicts
  <2>2. /\ revocations' = revocations + 1
        /\ UNCHANGED <<authFile, fpFile, secret, srvBoot, main, cfgAuth, cfgReg, bootTok, faults>>
    BY DEF Revoke
  <2>3. Paid'
    BY <1>0, <2>1, <2>2 DEF Accounts, RegistrationsAccounted, Paid, TypeOK
  <2> QED
    BY <1>0, <2>1, <2>2, <2>3 DEF Accounts, RegistrationsAccounted, Paid, TypeOK
<1>4. CASE Register
  <2>1. Len(srvTok') = n + 1 /\ srvTok'[Len(srvTok')] = "issued"
    BY <1>0, <1>4, IssueGrants DEF Register
  <2>2. Paid /\ secret = srvBoot
    BY <1>4 DEF Register, Accounts, TypeOK
  <2>3. CASE Exit /\ Fault
    BY <1>0, <1>4, <2>1, <2>2, <2>3
       DEF Register, Exit, Halted, Fault, Accounts, RegistrationsAccounted, Paid, TypeOK
  <2>4. CASE main' = "token" /\ cfgAuth' = Len(srvTok') /\ UNCHANGED <<cfgReg, bootTok, faults>>
    BY <1>0, <1>4, <2>1, <2>2, <2>4
       DEF Register, Accounts, RegistrationsAccounted, Paid, LastIsGood, TypeOK
  <2> QED
    BY <1>4, <2>3, <2>4 DEF Register
<1> USE <1>0 DEF Accounts, RegistrationsAccounted, Paid, LastIsGood, TypeOK
<1>5. CASE Rollout \/ Crash
  <2>1. /\ UNCHANGED <<authFile, fpFile, srvBoot, srvTok, revocations>>
        /\ main' = "down" /\ cfgAuth' = 0 /\ cfgReg' = 0 /\ bootTok' = 0
        /\ secret' = secret \/ secret' = srvBoot
    BY <1>5 DEF Rollout, Crash, Halted
  <2>2. CASE InRegistration /\ faults' = faults + 1
    BY <2>1, <2>2
  <2>3. CASE ~InRegistration /\ faults' = faults
    BY <2>1, <2>3 DEF InRegistration
  <2> QED
    BY <1>5, <2>2, <2>3 DEF Rollout, Crash, Fault
<1>6. CASE RegisterFails \/ InitialHeartbeatFails
  BY <1>6, SMTT(20) DEF RegisterFails, InitialHeartbeatFails, Exit, Halted
<1>7. CASE IdentityRecovery /\ main \in {"heartbeat", "serve"} /\ Verdict(cfgAuth) = "reissued"
  BY <1>7 DEF IdentityRecovery, ClearToken, Fault, Exit, Halted, Verdict, Credentials
<1>8. CASE Start
  BY <1>8 DEF Start, AdoptFingerprint, registrationTokenChanged, Fault
<1>9. CASE UseToken
  BY <1>9 DEF UseToken
<1>10. CASE RegisterStale \/ InitialHeartbeatStale
  BY <1>10 DEF RegisterStale, InitialHeartbeatStale, Block
<1>11. CASE PersistToken
  <2>1. CASE authFile' \in {0, authFile} /\ Exit /\ Fault
    BY <1>11, <2>1 DEF PersistToken, Exit, Halted, Fault
  <2>2. CASE authFile' = cfgAuth /\ main' = "fingerprint" /\ UNCHANGED <<cfgAuth, cfgReg, bootTok, faults>>
    BY <1>11, <2>2 DEF PersistToken
  <2> QED
    BY <1>11, <2>1, <2>2 DEF PersistToken
<1>12. CASE PersistFingerprint
  BY <1>12, SMTT(30) DEF PersistFingerprint, Exit, Halted, Fault
<1>13. CASE InitialHeartbeat
  BY <1>13 DEF InitialHeartbeat
<1>14. CASE InitialHeartbeatRejected
  BY <1>14, SMTT(30) DEF InitialHeartbeatRejected, ClearToken, Exit, Halted, Fault, Verdict, Credentials
<1>15. CASE UNCHANGED vars
  BY <1>15, QuietKeepsRest DEF vars, Quiet
<1> QED
  BY <1>1, <1>2, <1>3, <1>4, <1>5, <1>6, <1>7, <1>8, <1>9, <1>10, <1>11, <1>12, <1>13, <1>14,
     <1>15, NextCases

-----------------------------------------------------------------------------
(* The theorems. *)

\* The invariant holds in the initial state.
LEMMA Initially == Init => IInv
<1> SUFFICES ASSUME Init PROVE IInv
  OBVIOUS
<1>1. /\ srvTok \in Seq(Verdicts) /\ Len(srvTok) \in Nat
      /\ \/ authFile = 0 /\ Len(srvTok) = 0
         \/ authFile = 1 /\ Len(srvTok) = 1 /\ srvTok[Len(srvTok)] = "issued"
  <2>1. CASE authFile = 0 /\ srvTok = <<>>
    BY <2>1, EmptySeq
  <2>2. CASE authFile = 1 /\ srvTok = <<"issued">>
    BY <2>2 DEF Verdicts
  <2> QED
    BY <2>1, <2>2 DEF Init
<1>2. TypeOK
  <2>1. mem \in MemType
    BY DEF Init, FreshMem, MemType
  <2>2. pend \in [Goroutines -> Seq(StoreType)]
    BY EmptySeq DEF Init
  <2>3. /\ secret = 1 /\ srvBoot = 1 /\ fpFile = 0 /\ srvStatus = "none" /\ srvApi = TRUE
        /\ main = "down" /\ cfgAuth = 0 /\ cfgReg = 0 /\ bootTok = 0 /\ retried = FALSE
        /\ hb = "tick" /\ hbStatus = "online" /\ poll = "none" /\ pollAuth = 0 /\ pollReg = 0
        /\ revocations = 0 /\ faults = 0
    BY DEF Init
  <2>4. srvApi \in BOOLEAN /\ retried \in BOOLEAN
    BY <2>3
  <2>5. authFile \in 0..Len(srvTok) /\ cfgAuth \in 0..Len(srvTok) /\ pollAuth \in 0..Len(srvTok)
    BY <1>1, <2>3
  <2>6. /\ fpFile \in 0..srvBoot /\ secret \in 1..srvBoot /\ srvBoot \in 1..(MaxRotations + 1)
        /\ cfgReg \in 0..srvBoot /\ bootTok \in 0..srvBoot /\ pollReg \in 0..srvBoot
        /\ revocations \in 0..MaxRevocations /\ faults \in 0..MaxFaults
    BY <2>3, BoundsAssumption
  <2>7. /\ srvStatus = "none" /\ main = "down" /\ hb = "tick" /\ hbStatus = "online" /\ poll = "none"
    BY DEF Init
  <2> QED
    BY <1>1, <2>1, <2>2, <2>4, <2>5, <2>6, <2>7 DEF TypeOK
<1>3. Credentials
  BY DEF Init, Credentials
<1>4. Accounts
  <2>1. /\ secret = 1 /\ srvBoot = 1 /\ fpFile = 0 /\ cfgReg = 0 /\ bootTok = 0
        /\ main = "down" /\ revocations = 0 /\ faults = 0
    BY DEF Init
  <2> QED
    BY <1>1, <2>1 DEF Accounts, RegistrationsAccounted, Paid, LastIsGood
<1> QED
  BY <1>2, <1>3, <1>4 DEF IInv

\* The inductive invariant holds of every behaviour of the runner and the
\* control plane, for all bounds.
THEOREM Invariance == Spec => []IInv
<1>1. IInv /\ [Next]_vars => IInv'
  BY TypeStep, CredentialStep, AccountStep DEF IInv
<1> QED
  BY Initially, <1>1, PTL DEF Spec

\* Every variable of the runtime keeps its type.
THEOREM TypeCorrect == Spec => []TypeOK
<1>1. IInv => TypeOK
  BY DEF IInv
<1> QED
  BY Invariance, <1>1, PTL

\* While the loops of Run work, both present the credential that a restart would
\* read from the auth volume.
THEOREM CredentialIsDurable == Spec => []CredentialDurable
<1>1. IInv => CredentialDurable
  BY DEF IInv, Credentials, CredentialDurable
<1> QED
  BY Invariance, <1>1, PTL

\* No registration is asked for without a rotation, a rejected credential or a
\* fault inside an earlier registration.
THEOREM RegistrationsAreAccounted == Spec => []RegistrationsAccounted
<1>1. IInv => RegistrationsAccounted
  BY DEF IInv, Accounts
<1> QED
  BY Invariance, <1>1, PTL

-----------------------------------------------------------------------------
(* The verdicts of the control plane, and the stores of the two loops. *)

\* A verdict other than "issued" is never taken back, and no credential is
\* forgotten, whatever the operator and the registrations do.
LEMMA VerdictsStay ==
    ASSUME TypeOK, Credentials, [Next]_vars
    PROVE  \A t \in 1..Len(srvTok) : srvTok[t] # "issued" => srvTok'[t] = srvTok[t]
<1> USE DEF disk, server, mainVars, hbVars, pollVars, shared, budget
<1>1. Len(srvTok) \in Nat /\ DOMAIN srvTok = 1..Len(srvTok)
  BY LenProperties DEF TypeOK
<1>2. CASE UNCHANGED srvTok
  BY <1>2
<1>3. CASE Rotate
  BY <1>1, <1>3 DEF Rotate
<1>4. CASE Register
  <2> DEFINE s == [t \in DOMAIN srvTok |-> IF srvTok[t] = "issued" THEN "unissued" ELSE srvTok[t]]
  <2>1. s \in Seq(Verdicts) /\ Len(s) = Len(srvTok)
    BY Relabel DEF TypeOK, Verdicts
  <2>2. srvTok' = Append(s, "issued")
    BY <1>4 DEF Register, Issue
  <2>3. \A t \in 1..Len(srvTok) : srvTok[t] # "issued" => s[t] = srvTok[t]
    BY <1>1
  <2> HIDE DEF s
  <2>4. \A t \in 1..Len(s) : Append(s, "issued")[t] = s[t]
    BY <2>1, AppendProperties DEF Verdicts
  <2> QED
    BY <2>1, <2>2, <2>3, <2>4
<1>5. CASE \E kind \in RevokeKinds : Revoke(kind)
  BY <1>1, <1>5 DEF Revoke
<1>6. CASE QuietNext
  BY <1>2, <1>6, QuietNextIsQuiet DEF Quiet
<1>7. CASE \/ Rollout \/ Crash \/ Start \/ UseToken \/ RegisterStale \/ RegisterFails \/ PersistToken
           \/ PersistFingerprint \/ InitialHeartbeat \/ InitialHeartbeatRejected \/ InitialHeartbeatStale
           \/ InitialHeartbeatFails \/ IdentityRecovery
  <2>1. UNCHANGED srvTok
    BY <1>7 DEF Rollout, Crash, Start, UseToken, RegisterStale, RegisterFails, PersistToken, PersistFingerprint,
       InitialHeartbeat, InitialHeartbeatRejected, InitialHeartbeatStale, InitialHeartbeatFails, IdentityRecovery
  <2> QED
    BY <1>2, <2>1
<1>8. CASE UNCHANGED vars
  BY <1>2, <1>8 DEF vars
<1> QED
  BY <1>3, <1>4, <1>5, <1>6, <1>7, <1>8, NextCases

\* A list of stores in which none stores "online" as the status, and the one that
\* marks the identity stale comes after the one that degrades the runner.
Orderly(q) ==
    \A i \in 1..Len(q) : /\ q[i] # <<"status", "online">>
                         /\ q[i][1] = "stale" => i > 1 /\ q[1] = <<"status", "degraded">>

Degrades(q) == Len(q) > 0 /\ q[1] = <<"status", "degraded">>

\* Goroutine g has degraded the runner, or will before it does anything else.
Ahead(g) == mem.status = "degraded" \/ Degrades(pend[g])

\* What the goroutines have still to store: the status is never turned back to
\* online, and a stale identity is marked only in a degraded runner. The poll
\* loop that has given up has degraded the runner or will, unless its credential
\* is not known.
StoresInOrder ==
    /\ \A g \in Goroutines : \A i \in 1..Len(pend[g]) :
          /\ pend[g][i] # <<"status", "online">>
          /\ pend[g][i][1] = "stale" =>
                mem.status = "degraded" \/ (i > 1 /\ pend[g][1] = <<"status", "degraded">>)
    /\ mem.stale => mem.status = "degraded"
    /\ poll = "tell" => Ahead("poll")
    /\ poll = "returned" => pollAuth # 0 /\ (Ahead("poll") \/ srvTok[pollAuth] = "unissued")

\* The lists that the handlers queue are orderly.
LEMMA QueuesOrderly ==
    /\ \A b \in BOOLEAN : Orderly(HealthSet(b))
    /\ Orderly(HealthSetDegraded)
    /\ Orderly(MarkStale) /\ Degrades(MarkStale)
    /\ Orderly(StateSetDegraded \o HealthSetDegraded) /\ Degrades(StateSetDegraded \o HealthSetDegraded)
<1>1. \A b \in BOOLEAN : Orderly(HealthSet(b))
  BY DEF HealthSet, Orderly
<1>2. Orderly(HealthSetDegraded)
  BY DEF HealthSetDegraded, Orderly
<1>3. Orderly(MarkStale) /\ Degrades(MarkStale)
  BY DEF MarkStale, Orderly, Degrades
<1>4. Orderly(StateSetDegraded \o HealthSetDegraded) /\ Degrades(StateSetDegraded \o HealthSetDegraded)
  <2> DEFINE q == StateSetDegraded \o HealthSetDegraded
  <2>1. StateSetDegraded \in Seq(StoreType) /\ HealthSetDegraded \in Seq(StoreType)
    <3>1. <<"status", "degraded">> \in StoreType
      BY DEF StoreType
    <3> QED
      BY <3>1, StoresTyped DEF StateSetDegraded
  <2>2. Len(StateSetDegraded) = 1 /\ Len(HealthSetDegraded) = 2
    BY DEF StateSetDegraded, HealthSetDegraded
  <2>3. /\ Len(q) = Len(StateSetDegraded) + Len(HealthSetDegraded)
        /\ \A i \in 1..Len(StateSetDegraded) + Len(HealthSetDegraded) :
              q[i] = IF i <= Len(StateSetDegraded) THEN StateSetDegraded[i]
                     ELSE HealthSetDegraded[i - Len(StateSetDegraded)]
    BY <2>1, ConcatProperties
  <2> HIDE DEF q
  <2>4. Len(q) = 3 /\ q[1] = StateSetDegraded[1] /\ q[2] = HealthSetDegraded[1] /\ q[3] = HealthSetDegraded[2]
    <3>1. \A i \in 1..3 : q[i] = IF i <= 1 THEN StateSetDegraded[i] ELSE HealthSetDegraded[i - 1]
      BY <2>2, <2>3
    <3>2. Len(q) = 3
      BY <2>2, <2>3
    <3> QED
      BY <3>1, <3>2
  <2>5. Orderly(q) /\ Degrades(q)
    <3>1. q[1] = <<"status", "degraded">> /\ q[2] = <<"hDegraded", TRUE>> /\ q[3] = <<"hOnline", FALSE>>
      BY <2>4 DEF StateSetDegraded, HealthSetDegraded
    <3> QED
      BY <2>4, <3>1 DEF Orderly, Degrades
  <2> QED
    BY <2>5 DEF q
<1> QED
  BY <1>1, <1>2, <1>3, <1>4

\* The atomics after a store.
After(m, s) == [m EXCEPT ![s[1]] = s[2]]

\* What one store can do to the status and to the mark.
LEMMA StoreEffect ==
    ASSUME NEW m \in MemType, NEW s \in StoreType, s # <<"status", "online">>
    PROVE  /\ m.status = "degraded" => After(m, s).status = "degraded"
           /\ s = <<"status", "degraded">> => After(m, s).status = "degraded"
           /\ After(m, s).stale => m.stale \/ s[1] = "stale"
<1>1. CASE s \in {"status"} \X {"online", "degraded"}
  <2>1. s[1] = "status" /\ s[2] = "degraded"
    BY <1>1
  <2> QED
    BY <2>1 DEF MemType, After
<1>2. CASE s \in {"stale", "hOnline", "hDegraded", "hStale"} \X BOOLEAN
  <2>1. s[1] \in {"stale", "hOnline", "hDegraded", "hStale"} /\ s # <<"status", "degraded">>
    BY <1>2
  <2> QED
    BY <2>1 DEF MemType, After
<1> QED
  BY <1>1, <1>2 DEF StoreType

\* A goroutine that queues an orderly list keeps the stores in order.
LEMMA QueueStep ==
    ASSUME TypeOK, StoresInOrder, UNCHANGED mem, NEW g \in Goroutines, NEW q, Orderly(q),
           pend' = [pend EXCEPT ![g] = q]
    PROVE  /\ \A h \in Goroutines : \A i \in 1..Len(pend'[h]) :
                 /\ pend'[h][i] # <<"status", "online">>
                 /\ pend'[h][i][1] = "stale" =>
                       mem'.status = "degraded" \/ (i > 1 /\ pend'[h][1] = <<"status", "degraded">>)
           /\ mem'.stale => mem'.status = "degraded"
           /\ pend'[g] = q /\ \A h \in Goroutines \ {g} : pend'[h] = pend[h]
<1>1. pend'[g] = q /\ \A h \in Goroutines \ {g} : pend'[h] = pend[h]
  BY DEF TypeOK
<1> QED
  BY <1>1 DEF StoresInOrder, Orderly

\* A store that takes effect keeps the stores in order.
LEMMA StoreInOrder ==
    ASSUME TypeOK, StoresInOrder, NEW g \in Goroutines, Store(g)
    PROVE  StoresInOrder'
<1> DEFINE s == Head(pend[g])
<1>1. pend[g] \in Seq(StoreType) /\ pend[g] # <<>> /\ mem \in MemType
  BY DEF TypeOK, Store
<1>2. /\ s \in StoreType /\ s = pend[g][1] /\ Len(pend[g]) \in Nat /\ Len(pend[g]) > 0
      /\ Len(Tail(pend[g])) = Len(pend[g]) - 1
      /\ \A i \in 1..Len(Tail(pend[g])) : Tail(pend[g])[i] = pend[g][i + 1]
  <2>1. Len(pend[g]) \in Nat /\ Len(pend[g]) # 0
    BY <1>1, LenProperties, EmptySeq
  <2>2. s \in StoreType /\ s = pend[g][1]
    BY <1>1, <2>1
  <2>3. /\ Len(Tail(pend[g])) = Len(pend[g]) - 1
        /\ \A i \in 1..Len(Tail(pend[g])) : Tail(pend[g])[i] = pend[g][i + 1]
    BY <1>1, HeadTailProperties
  <2> QED
    BY <2>1, <2>2, <2>3
<1>3. s # <<"status", "online">> /\ (s[1] = "stale" => mem.status = "degraded")
  <2>1. 1 \in 1..Len(pend[g]) /\ ~(1 > 1)
    BY <1>2
  <2> QED
    BY <1>2, <2>1, ZenonT(60) DEF StoresInOrder
<1>4. mem' = After(mem, s)
  BY DEF Store, After
<1>5. /\ pend'[g] = Tail(pend[g]) /\ \A h \in Goroutines \ {g} : pend'[h] = pend[h]
      /\ UNCHANGED <<poll, pollAuth, srvTok>>
  BY DEF Store, TypeOK, pollVars, server
<1> HIDE DEF s
<1>6. /\ mem.status = "degraded" => mem'.status = "degraded"
      /\ s = <<"status", "degraded">> => mem'.status = "degraded"
      /\ mem'.stale => mem.stale \/ s[1] = "stale"
  BY <1>1, <1>2, <1>3, <1>4, StoreEffect
<1>7. ASSUME NEW h \in Goroutines, NEW i \in 1..Len(pend'[h])
      PROVE  /\ pend'[h][i] # <<"status", "online">>
             /\ pend'[h][i][1] = "stale" =>
                   mem'.status = "degraded" \/ (i > 1 /\ pend'[h][1] = <<"status", "degraded">>)
  <2>1. CASE h = g
    <3>0. pend'[h] = Tail(pend[g]) /\ i \in 1..Len(Tail(pend[g]))
      BY <1>5, <2>1
    <3>1. i + 1 \in 1..Len(pend[g]) /\ pend'[h][i] = pend[g][i + 1]
      BY <1>2, <3>0
    <3> QED
      BY <1>2, <1>6, <3>1 DEF StoresInOrder
  <2>2. CASE h # g
    BY <1>5, <1>6, <1>7, <2>2 DEF StoresInOrder
  <2> QED
    BY <2>1, <2>2
<1>8. mem'.stale => mem'.status = "degraded"
  BY <1>3, <1>6 DEF StoresInOrder
<1>9. Ahead("poll") => Ahead("poll")'
  <2>1. CASE g = "poll"
    BY <1>2, <1>6, <2>1 DEF Ahead, Degrades
  <2>2. CASE g # "poll"
    BY <1>5, <1>6, <2>2 DEF Ahead, Degrades, Goroutines
  <2> QED
    BY <2>1, <2>2
<1> QED
  BY <1>5, <1>7, <1>8, <1>9 DEF StoresInOrder

\* Every step keeps the stores in order.
LEMMA OrderStep ==
    ASSUME IInv, StoresInOrder, [Next]_vars
    PROVE  StoresInOrder'
<1> USE DEF disk, server, mainVars, hbVars, pollVars, shared, budget
<1>0. TypeOK /\ Credentials /\ Len(srvTok) \in Nat
  BY LenProperties DEF IInv, TypeOK
<1>1. CASE UNCHANGED <<mem, pend, poll, pollAuth>>
  <2>1. pollAuth # 0 /\ srvTok[pollAuth] = "unissued" => srvTok'[pollAuth] = "unissued"
    <3>1. pollAuth # 0 => pollAuth \in 1..Len(srvTok)
      BY <1>0 DEF TypeOK
    <3>2. \A t \in 1..Len(srvTok) : srvTok[t] # "issued" => srvTok'[t] = srvTok[t]
      BY <1>0, VerdictsStay
    <3> QED
      BY <3>1, <3>2
  <2> QED
    BY <1>1, <2>1 DEF StoresInOrder, Ahead, Degrades
<1>2. CASE Halted
  <2>1. \A g \in Goroutines : Len(pend'[g]) = 0
    BY <1>2 DEF Halted
  <2>2. mem'.stale = FALSE /\ poll' = "none"
    BY <1>2 DEF Halted, FreshMem
  <2>3. \A g \in Goroutines : 1..Len(pend'[g]) = {}
    BY <2>1
  <2> QED
    BY <2>2, <2>3, Zenon DEF StoresInOrder
<1>3. CASE Block /\ UNCHANGED server
  <2>1. mem'.status = "degraded" /\ UNCHANGED <<pend, poll, pollAuth, srvTok>>
    BY <1>3 DEF Block, StaleMem
  <2> QED
    BY <2>1 DEF StoresInOrder, Ahead
<1>4. CASE InitialHeartbeat
  <2>1. /\ mem'.status = mem.status /\ mem'.stale = mem.stale
        /\ UNCHANGED pend /\ poll' = "idle"
    BY <1>0, <1>4 DEF InitialHeartbeat, TypeOK, MemType
  <2> QED
    BY <2>1 DEF StoresInOrder
<1>5. CASE HbAccepted \/ HbStale \/ HbFails
  <2>1. /\ UNCHANGED <<mem, poll, pollAuth, srvTok>>
        /\ \E q : Orderly(q) /\ pend' = [pend EXCEPT !["hb"] = q]
    BY <1>5, QueuesOrderly DEF HbAccepted, HbStale, HbFails
  <2>2. PICK q : Orderly(q) /\ pend' = [pend EXCEPT !["hb"] = q]
    BY <2>1
  <2>3. "hb" \in Goroutines /\ "poll" \in Goroutines \ {"hb"}
    BY DEF Goroutines
  <2>4. pend'["poll"] = pend["poll"]
    BY <1>0, <2>1, <2>2, <2>3, QueueStep
  <2> QED
    BY <1>0, <2>1, <2>2, <2>3, <2>4, QueueStep DEF StoresInOrder, Ahead, Degrades
<1>6. CASE PollIncompatible \/ PollIdentityStale \/ (PollReport /\ poll' = "returned")
  <2>1. /\ UNCHANGED <<mem, pollAuth, srvTok>> /\ main = "serve"
        /\ \E q : Orderly(q) /\ Degrades(q) /\ pend' = [pend EXCEPT !["poll"] = q]
    BY <1>6, QueuesOrderly DEF PollIncompatible, PollIdentityStale, PollReport, PollReady
  <2>2. PICK q : Orderly(q) /\ Degrades(q) /\ pend' = [pend EXCEPT !["poll"] = q]
    BY <2>1
  <2>3. "poll" \in Goroutines
    BY DEF Goroutines
  <2>4. pend'["poll"] = q
    BY <1>0, <2>1, <2>2, <2>3, QueueStep
  <2>5. Ahead("poll")' /\ pollAuth' # 0
    BY <1>0, <2>1, <2>2, <2>4 DEF Ahead, Degrades, Credentials
  <2> QED
    BY <1>0, <2>1, <2>2, <2>3, <2>5, QueueStep DEF StoresInOrder
<1>7. CASE PollStale \/ PollTell \/ PollClaim \/ (PollReport /\ poll' = "idle")
  <2>1. UNCHANGED <<mem, pend, pollAuth, srvTok>> /\ main = "serve"
    BY <1>7 DEF PollStale, PollTell, PollClaim, PollReport, PollReady
  <2>2. pollAuth # 0
    BY <1>0, <2>1 DEF Credentials
  <2>3. poll' \in {"idle", "report"} \/ (poll' = "returned" /\ Ahead("poll"))
    BY <1>7 DEF PollStale, PollTell, PollClaim, PollReport, PollReady, StoresInOrder, Ahead
  <2> QED
    BY <2>1, <2>2, <2>3 DEF StoresInOrder, Ahead, Degrades
<1>8. CASE PollRejected
  <2>1. /\ UNCHANGED <<mem, pend, pollAuth, srvTok>> /\ poll' = "returned"
        /\ srvTok[pollAuth] = "unissued" /\ pollAuth # 0
    BY <1>0, <1>8 DEF PollRejected, PollReady, Credentials, Verdict
  <2> QED
    BY <2>1 DEF StoresInOrder
<1>9. CASE \E g \in Goroutines : Store(g)
  BY <1>0, <1>9, StoreInOrder
<1>10. CASE Rotate \/ ApiChange \/ Start \/ UseToken \/ HbTick \/ UNCHANGED vars
            \/ \E kind \in RevokeKinds : Revoke(kind)
  <2>1. UNCHANGED <<mem, pend, poll, pollAuth>>
    BY <1>10 DEF Rotate, ApiChange, Start, UseToken, HbTick, Revoke, vars
  <2> QED
    BY <1>1, <2>1
<1>11. CASE \/ Rollout \/ Crash \/ RegisterFails \/ InitialHeartbeatReissued
            \/ InitialHeartbeatFails \/ HbReissued
  BY <1>2, <1>11 DEF Rollout, Crash, RegisterFails, InitialHeartbeatReissued, InitialHeartbeatFails,
     HbReissued, IdentityRecovery, Exit
<1>12. CASE Register \/ PersistToken \/ PersistFingerprint \/ InitialHeartbeatRejected
  <2>1. Halted \/ UNCHANGED <<mem, pend, poll, pollAuth>>
    BY <1>12 DEF Register, PersistToken, PersistFingerprint, InitialHeartbeatRejected, Exit
  <2> QED
    BY <1>1, <1>2, <2>1
<1>13. CASE RegisterStale \/ InitialHeartbeatStale
  BY <1>3, <1>13 DEF RegisterStale, InitialHeartbeatStale
<1>14. PollReport => poll' = "returned" \/ poll' = "idle"
  BY DEF PollReport
<1> QED
  BY <1>4, <1>5, <1>6, <1>7, <1>8, <1>9, <1>10, <1>11, <1>12, <1>13, <1>14
     DEF Next, Environment, Startup, HeartbeatLoop, PollLoop

\* The stores of the two loops are in order in every behaviour.
THEOREM StoresStayInOrder == Spec => []StoresInOrder
<1>1. Init => StoresInOrder
  <2> SUFFICES ASSUME Init PROVE StoresInOrder
    OBVIOUS
  <2>1. \A g \in Goroutines : Len(pend[g]) = 0
    BY DEF Init
  <2>2. mem.stale = FALSE /\ poll = "none"
    BY DEF Init, FreshMem
  <2>3. \A g \in Goroutines : 1..Len(pend[g]) = {}
    BY <2>1
  <2> QED
    BY <2>2, <2>3, Zenon DEF StoresInOrder
<1>2. IInv /\ StoresInOrder /\ [Next]_vars => StoresInOrder'
  BY OrderStep
<1> QED
  BY <1>1, <1>2, Invariance, PTL DEF Spec

\* The poll loop never ends silently: when it has returned and stored all it had
\* to store, the runner is degraded or its credential is one the control plane
\* does not know.
THEOREM PollEndsOnlyForAReason == Spec => []PollEndsForAReason
<1>1. StoresInOrder => PollEndsForAReason
  BY DEF StoresInOrder, PollEndsForAReason, Ahead, Degrades
<1> QED
  BY <1>1, StoresStayInOrder, PTL

\* From a settled state no step reports online, and only the end of the process
\* leaves the settled states.
LEMMA SettledStep ==
    ASSUME IInv, StoresInOrder, Settled, [Next]_vars
    PROVE  srvStatus' \in {srvStatus, "degraded"} /\ (Settled' \/ main' = "down")
<1> USE DEF Settled, disk, server, mainVars, hbVars, pollVars, shared, budget
<1>0. TypeOK /\ Credentials
  BY DEF IInv
<1>1. CASE UNCHANGED <<srvStatus, main, mem, hb, hbStatus>>
  BY <1>1
<1>2. CASE Rotate \/ ApiChange \/ UNCHANGED vars \/ \E kind \in RevokeKinds : Revoke(kind)
  BY <1>1, <1>2 DEF Rotate, ApiChange, Revoke, vars
<1>3. CASE Rollout \/ Crash \/ HbReissued
  BY <1>3 DEF Rollout, Crash, HbReissued, IdentityRecovery, Exit, Halted
<1>4. ~Startup
  BY DEF Startup, Start, UseToken, Register, RegisterStale, RegisterFails, PersistToken, PersistFingerprint,
     InitialHeartbeat, InitialHeartbeatRejected, InitialHeartbeatReissued, InitialHeartbeatStale,
     InitialHeartbeatFails
<1>5. CASE HbTick
  BY <1>5 DEF HbTick, HeartbeatStatus
<1>6. CASE HbAccepted
  <2>1. hbStatus = "degraded"
    BY <1>0, <1>6 DEF HbAccepted, HbReady, TypeOK
  <2> QED
    BY <1>6, <2>1 DEF HbAccepted
<1>7. CASE HbStale \/ HbFails
  BY <1>7 DEF HbStale, HbFails
<1>8. CASE PollStale \/ PollIncompatible \/ PollIdentityStale \/ PollRejected \/ PollClaim \/ PollReport
  BY <1>1, <1>8 DEF PollStale, PollIncompatible, PollIdentityStale, PollRejected, PollClaim, PollReport
<1>9. CASE PollTell
  BY <1>9 DEF PollTell
<1>10. CASE \E g \in Goroutines : Store(g)
  <2> PICK g \in Goroutines : Store(g)
    BY <1>10
  <2> DEFINE s == Head(pend[g])
  <2>1. pend[g] \in Seq(StoreType) /\ pend[g] # <<>> /\ mem \in MemType
    BY <1>0 DEF TypeOK, Store
  <2>2. s \in StoreType /\ s = pend[g][1] /\ 1 \in 1..Len(pend[g])
    <3>1. Len(pend[g]) \in Nat /\ Len(pend[g]) # 0
      BY <2>1, LenProperties, EmptySeq
    <3> QED
      BY <2>1, <3>1
  <2>3. s # <<"status", "online">>
    BY <2>2 DEF StoresInOrder
  <2>4. mem' = After(mem, s) /\ UNCHANGED <<srvStatus, main, hb, hbStatus>>
    BY DEF Store, After
  <2> HIDE DEF s
  <2>5. mem'.status = "degraded"
    BY <2>1, <2>2, <2>3, <2>4, StoreEffect
  <2> QED
    BY <2>4, <2>5
<1> QED
  BY <1>2, <1>3, <1>4, <1>5, <1>6, <1>7, <1>8, <1>9, <1>10 DEF Next, Environment, HeartbeatLoop, PollLoop

\* Once the runner is degraded and no heartbeat is on its way that read the status
\* before, no heartbeat of this process reports online again.
THEOREM OnlyInFlightHeartbeatsOverwrite == Spec => OnlyInFlightOverwrites
<1>1. IInv /\ StoresInOrder /\ [Next]_vars =>
          [Settled => srvStatus' \in {srvStatus, "degraded"} /\ (Settled' \/ main' = "down")]_vars
  BY SettledStep
<1> QED
  BY <1>1, Invariance, StoresStayInOrder, PTL DEF Spec, OnlyInFlightOverwrites

-----------------------------------------------------------------------------
(* The runner implements RunnerIdentity. *)

\* A registration that has been answered is the latest one.
Holding == main = "token" => cfgAuth = Len(srvTok)

\* Changing verdicts grants nothing.
LEMMA VerdictChangeGrantsNothing ==
    ASSUME TypeOK, Rotate \/ \E kind \in RevokeKinds : Revoke(kind)
    PROVE  Len(srvTok') = Len(srvTok)
<1>1. CASE Rotate
  <2>1. CASE UNCHANGED srvTok
    BY <2>1
  <2>2. CASE srvTok' = [t \in DOMAIN srvTok |-> IF srvTok[t] = "issued" THEN "stale" ELSE srvTok[t]]
    <3>1. "stale" \in Verdicts
      BY DEF Verdicts
    <3> QED
      BY <2>2, <3>1, Relabel DEF TypeOK
  <2> QED
    BY <1>1, <2>1, <2>2 DEF Rotate
<1>2. CASE \E kind \in RevokeKinds : Revoke(kind)
  BY <1>2, BoundsAssumption, ExceptSeq DEF Revoke, Verdicts, TypeOK
<1> QED
  BY <1>1, <1>2

\* Every step keeps the registration in hand the latest one.
LEMMA HoldingStep ==
    ASSUME IInv, Holding, [Next]_vars
    PROVE  Holding'
<1> USE DEF Holding, disk, server, mainVars, hbVars, pollVars, shared, budget
<1>0. TypeOK /\ Credentials
  BY DEF IInv
<1>1. CASE QuietNext
  BY <1>0, <1>1, QuietNextIsQuiet DEF Quiet
<1>2. CASE Rotate \/ \E kind \in RevokeKinds : Revoke(kind)
  <2>1. UNCHANGED <<main, cfgAuth>>
    BY <1>2 DEF Rotate, Revoke
  <2> QED
    BY <1>0, <1>2, <2>1, VerdictChangeGrantsNothing
<1>3. CASE Register
  BY <1>3 DEF Register, Exit, Halted
<1>4. CASE \/ Rollout \/ Crash \/ Start \/ UseToken \/ RegisterStale \/ RegisterFails \/ PersistToken
           \/ PersistFingerprint \/ InitialHeartbeat \/ InitialHeartbeatRejected \/ InitialHeartbeatStale
           \/ InitialHeartbeatFails \/ IdentityRecovery
  <2>1. main' # "token"
    BY <1>4 DEF Rollout, Crash, Start, UseToken, RegisterStale, RegisterFails, PersistToken, PersistFingerprint,
       InitialHeartbeat, InitialHeartbeatRejected, InitialHeartbeatStale, InitialHeartbeatFails,
       IdentityRecovery, Block, Exit, Halted
  <2> QED
    BY <2>1
<1>5. CASE UNCHANGED vars
  BY <1>5 DEF vars
<1> QED
  BY <1>1, <1>2, <1>3, <1>4, <1>5, NextCases

\* The credential that the runner works under, as RunnerIdentity sees it.
Used == IF main = "serve" THEN cfgAuth ELSE 0

\* Every step of the runner is a step of RunnerIdentity, or none.
LEMMA IdentityStep ==
    ASSUME IInv, Holding, [Next]_vars
    PROVE  \/ /\ Used = 0 /\ Len(srvTok') = Len(srvTok) + 1 /\ authFile' = authFile /\ Used' = Used
           \/ /\ Used = 0 /\ Len(srvTok) # 0 /\ authFile' = Len(srvTok)
              /\ Len(srvTok') = Len(srvTok) /\ Used' = Used
           \/ /\ Used = 0 /\ authFile # 0 /\ Used' = authFile
              /\ Len(srvTok') = Len(srvTok) /\ authFile' = authFile
           \/ Used' = 0 /\ authFile' \in {0, authFile} /\ Len(srvTok') = Len(srvTok)
           \/ Len(srvTok') = Len(srvTok) /\ authFile' = authFile /\ Used' = Used
<1> USE DEF Used, disk, server, mainVars, hbVars, pollVars, shared, budget
<1>0. TypeOK /\ Credentials
  BY DEF IInv
<1>1. CASE QuietNext
  BY <1>0, <1>1, QuietNextIsQuiet DEF Quiet
<1>2. CASE Rotate \/ \E kind \in RevokeKinds : Revoke(kind)
  <2>1. UNCHANGED <<main, cfgAuth, authFile>>
    BY <1>2 DEF Rotate, Revoke
  <2> QED
    BY <1>0, <1>2, <2>1, VerdictChangeGrantsNothing
<1>3. CASE Register
  <2>1. Len(srvTok') = Len(srvTok) + 1
    BY <1>0, <1>3, IssueGrants DEF Register, TypeOK
  <2>2. main = "auth" /\ main' \in {"token", "down"} /\ authFile' = authFile
    BY <1>3 DEF Register, Exit, Halted
  <2> QED
    BY <2>1, <2>2
<1>4. CASE PersistToken
  <2>1. main = "token" /\ main' \in {"fingerprint", "down"} /\ UNCHANGED srvTok
    BY <1>4 DEF PersistToken, Exit, Halted
  <2>2. authFile' \in {0, authFile} \/ authFile' = cfgAuth
    BY <1>4 DEF PersistToken
  <2>3. cfgAuth = Len(srvTok) /\ cfgAuth # 0
    BY <1>0, <2>1 DEF Holding, Credentials
  <2> QED
    BY <2>1, <2>2, <2>3
<1>5. CASE InitialHeartbeat
  <2>1. main = "heartbeat" /\ main' = "serve" /\ UNCHANGED <<cfgAuth, authFile, srvTok>>
    BY <1>5 DEF InitialHeartbeat
  <2> QED
    BY <1>0, <2>1 DEF Credentials
<1>6. CASE Rollout \/ Crash \/ RegisterFails \/ InitialHeartbeatFails \/ IdentityRecovery
  BY <1>6 DEF Rollout, Crash, RegisterFails, InitialHeartbeatFails, IdentityRecovery, ClearToken, Exit, Halted
<1>7. CASE \/ Start \/ UseToken \/ RegisterStale \/ PersistFingerprint \/ InitialHeartbeatRejected
           \/ InitialHeartbeatStale
  <2>1. main' # "serve" /\ UNCHANGED srvTok /\ authFile' \in {0, authFile}
    BY <1>7 DEF Start, UseToken, RegisterStale, PersistFingerprint, InitialHeartbeatRejected,
       InitialHeartbeatStale, ClearToken, Block, Exit, Halted
  <2> QED
    BY <2>1
<1>8. CASE UNCHANGED vars
  BY <1>8 DEF vars
<1> QED
  BY <1>1, <1>2, <1>3, <1>4, <1>5, <1>6, <1>7, <1>8, NextCases

\* The runner implements RunnerIdentity: it registers only while its loops do not
\* run, keeps none but the latest credential, and works under the one it keeps.
THEOREM IdentityRefinement == Spec => ImplementsIdentity
<1>1. Init => Identity!IdInit
  <2> SUFFICES ASSUME Init PROVE Identity!IdInit
    OBVIOUS
  <2>1. authFile = Len(srvTok) /\ Len(srvTok) \in {0, 1} /\ main = "down"
    BY DEF Init
  <2> QED
    BY <2>1 DEF Identity!IdInit
<1>2. Init => Holding
  BY DEF Init, Holding
<1>3. IInv /\ Holding /\ [Next]_vars => Holding'
  BY HoldingStep
<1>4. IInv /\ Holding /\ [Next]_vars => [Identity!IdNext]_(Identity!idVars)
  BY IdentityStep DEF Used, Identity!IdNext, Identity!idVars, Identity!Grant, Identity!Keep,
     Identity!Serve, Identity!Stop
<1> QED
  BY <1>1, <1>2, <1>3, <1>4, Invariance, PTL DEF Spec, ImplementsIdentity, Identity!IdSpec

=============================================================================
