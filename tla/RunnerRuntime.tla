--------------------------- MODULE RunnerRuntime ---------------------------
(***************************************************************************)
(* The runner process of internal/runner/runtime.go: start-up, bootstrap   *)
(* registration and the credential it keeps on the auth volume, and then   *)
(* the two goroutines that share runnerRuntimeState and runnerHealth, the  *)
(* heartbeat loop (which is Run itself) and the command-poll loop.         *)
(*                                                                         *)
(* Bootstrap tokens and runtime auth tokens are numbered from 1 in the     *)
(* order in which the control plane hands them out; 0 is the empty string. *)
(* A registration-token fingerprint is the token it is the hash of.        *)
(* Every store to an atomic is a step of its own.                          *)
(***************************************************************************)
EXTENDS Naturals, Sequences

CONSTANTS MaxRotations,    \* bootstrap-token rotations by the operator
          MaxRevocations,  \* runtime tokens the control plane rejects
          MaxFaults,       \* crashes or I/O errors inside a registration
          RevokeKinds,     \* how it rejects them: "unissued", "reissued"
          LegacyVolume     \* the auth volume may predate the fingerprint

ASSUME BoundsAssumption ==
    /\ MaxRotations \in Nat /\ MaxRevocations \in Nat /\ MaxFaults \in Nat
    /\ RevokeKinds \subseteq {"unissued", "reissued"}
    /\ LegacyVolume \in BOOLEAN

VARIABLES
    authFile, fpFile,                  \* auth volume: token, fingerprint
    secret,                            \* bootstrap token in the runner Secret
    srvBoot, srvTok, srvStatus, srvApi,\* control plane
    main, cfgAuth, cfgReg, bootTok, retried, \* Run
    hb, hbStatus,                      \* runRunnerHeartbeat
    poll, pollAuth, pollReg,           \* runRunnerCommands
    mem,                               \* runnerRuntimeState and runnerHealth
    pend,                              \* stores a goroutine has still to do
    revocations, faults

disk == <<authFile, fpFile>>
server == <<srvBoot, srvTok, srvStatus, srvApi>>
mainVars == <<main, cfgAuth, cfgReg, bootTok, retried>>
hbVars == <<hb, hbStatus>>
pollVars == <<poll, pollAuth, pollReg>>
shared == <<mem, pend>>
budget == <<revocations, faults>>
vars == <<disk, secret, server, mainVars, hbVars, pollVars, shared, budget>>

Goroutines == {"hb", "poll"}
Verdicts == {"issued", "unissued", "stale", "reissued"}

-----------------------------------------------------------------------------
(* Shared atomics. *)

FreshMem == [status |-> "online", stale |-> FALSE,
             hOnline |-> FALSE, hDegraded |-> FALSE, hStale |-> FALSE]

MemType == [status: {"online", "degraded"}, stale: BOOLEAN,
            hOnline: BOOLEAN, hDegraded: BOOLEAN, hStale: BOOLEAN]

\* One store: the field and the value.
StoreType == ({"status"} \X {"online", "degraded"})
             \cup ({"stale", "hOnline", "hDegraded", "hStale"} \X BOOLEAN)

HealthSet(online) == IF online THEN <<<<"hOnline", TRUE>>, <<"hDegraded", FALSE>>>>
                               ELSE <<<<"hOnline", FALSE>>>>

HealthSetDegraded == <<<<"hDegraded", TRUE>>, <<"hOnline", FALSE>>>>

StateSetDegraded == <<<<"status", "degraded">>>>

\* Mutant: the status is stored after the flag that says the identity is stale.
MarkStaleFirst == <<<<"stale", TRUE>>, <<"hStale", TRUE>>, <<"hDegraded", TRUE>>,
                    <<"hOnline", FALSE>>, <<"status", "degraded">>>>

MarkStale == <<<<"status", "degraded">>, <<"stale", TRUE>>,
               <<"hStale", TRUE>>, <<"hDegraded", TRUE>>, <<"hOnline", FALSE>>>>

\* MarkStale while only Run's own goroutine exists.
StaleMem == [status |-> "degraded", stale |-> TRUE,
             hOnline |-> FALSE, hDegraded |-> TRUE, hStale |-> TRUE]

\* What GET /health answers.
HealthView == CASE mem.hStale -> "stale"
                [] ~mem.hStale /\ mem.hDegraded -> "degraded"
                [] ~mem.hStale /\ ~mem.hDegraded /\ ~mem.hOnline -> "starting"
                [] OTHER -> "online"

\* The next store of goroutine g takes effect.
Store(g) ==
    /\ pend[g] # <<>>
    /\ mem' = [mem EXCEPT ![Head(pend[g])[1]] = Head(pend[g])[2]]
    /\ pend' = [pend EXCEPT ![g] = Tail(@)]
    /\ UNCHANGED <<disk, secret, server, mainVars, hbVars, pollVars, budget>>

-----------------------------------------------------------------------------
(* The control plane and the operator. *)

\* A registration replaces the runner's previous credential.
Issue == srvTok' = Append([t \in DOMAIN srvTok |->
                              IF srvTok[t] = "issued" THEN "unissued" ELSE srvTok[t]],
                          "issued")

\* Rotation issues a new bootstrap token; the old ones are stale from now on,
\* and with them, if the control plane says so, the credentials they produced.
Rotate ==
    /\ srvBoot <= MaxRotations
    /\ srvBoot' = srvBoot + 1
    /\ \/ srvTok' = [t \in DOMAIN srvTok |->
                        IF srvTok[t] = "issued" THEN "stale" ELSE srvTok[t]]
       \/ UNCHANGED srvTok
    /\ UNCHANGED <<disk, secret, srvStatus, srvApi, mainVars, hbVars, pollVars, shared, budget>>

\* The control plane rejects the current credential (restart, reset, migration).
Revoke(kind) ==
    /\ revocations < MaxRevocations
    /\ Len(srvTok) > 0
    /\ srvTok[Len(srvTok)] = "issued"
    /\ srvTok' = [srvTok EXCEPT ![Len(srvTok)] = kind]
    /\ revocations' = revocations + 1
    /\ UNCHANGED <<disk, secret, srvBoot, srvStatus, srvApi, mainVars, hbVars, pollVars, shared, faults>>

\* A control-plane rollout changes whether the command API is compatible.
ApiChange ==
    /\ srvApi' = ~srvApi
    /\ UNCHANGED <<disk, secret, srvBoot, srvTok, srvStatus, mainVars, hbVars, pollVars, shared, budget>>

-----------------------------------------------------------------------------
(* Process life cycle. *)

\* The volatile state of a process that does not run.
Halted ==
    /\ main' = "down" /\ cfgAuth' = 0 /\ cfgReg' = 0 /\ bootTok' = 0 /\ retried' = FALSE
    /\ hb' = "tick" /\ hbStatus' = "online"
    /\ poll' = "none" /\ pollAuth' = 0 /\ pollReg' = 0
    /\ mem' = FreshMem
    /\ pend' = [g \in Goroutines |-> <<>>]

Fault == faults < MaxFaults /\ faults' = faults + 1

InRegistration == main \in {"token", "fingerprint"}

\* The container is killed, or the Deployment is rolled: SIGTERM cancels the
\* context on which everything below waits. A kill between the registration
\* answer and the second file counts as a fault.
Crash ==
    /\ main # "down"
    /\ Halted
    /\ IF InRegistration THEN Fault ELSE UNCHANGED faults
    /\ UNCHANGED <<disk, secret, server, revocations>>

\* The operator applies the regenerated Secret and restarts the release.
Rollout ==
    /\ secret # srvBoot
    /\ secret' = srvBoot
    /\ Halted
    /\ IF InRegistration THEN Fault ELSE UNCHANGED faults
    /\ UNCHANGED <<disk, server, revocations>>

\* registrationTokenChanged: an absent fingerprint adopts the mounted token.
AdoptFingerprint ==
    \/ fpFile # 0 /\ UNCHANGED <<fpFile, faults>>
    \/ fpFile = 0 /\ fpFile' = secret /\ UNCHANGED faults
    \/ fpFile = 0 /\ UNCHANGED fpFile /\ Fault

\* Mutant: a mounted token that differs from the fingerprint goes unnoticed.
RotationUnnoticed == FALSE

registrationTokenChanged == fpFile # 0 /\ fpFile # secret

\* runnerConfigFromEnv, validate (the Secret always holds a token) and the
\* first lines of Run.
Start ==
    /\ main = "down"
    /\ AdoptFingerprint
    /\ cfgAuth' = IF registrationTokenChanged THEN 0 ELSE authFile
    /\ cfgReg' = secret
    /\ bootTok' = secret
    /\ main' = "auth"
    /\ UNCHANGED <<authFile, secret, server, retried, hbVars, pollVars, shared, revocations>>

-----------------------------------------------------------------------------
(* ensureRunnerRuntimeAuth. *)

UseToken ==
    /\ main = "auth" /\ cfgAuth # 0
    /\ cfgReg' = 0
    /\ main' = "heartbeat"
    /\ UNCHANGED <<disk, secret, server, cfgAuth, bootTok, retried, hbVars, pollVars, shared, budget>>

\* os.Exit(1) after an error; the restart policy starts the process again.
Exit == Halted

\* Run marks the identity stale and waits for the context to end.
Block ==
    /\ main' = "blocked"
    /\ mem' = StaleMem
    /\ UNCHANGED <<cfgAuth, cfgReg, bootTok, retried, hbVars, pollVars, pend>>

\* POST register. The answer may be lost after the control plane has acted.
Register ==
    /\ main = "auth" /\ cfgAuth = 0
    /\ cfgReg = srvBoot
    /\ Issue
    /\ \/ /\ main' = "token"
          /\ cfgAuth' = Len(srvTok')
          /\ UNCHANGED <<cfgReg, bootTok, retried, hbVars, pollVars, shared, faults>>
       \/ Exit /\ Fault
    /\ UNCHANGED <<disk, secret, srvBoot, srvStatus, srvApi, revocations>>

RegisterStale ==
    /\ main = "auth" /\ cfgAuth = 0
    /\ cfgReg # srvBoot
    /\ Block
    /\ UNCHANGED <<disk, secret, server, budget>>

\* Transport failure or an answer that is not a registration.
RegisterFails ==
    /\ main = "auth" /\ cfgAuth = 0
    /\ Exit
    /\ UNCHANGED <<disk, secret, server, budget>>

\* os.WriteFile truncates and then writes: a fault leaves the file as it was
\* (the directory is not writable) or empty, and the process exits.
PersistToken ==
    /\ main = "token"
    /\ \/ /\ authFile' = cfgAuth
          /\ main' = "fingerprint"
          /\ UNCHANGED <<cfgAuth, cfgReg, bootTok, retried, hbVars, pollVars, shared, faults>>
       \/ authFile' = 0 /\ Exit /\ Fault
       \/ UNCHANGED authFile /\ Exit /\ Fault
    /\ UNCHANGED <<fpFile, secret, server, revocations>>

\* Mutant: the new fingerprint is not written.
KeepOldFingerprint ==
    /\ main = "fingerprint"
    /\ cfgReg' = 0 /\ main' = "heartbeat"
    /\ UNCHANGED <<disk, secret, server, cfgAuth, bootTok, retried, hbVars, pollVars, shared, budget>>

\* Mutant: the fingerprint is taken of the auth token.
FingerprintOfAuthToken ==
    /\ main = "fingerprint"
    /\ fpFile' = cfgAuth /\ cfgReg' = 0 /\ main' = "heartbeat"
    /\ UNCHANGED <<authFile, secret, server, cfgAuth, bootTok, retried, hbVars, pollVars, shared, budget>>

PersistFingerprint ==
    /\ main = "fingerprint"
    /\ \/ /\ fpFile' = cfgReg
          /\ cfgReg' = 0
          /\ main' = "heartbeat"
          /\ UNCHANGED <<cfgAuth, bootTok, retried, hbVars, pollVars, shared, faults>>
       \/ fpFile' = 0 /\ Exit /\ Fault
       \/ UNCHANGED fpFile /\ Exit /\ Fault
    /\ UNCHANGED <<authFile, secret, server, revocations>>

-----------------------------------------------------------------------------
(* The initial heartbeat of Run. *)

Verdict(t) == srvTok[t]

HeartbeatStatus(passed, status) == IF passed THEN status ELSE "degraded"

\* clearRuntimeToken truncates the token file and keeps the fingerprint.
ClearToken == authFile' = 0

\* Mutant: the poll goroutine keeps the bootstrap token, and with it its own
\* recovery.
PollKeepsBootstrapToken ==
    /\ main = "heartbeat" /\ Verdict(cfgAuth) = "issued"
    /\ main' = "serve"
    /\ poll' = "idle" /\ pollAuth' = cfgAuth /\ pollReg' = bootTok
    /\ UNCHANGED <<disk, secret, server, cfgAuth, cfgReg, bootTok, retried, hbVars, shared, budget>>

\* Accepted: Run starts the poll goroutine with a copy of cfg, whose
\* RegistrationToken ensureRunnerRuntimeAuth has blanked, and goes on as the
\* heartbeat loop.
InitialHeartbeat ==
    /\ main = "heartbeat" /\ Verdict(cfgAuth) = "issued"
    /\ \E passed \in BOOLEAN :
          /\ srvStatus' = HeartbeatStatus(passed, "online")
          /\ mem' = [mem EXCEPT !.hOnline = passed]
    /\ main' = "serve"
    /\ poll' = "idle" /\ pollAuth' = cfgAuth /\ pollReg' = cfgReg
    /\ UNCHANGED <<disk, secret, srvBoot, srvTok, srvApi, cfgAuth, cfgReg, bootTok, retried, hbVars, pend, budget>>

\* Rejected with a recoverable 401: register once more, unless that has been
\* tried or the token cannot be cleared.
InitialHeartbeatRejected ==
    /\ main = "heartbeat" /\ Verdict(cfgAuth) = "unissued"
    /\ \/ /\ ~retried /\ bootTok # 0
          /\ ClearToken
          /\ cfgAuth' = 0 /\ cfgReg' = bootTok /\ retried' = TRUE
          /\ main' = "auth"
          /\ UNCHANGED <<bootTok, hbVars, pollVars, shared, faults>>
       \/ ~retried /\ bootTok # 0 /\ UNCHANGED authFile /\ Exit /\ Fault
       \/ (retried \/ bootTok = 0) /\ UNCHANGED <<authFile, faults>> /\ Exit
    /\ UNCHANGED <<fpFile, secret, server, revocations>>

\* prepareRunnerRuntimeIdentityRecovery, then the process ends.
IdentityRecovery ==
    /\ \/ ClearToken /\ UNCHANGED faults
       \/ UNCHANGED authFile /\ Fault
    /\ Exit
    /\ UNCHANGED <<fpFile, secret, server, revocations>>

InitialHeartbeatReissued ==
    /\ main = "heartbeat" /\ Verdict(cfgAuth) = "reissued"
    /\ IdentityRecovery

InitialHeartbeatStale ==
    /\ main = "heartbeat" /\ Verdict(cfgAuth) = "stale"
    /\ Block
    /\ UNCHANGED <<disk, secret, server, budget>>

InitialHeartbeatFails ==
    /\ main = "heartbeat"
    /\ Exit
    /\ UNCHANGED <<disk, secret, server, budget>>

-----------------------------------------------------------------------------
(* runRunnerHeartbeat. *)

HbReady(at) == main = "serve" /\ hb = at /\ pend["hb"] = <<>>

\* Mutant: the heartbeat does not look at the shared status.
HbTickAlwaysOnline ==
    /\ HbReady("tick")
    /\ IF mem.stale
       THEN hb' = "blocked" /\ UNCHANGED hbStatus
       ELSE hb' = "post" /\ hbStatus' = "online"
    /\ UNCHANGED <<disk, secret, server, mainVars, pollVars, shared, budget>>

\* A tick reads the shared status and probes the management endpoint.
HbTick ==
    /\ HbReady("tick")
    /\ IF mem.stale
       THEN hb' = "blocked" /\ UNCHANGED hbStatus
       ELSE /\ hb' = "post"
            /\ \E passed \in BOOLEAN : hbStatus' = HeartbeatStatus(passed, mem.status)
    /\ UNCHANGED <<disk, secret, server, mainVars, pollVars, shared, budget>>

HbAccepted ==
    /\ HbReady("post") /\ Verdict(cfgAuth) = "issued"
    /\ srvStatus' = hbStatus
    /\ pend' = [pend EXCEPT !["hb"] = IF hbStatus = "degraded" THEN HealthSetDegraded
                                                              ELSE HealthSet(TRUE)]
    /\ hb' = "tick"
    /\ UNCHANGED <<disk, secret, srvBoot, srvTok, srvApi, mainVars, hbStatus, pollVars, mem, budget>>

HbReissued ==
    /\ HbReady("post") /\ Verdict(cfgAuth) = "reissued"
    /\ IdentityRecovery

HbStale ==
    /\ HbReady("post") /\ Verdict(cfgAuth) = "stale"
    /\ pend' = [pend EXCEPT !["hb"] = MarkStale]
    /\ hb' = "blocked"
    /\ UNCHANGED <<disk, secret, server, mainVars, hbStatus, pollVars, mem, budget>>

\* A transport error at any time, or a rejection with no special code.
HbFails ==
    /\ HbReady("post")
    /\ pend' = [pend EXCEPT !["hb"] = HealthSet(FALSE)]
    /\ hb' = "tick"
    /\ UNCHANGED <<disk, secret, server, mainVars, hbStatus, pollVars, mem, budget>>

-----------------------------------------------------------------------------
(* runRunnerCommands and pollRunnerCommandsOnceWithFound. An empty queue, a  *)
(* transport failure, a generic authentication failure or a malformed answer *)
(* changes nothing but the back-off, which is not modelled here.             *)

PollReady(at) == main = "serve" /\ poll = at /\ pend["poll"] = <<>>

PollStale ==
    /\ PollReady("idle")
    /\ mem.stale
    /\ poll' = "returned"
    /\ UNCHANGED <<disk, secret, server, mainVars, hbVars, pollAuth, pollReg, shared, budget>>

\* 404, 426 or a command without the exact version header.
PollIncompatible ==
    /\ PollReady("idle") /\ ~mem.stale
    /\ ~srvApi
    /\ pend' = [pend EXCEPT !["poll"] = StateSetDegraded \o HealthSetDegraded]
    /\ poll' = "tell"
    /\ UNCHANGED <<disk, secret, server, mainVars, hbVars, pollAuth, pollReg, mem, budget>>

\* The degraded heartbeat after an incompatibility; its failure is logged.
PollTell ==
    /\ PollReady("tell")
    /\ \/ Verdict(pollAuth) = "issued" /\ srvStatus' = "degraded"
       \/ UNCHANGED srvStatus
    /\ poll' = "returned"
    /\ UNCHANGED <<disk, secret, srvBoot, srvTok, srvApi, mainVars, hbVars, pollAuth, pollReg, shared, budget>>

PollIdentityStale ==
    /\ PollReady("idle") /\ ~mem.stale
    /\ srvApi /\ Verdict(pollAuth) = "stale"
    /\ pend' = [pend EXCEPT !["poll"] = MarkStale]
    /\ poll' = "returned"
    /\ UNCHANGED <<disk, secret, server, mainVars, hbVars, pollAuth, pollReg, mem, budget>>

\* A recoverable 401. With a bootstrap token in its copy of cfg the loop clears
\* the file, registers (the exchange is one step here) and goes on with the new
\* credential; without one, or when the bootstrap token is stale, it returns.
PollRejected ==
    /\ PollReady("idle") /\ ~mem.stale
    /\ srvApi /\ Verdict(pollAuth) = "unissued"
    /\ IF pollReg # 0 /\ pollReg = srvBoot
       THEN /\ Issue
            /\ authFile' = Len(srvTok') /\ pollAuth' = Len(srvTok')
            /\ fpFile' = pollReg
            /\ pend' = [pend EXCEPT !["poll"] = HealthSet(TRUE)]
            /\ UNCHANGED poll
       ELSE /\ poll' = "returned"
            /\ authFile' = IF pollReg # 0 THEN 0 ELSE authFile
            /\ UNCHANGED <<fpFile, srvTok, pollAuth, pend>>
    /\ UNCHANGED <<secret, srvBoot, srvStatus, srvApi, mainVars, hbVars, pollReg, mem, budget>>

PollClaim ==
    /\ PollReady("idle") /\ ~mem.stale
    /\ srvApi /\ Verdict(pollAuth) = "issued"
    /\ poll' = "report"
    /\ UNCHANGED <<disk, secret, server, mainVars, hbVars, pollAuth, pollReg, shared, budget>>

\* The command has run and its result is posted. A stale identity ends the
\* loop; any other answer, or none, is logged and the loop goes on.
PollReport ==
    /\ PollReady("report")
    /\ \/ /\ Verdict(pollAuth) = "stale"
          /\ pend' = [pend EXCEPT !["poll"] = MarkStale]
          /\ poll' = "returned"
       \/ poll' = "idle" /\ UNCHANGED pend
    /\ UNCHANGED <<disk, secret, server, mainVars, hbVars, pollAuth, pollReg, mem, budget>>

-----------------------------------------------------------------------------
Init ==
    /\ secret = 1 /\ srvBoot = 1
    /\ \/ authFile = 0 /\ srvTok = <<>>
       \/ LegacyVolume /\ authFile = 1 /\ srvTok = <<"issued">>
    /\ fpFile = 0
    /\ srvStatus = "none" /\ srvApi = TRUE
    /\ main = "down" /\ cfgAuth = 0 /\ cfgReg = 0 /\ bootTok = 0 /\ retried = FALSE
    /\ hb = "tick" /\ hbStatus = "online"
    /\ poll = "none" /\ pollAuth = 0 /\ pollReg = 0
    /\ mem = FreshMem
    /\ pend = [g \in Goroutines |-> <<>>]
    /\ revocations = 0 /\ faults = 0

Startup ==
    \/ Start \/ UseToken
    \/ Register \/ RegisterStale \/ RegisterFails
    \/ PersistToken \/ PersistFingerprint
    \/ InitialHeartbeat \/ InitialHeartbeatRejected \/ InitialHeartbeatReissued
    \/ InitialHeartbeatStale \/ InitialHeartbeatFails

HeartbeatLoop == HbTick \/ HbAccepted \/ HbReissued \/ HbStale \/ HbFails

PollLoop ==
    \/ PollStale \/ PollIncompatible \/ PollTell \/ PollIdentityStale
    \/ PollRejected \/ PollClaim \/ PollReport

Environment ==
    \/ Rotate \/ Rollout \/ ApiChange \/ Crash
    \/ \E kind \in RevokeKinds : Revoke(kind)

Next ==
    \/ Environment \/ Startup \/ HeartbeatLoop \/ PollLoop
    \/ \E g \in Goroutines : Store(g)

Spec == Init /\ [][Next]_vars

\* Goroutines are scheduled, every request is answered within ReportTimeout and
\* the kubelet restarts the container (weak fairness); the network is not down
\* for ever when a request is retried for ever, and the operator finishes a
\* rotation (strong fairness on the answered form of each request). The
\* container is not killed again and again for ever.
Fairness ==
    /\ <>[][~Crash]_vars
    /\ WF_vars(Start) /\ WF_vars(UseToken)
    /\ SF_vars(Register) /\ WF_vars(RegisterStale)
    /\ WF_vars(PersistToken) /\ WF_vars(PersistFingerprint)
    /\ SF_vars(InitialHeartbeat) /\ SF_vars(InitialHeartbeatRejected)
    /\ SF_vars(InitialHeartbeatReissued) /\ SF_vars(InitialHeartbeatStale)
    /\ WF_vars(HbTick) /\ WF_vars(HbAccepted \/ HbFails)
    /\ SF_vars(HbReissued) /\ SF_vars(HbStale)
    /\ \A g \in Goroutines : WF_vars(Store(g))
    /\ WF_vars(Rollout)

FairSpec == Spec /\ Fairness

-----------------------------------------------------------------------------
(* Properties. *)

\* Types. The fingerprint file holds the fingerprint of a bootstrap token, the
\* token file a token the control plane has issued.
TypeOK ==
    /\ authFile \in 0..Len(srvTok) /\ fpFile \in 0..srvBoot
    /\ secret \in 1..srvBoot /\ srvBoot \in 1..(MaxRotations + 1)
    /\ srvTok \in Seq(Verdicts)
    /\ srvStatus \in {"none", "online", "degraded"} /\ srvApi \in BOOLEAN
    /\ main \in {"down", "auth", "token", "fingerprint", "heartbeat", "serve", "blocked"}
    /\ cfgAuth \in 0..Len(srvTok) /\ cfgReg \in 0..srvBoot
    /\ bootTok \in 0..srvBoot /\ retried \in BOOLEAN
    /\ hb \in {"tick", "post", "blocked"} /\ hbStatus \in {"online", "degraded"}
    /\ poll \in {"none", "idle", "tell", "report", "returned"}
    /\ pollAuth \in 0..Len(srvTok) /\ pollReg \in 0..srvBoot
    /\ mem \in MemType
    /\ pend \in [Goroutines -> Seq(StoreType)]
    /\ revocations \in 0..MaxRevocations /\ faults \in 0..MaxFaults

\* While the loops run, both goroutines present the same credential and it is
\* the one on the auth volume: a crash at any moment restarts with the identity
\* that was in use, and neither loop is left behind on an older token.
CredentialDurable ==
    main = "serve" => authFile = cfgAuth /\ pollAuth = cfgAuth /\ cfgAuth # 0

\* The runner asks for a new credential only for a reason: every registration
\* the control plane has granted, but the first, is paid for by a rotation, by
\* a rejection of the previous credential or by a fault inside a registration.
\* Ordinary restarts, however many, cost none ("This preserves ordinary
\* restarts", runnerConfigFromEnv).
RegistrationsAccounted ==
    Len(srvTok) <= 1 + (srvBoot - 1) + revocations + faults

Identity == INSTANCE RunnerIdentity
    WITH granted <- Len(srvTok), kept <- authFile,
         used <- IF main = "serve" THEN cfgAuth ELSE 0

\* The runner implements RunnerIdentity: whatever is torn, lost, rejected or
\* rotated, both loops work under the credential on the volume, the volume never
\* goes back to an older one, and nobody registers while the loops run.
ImplementsIdentity == Identity!IdSpec

Accepted == main = "serve" /\ srvTok[cfgAuth] = "issued"

\* After a rotation is rolled out, the release recovers with a credential that
\* the control plane accepts ("allowing an in-place Secret update plus rollout to
\* recover the same release", runnerConfigFromEnv).
RotationRecovers ==
    \A b \in 1..(MaxRotations + 1) :
        (secret = b /\ srvBoot = b) ~> (srvBoot # b \/ Accepted)

\* The fingerprint is missing (a volume that predates it, a torn write), or was
\* then taken from the rotated Secret, beside a credential of an older token.
Misadopted == fpFile \in {0, secret} /\ authFile # 0 /\ srvTok[authFile] = "stale"

\* The same recovery with everything that can go wrong at the volume and at the
\* control plane: a missing fingerprint beside an older credential, and a 401
\* that no running loop recovers from (PollRejected), are its only obstacles.
\* No other crash, torn file, rejection or order of rotation and restart keeps
\* the release from an accepted credential.
RecoversOrKnownObstacle ==
    \A b \in 1..(MaxRotations + 1) :
        (secret = b /\ srvBoot = b) ~>
            \/ srvBoot # b \/ Accepted \/ Misadopted
            \/ main = "serve" /\ srvTok[cfgAuth] = "unissued"

\* A late answer to a heartbeat may turn /health back to online after the poll
\* loop has found the command API incompatible, but it does not stay so.
OverclaimHeals ==
    (mem.status = "degraded" /\ HealthView = "online") ~> (HealthView # "online")

\* The poll loop ends only after the runner has been marked degraded (an
\* incompatible API, or a stale identity): authentication failures "are kept
\* visible in logs and retried on the next interval".
PollEndsOnlyWhenDegraded ==
    poll = "returned" /\ pend["poll"] = <<>> => mem.status = "degraded"

\* What is true of the end of the poll loop: it leaves the runner degraded, or the
\* control plane does not know its credential and never will again. In particular
\* it never ends on a stale identity before the status says degraded, whichever
\* goroutine found out and however the stores of the two interleave.
PollEndsForAReason ==
    poll = "returned" /\ pend["poll"] = <<>> =>
        mem.status = "degraded" \/ srvTok[pollAuth] = "unissued"

\* "a runner must not overwrite a detected command API incompatibility with a
\* later online heartbeat".
NoOnlineOverwrite ==
    [][poll = "returned" /\ mem.status = "degraded" /\ srvStatus = "degraded" => srvStatus' # "online"]_vars

\* The runner is degraded, and no heartbeat is on its way that read the status
\* before it was.
Settled ==
    main = "serve" /\ mem.status = "degraded" /\ ~(hb = "post" /\ hbStatus = "online")

\* The same promise for every heartbeat but one that was on its way: from then on
\* until the process ends, no heartbeat turns the reported status back to online.
OnlyInFlightOverwrites ==
    [][Settled => /\ srvStatus' \in {srvStatus, "degraded"}
                  /\ Settled' \/ main' = "down"]_vars

=============================================================================
