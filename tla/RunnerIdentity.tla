--------------------------- MODULE RunnerIdentity ---------------------------
(***************************************************************************)
(* What the runner promises about its identity, with no file, no loop and  *)
(* no heartbeat in it. The control plane grants credentials, numbered from *)
(* 1. The runner asks for one only while nothing of it is at work, keeps   *)
(* none but the latest one, and works under the one it keeps, which does   *)
(* not change as long as it works.                                         *)
(***************************************************************************)
EXTENDS Naturals

VARIABLES granted,  \* credentials the control plane has granted
          kept,     \* the credential on the auth volume, 0 if there is none
          used      \* the credential the runner works under, 0 if it does not work

idVars == <<granted, kept, used>>

\* A volume that was used before may hold the first credential.
IdInit ==
    /\ granted \in {0, 1} /\ kept = granted
    /\ used = 0

Grant ==
    /\ used = 0
    /\ granted' = granted + 1
    /\ UNCHANGED <<kept, used>>

Keep ==
    /\ used = 0 /\ granted # 0
    /\ kept' = granted
    /\ UNCHANGED <<granted, used>>

Serve ==
    /\ used = 0 /\ kept # 0
    /\ used' = kept
    /\ UNCHANGED <<granted, kept>>

\* The runner stops, and may give its credential up.
Stop ==
    /\ used' = 0
    /\ kept' \in {0, kept}
    /\ UNCHANGED granted

IdNext == Grant \/ Keep \/ Serve \/ Stop

IdSpec == IdInit /\ [][IdNext]_idVars

=============================================================================
