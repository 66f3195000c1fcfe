--------------------------- MODULE VerifiedCopy ----------------------------
(***************************************************************************)
(* What a PVC copy and a MySQL restore promise, with no helper Pod, no     *)
(* stream, no marker and no receipt in it: out of all the states the       *)
(* source has ever been in, at most one is published on the target; a      *)
(* published copy is never replaced or withdrawn, and an execution that    *)
(* reports success reports exactly the published copy.                     *)
(***************************************************************************)
CONSTANTS Attempts,   \* executions of the copy, concurrent or retried
          Contents,   \* contents a volume or database can have
          NoContent   \* nothing published, nothing reported

VARIABLES seen,       \* contents the source has had
          published,  \* the copy on the target
          reported    \* what each execution has returned

specVars == <<seen, published, reported>>

SpecInit ==
    /\ seen \in {{c} : c \in Contents}
    /\ published = NoContent
    /\ reported = [a \in Attempts |-> NoContent]

SourceChanges ==
    /\ \E c \in Contents : seen' = seen \cup {c}
    /\ UNCHANGED <<published, reported>>

Publish ==
    /\ published = NoContent
    /\ published' \in seen
    /\ UNCHANGED <<seen, reported>>

\* A copy is published at the latest when it is first reported.
Report(a) ==
    /\ reported[a] = NoContent
    /\ published' \in IF published = NoContent THEN seen ELSE {published}
    /\ reported' = [reported EXCEPT ![a] = published']
    /\ UNCHANGED seen

SpecNext == SourceChanges \/ Publish \/ \E a \in Attempts : Report(a)

CopySpec == SpecInit /\ [][SpecNext]_specVars

=============================================================================
