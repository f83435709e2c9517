--------------------------- MODULE TwoPersonRule ---------------------------
(***************************************************************************)
(* What the attestation workflow promises to the rest of the platform,     *)
(* without transactions, rows or locks: a user becomes attested only at    *)
(* the moment the second of the two reviewers of one dossier consents to   *)
(* the very evidence the first one consented to, and then immediately.     *)
(* Module Attestation is shown to implement this specification.            *)
(***************************************************************************)
EXTENDS Naturals, FiniteSets

CONSTANTS
    DossierIds,     \* identifiers a dossier may get
    Subjects,       \* the people who may be attested
    Judges,         \* the people who may review a dossier
    Evidence        \* what a judge may consent to

VARIABLES
    dossiers,       \* the dossiers opened so far
    consents,       \* every consent ever given; none is ever taken back
    attested        \* the subjects who are attested now

abstractVars == <<dossiers, consents, attested>>

Dossier == [id: DossierIds, subject: Subjects, judges: SUBSET Judges]
Consent == [dossier: DossierIds, judge: Judges, evidence: Evidence]

Init ==
    /\ dossiers = {}
    /\ consents = {}
    /\ attested = {}

\* A dossier is opened under a fresh identifier, with two distinct judges.
Open(d) ==
    /\ \A other \in dossiers : other.id # d.id
    /\ \E j1, j2 \in Judges : j1 # j2 /\ d.judges = {j1, j2}
    /\ dossiers' = dossiers \cup {d}
    /\ UNCHANGED <<consents, attested>>

HasConsented(d, j) == \E c \in consents : c.dossier = d.id /\ c.judge = j

\* The first judge of a dossier to consent settles nothing.
ConsentFirst(d, j, e) ==
    /\ j \in d.judges
    /\ \A k \in d.judges : ~HasConsented(d, k)
    /\ consents' = consents \cup {[dossier |-> d.id, judge |-> j, evidence |-> e]}
    /\ UNCHANGED <<dossiers, attested>>

\* The second one must consent to the same evidence, and attests the subject.
ConsentSecond(d, j, e) ==
    /\ j \in d.judges
    /\ ~HasConsented(d, j)
    /\ \A k \in d.judges \ {j} :
          [dossier |-> d.id, judge |-> k, evidence |-> e] \in consents
    /\ consents' = consents \cup {[dossier |-> d.id, judge |-> j, evidence |-> e]}
    /\ attested' = attested \cup {d.subject}
    /\ UNCHANGED dossiers

\* A subject may stop being attested at any time.
Withdraw(s) ==
    /\ s \in attested
    /\ attested' = attested \ {s}
    /\ UNCHANGED <<dossiers, consents>>

Next ==
    \/ \E d \in Dossier : Open(d)
    \/ \E d \in dossiers, j \in Judges, e \in Evidence :
          ConsentFirst(d, j, e) \/ ConsentSecond(d, j, e)
    \/ \E s \in Subjects : Withdraw(s)

Spec == Init /\ [][Next]_abstractVars
=============================================================================
