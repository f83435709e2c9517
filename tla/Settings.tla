------------------------------ MODULE Settings ------------------------------
(***************************************************************************)
(* A configuration value: seeded at every start, edited by admins, read by *)
(* the request limiter, with a history of its edits.                       *)
(*                                                                         *)
(* An edit is a transaction that reads the value, updates it and adds the  *)
(* row of the history; at READ COMMITTED it may commit after edits it has  *)
(* not seen.                                                               *)
(***************************************************************************)
EXTENDS Integers, Sequences

CONSTANTS
    Values,    \* what an admin may ask for
    Default,   \* the value of DEFAULTS
    Unset,     \* no row yet
    Editors,   \* update handlers running at the same time
    MaxEdits   \* bound: rows of the history

ASSUME SettingsAssumption == Default \in Int /\ MaxEdits \in Nat /\ Unset \notin Values \cup {Default}

VARIABLES
    value,  \* platform_configuration.value of the key
    edits,  \* platform_configuration_history, in the order of the commits
    edit    \* what each running update handler holds

settings == <<value, edits, edit>>

NoEdit == [op |-> "idle"]

\* began, the number of commits a handler has seen, is read by the properties alone.
EditRequest == {NoEdit} \cup [op: {"edit"}, prev: Values \cup {Default}, new: Values, began: Nat]
HistoryRow == [prev: Values \cup {Default}, new: Values, began: Nat]

SettingsInit ==
    /\ value = Unset
    /\ edits = <<>>
    /\ edit = [e \in Editors |-> NoEdit]

\* Slip: the defaults are put back.
SeedLax == Default

\* ON CONFLICT (key) DO NOTHING.
Seeded == IF value = Unset THEN Default ELSE value

\* initialize_defaults, at every start of a server.
Seed ==
    /\ value' = Seeded
    /\ UNCHANGED <<edits, edit>>

\* validate_value, of a value of type integer.
ValidValue(v) == v \in Int

\* update_configuration: the value it will report as the previous one is read first.
EditRead(e, v) ==
    /\ edit[e] = NoEdit /\ value # Unset /\ Len(edits) < MaxEdits
    /\ ValidValue(v)
    /\ edit' = [edit EXCEPT ![e] = [op |-> "edit", prev |-> value, new |-> v, began |-> Len(edits)]]
    /\ UNCHANGED <<value, edits>>

\* update_value.
Updated(r) == r.new

\* record_history.
EditRow(r) == [prev |-> r.prev, new |-> r.new, began |-> r.began]

\* The update waits for the row, and holds it to the end.
EditCommit(e) ==
    /\ edit[e] # NoEdit /\ Len(edits) < MaxEdits
    /\ value' = Updated(edit[e])
    /\ edits' = Append(edits, EditRow(edit[e]))
    /\ edit' = [edit EXCEPT ![e] = NoEdit]

\* The transaction is rolled back.
EditDrop(e) ==
    /\ edit[e] # NoEdit
    /\ edit' = [edit EXCEPT ![e] = NoEdit]
    /\ UNCHANGED <<value, edits>>

SettingsTypeOK ==
    /\ value \in Values \cup {Default, Unset}
    /\ edits \in Seq(HistoryRow)
    /\ edit \in [Editors -> EditRequest]

\* The value before the k-th edit and, for one edit more than there are, the value now.
Before(k) == IF k = 1 THEN Default ELSE edits[k - 1].new

\* The history tells the value: it is what the last edit to commit made it, whatever
\* edits raced and however often the server started again.  And the previous value a
\* row names is the one there was when its handler looked: the one it replaced, unless
\* another edit overtook it.
HistoryTellsValue ==
    /\ value # Unset => value = Before(Len(edits) + 1)
    /\ \A k \in DOMAIN edits :
           edits[k].began < k /\ edits[k].prev = Before(edits[k].began + 1)

\* What the history's invariance rests on: a handler holds the value there was after
\* the edits it has seen.
EditsFollow ==
    /\ HistoryTellsValue
    /\ value # Unset => value \in Int
    /\ value = Unset => edits = <<>>
    /\ \A e \in Editors : edit[e] # NoEdit =>
           /\ value # Unset
           /\ edit[e].new \in Int
           /\ edit[e].began <= Len(edits)
           /\ edit[e].prev = Before(edit[e].began + 1)
=============================================================================
