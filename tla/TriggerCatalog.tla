--------------------------- MODULE TriggerCatalog ---------------------------
(***************************************************************************)
(* What the trigger repositories promise: the in-memory backend of         *)
(* src/mrmkt/ext/backend/memory.py, whose every method is one step.        *)
(* A trigger is known here by its name; ids are the store's own business.  *)
(***************************************************************************)
CONSTANTS
    Name,     \* trigger names
    Key,      \* (symbol, indicator, operator) triples
    SetName   \* trigger set names

VARIABLES
    triggers, \* stored triggers, as records of name, key and enabled
    sets,     \* names of the trigger sets that exist
    members,  \* pairs of a set name and a trigger name
    effect    \* the last change made to a trigger: what was asked, of which name

vars == <<triggers, sets, members, effect>>

Effect == [op: {"none", "add", "remove", "enable", "disable"}, name: Name \cup {"none"}]
NoEffect == [op |-> "none", name |-> "none"]

Trigger == [name: Name, key: Key, enabled: BOOLEAN]

Named(n) == {t \in triggers : t.name = n}

TypeOK ==
    /\ triggers \subseteq Trigger
    /\ sets \subseteq SetName
    /\ members \subseteq SetName \X Name
    /\ effect \in Effect

Init ==
    /\ triggers = {}
    /\ sets = {}
    /\ members = {}
    /\ effect = NoEffect

\* add_trigger: name and key must both be free.
AddTrigger(n, k) ==
    /\ \A t \in triggers : t.name # n /\ t.key # k
    /\ triggers' = triggers \cup {[name |-> n, key |-> k, enabled |-> TRUE]}
    /\ effect' = [op |-> "add", name |-> n]
    /\ UNCHANGED <<sets, members>>

\* remove_trigger also discards the name from every set.
RemoveTrigger(n) ==
    /\ Named(n) # {}
    /\ triggers' = triggers \ Named(n)
    /\ members' = {m \in members : m[2] # n}
    /\ effect' = [op |-> "remove", name |-> n]
    /\ UNCHANGED sets

SetTriggerEnabled(n, flag) ==
    /\ Named(n) # {}
    /\ triggers' = (triggers \ Named(n))
                       \cup {[t EXCEPT !.enabled = flag] : t \in Named(n)}
    /\ effect' = [op |-> IF flag THEN "enable" ELSE "disable", name |-> n]
    /\ UNCHANGED <<sets, members>>

\* A store may drop the memberships of a trigger it enables or disables: Postgres
\* deletes and inserts its row, and the foreign key cascades.  In memory they stay.
LoseMembers(n) ==
    /\ Named(n) # {}
    /\ members' = {m \in members : m[2] # n}
    /\ UNCHANGED <<triggers, sets, effect>>

CreateSet(s) ==
    /\ s \notin sets
    /\ sets' = sets \cup {s}
    /\ UNCHANGED <<triggers, members, effect>>

AddToSet(s, n) ==
    /\ s \in sets
    /\ Named(n) # {}
    /\ members' = members \cup {<<s, n>>}
    /\ UNCHANGED <<triggers, sets, effect>>

RemoveFromSet(s, n) ==
    /\ <<s, n>> \in members
    /\ members' = members \ {<<s, n>>}
    /\ UNCHANGED <<triggers, sets, effect>>

Next ==
    \/ \E n \in Name, k \in Key : AddTrigger(n, k)
    \/ \E n \in Name : RemoveTrigger(n) \/ LoseMembers(n)
    \/ \E n \in Name, flag \in BOOLEAN : SetTriggerEnabled(n, flag)
    \/ \E s \in SetName : CreateSet(s)
    \/ \E s \in SetName, n \in Name : AddToSet(s, n) \/ RemoveFromSet(s, n)

Spec == Init /\ [][Next]_vars

=============================================================================
