---------------------------- MODULE TriggerStore ----------------------------
(***************************************************************************)
(* The trigger tables in Postgres and the commands that CLI processes and  *)
(* web request threads run against them at the same time.  PostgresSqlClient*)
(* runs every statement in a transaction and on a connection of its own,   *)
(* so a command is a sequence of steps, one per statement, and the steps   *)
(* of different clients interleave.                                        *)
(***************************************************************************)
EXTENDS Integers, FiniteSets

CONSTANTS
    Client,   \* processes and threads running commands
    Name,     \* trigger names
    Key,      \* (symbol, indicator, operator) triples
    SetName,  \* trigger set names
    MaxId,    \* bound: how many rows the SERIAL column of the model numbers
    Turns,    \* what serial may be
    None

ASSUME StoreAssumption ==
    /\ MaxId \in Nat
    /\ Turns \subseteq BOOLEAN
    /\ None \notin Int \cup Name \cup Key \cup SetName

VARIABLES
    serial,   \* of the whole behaviour: commands take turns and no client dies inside one
    rows,     \* table trigger
    next_id,  \* the SERIAL sequence of trigger.id
    sets,     \* table trigger_set
    members,  \* table trigger_set_member
    calls,    \* the command each client is in, after which statement
    answer,   \* what each client's last command returned, and the id asked for
    born,     \* history: names created and not removed by a delete command
    lost,     \* history: names a toggle took out of the table and dropped
    raced,    \* history: names whose delete command overlapped a toggle
    effect    \* history: the last change made to a trigger, as it was asked for

tables == <<rows, next_id, sets, members>>
history == <<born, lost, raced, effect>>
vars == <<serial, tables, calls, answer, history>>

Row == [id: 1..MaxId, name: Name, key: Key, enabled: BOOLEAN]
Effect == [op: {"none", "add", "remove", "enable", "disable"}, name: Name \cup {"none"}]
NoEffect == [op |-> "none", name |-> "none"]
Status == {"none", "success", "not_found", "invalid", "error"}

\* A command in progress: the operation and next statement in "at", and what it
\* remembers from earlier statements.
Idle == [at |-> "idle"]
Call ==
    {Idle}
    \cup [at: {"create_select"}, key: Key]
    \cup [at: {"delete_list"}, name: Name]
    \cup [at: {"delete_row"}, id: 1..MaxId, name: Name]
    \cup [at: {"toggle_select"}, id: 1..MaxId, flag: BOOLEAN]
    \cup [at: {"toggle_delete", "toggle_insert"}, row: Row, flag: BOOLEAN]
    \cup [at: {"toggle_refresh"}, id: 1..MaxId]
    \cup [at: {"add_select", "add_insert"}, set: SetName, name: Name]

TypeOK ==
    /\ serial \in Turns
    /\ rows \subseteq Row
    /\ next_id \in 1..(MaxId + 1)
    /\ sets \subseteq SetName
    /\ members \subseteq SetName \X Name
    /\ calls \in [Client -> Call]
    /\ answer \in [Client -> Status]
    /\ born \subseteq Name
    /\ lost \subseteq Name
    /\ raced \subseteq Name
    /\ effect \in Effect

Init ==
    /\ serial \in Turns
    /\ rows = {}
    /\ next_id = 1
    /\ sets = {}
    /\ members = {}
    /\ calls = [c \in Client |-> Idle]
    /\ answer = [c \in Client |-> "none"]
    /\ born = {}
    /\ lost = {}
    /\ raced = {}
    /\ effect = NoEffect

-----------------------------------------------------------------------------
(* Statements. *)

WithId(i) == {r \in rows : r.id = i}
Stored(n) == \E r \in rows : r.name = n
Taken(n, k) == \E r \in rows : r.name = n \/ r.key = k

\* Bound: a command that inserts starts only while ids are left for all of them.
Room ==
    next_id + Cardinality({c \in Client : calls[c].at \in
                               {"toggle_select", "toggle_delete", "toggle_insert"}})
        <= MaxId

\* An insert that is refused burns an id too; the model numbers rows only.
InsertRow(n, k, flag) ==
    /\ next_id <= MaxId
    /\ rows' = rows \cup {[id |-> next_id, name |-> n, key |-> k, enabled |-> flag]}
    /\ next_id' = next_id + 1
    /\ UNCHANGED <<sets, members>>

\* The foreign key of trigger_set_member cascades on delete.
DeleteRows(gone) ==
    /\ rows' = rows \ gone
    /\ members' = {m \in members : \A r \in gone : m[2] # r.name}
    /\ UNCHANGED <<next_id, sets>>

-----------------------------------------------------------------------------
(* Control of a client. *)

MayStart(c) ==
    /\ calls[c] = Idle
    /\ serial => \A d \in Client : calls[d] = Idle

GoTo(c, call) ==
    /\ calls' = [calls EXCEPT ![c] = call]
    /\ answer' = [answer EXCEPT ![c] = "none"]

Return(c, status) ==
    /\ calls' = [calls EXCEPT ![c] = Idle]
    /\ answer' = [answer EXCEPT ![c] = status]

-----------------------------------------------------------------------------
(* CreateTrigger and add_trigger: an insert, then a select by the key. *)

CreateInsert(c, n, k) ==
    /\ MayStart(c)
    /\ Room
    /\ IF Taken(n, k)
       THEN Return(c, "invalid") /\ UNCHANGED <<tables, history>>
       ELSE /\ InsertRow(n, k, TRUE)
            /\ born' = born \cup {n}
            /\ lost' = lost \ {n}
            /\ raced' = raced \ {n}
            /\ effect' = [op |-> "add", name |-> n]
            /\ GoTo(c, [at |-> "create_select", key |-> k])

\* rows[0] of an empty answer is an IndexError, reported as an error.
CreateSelect(c) ==
    /\ calls[c].at = "create_select"
    /\ Return(c, IF \E r \in rows : r.key = calls[c].key THEN "success" ELSE "error")
    /\ UNCHANGED <<tables, history>>

-----------------------------------------------------------------------------
(* DeleteTrigger by name, and the web endpoint that first resolves an id. *)

DeleteById(c, i) ==
    /\ MayStart(c)
    /\ IF WithId(i) = {} THEN Return(c, "not_found")
       ELSE \E r \in WithId(i) : GoTo(c, [at |-> "delete_list", name |-> r.name])
    /\ UNCHANGED <<tables, history>>

DeleteByName(c, n) ==
    /\ MayStart(c)
    /\ GoTo(c, [at |-> "delete_list", name |-> n])
    /\ UNCHANGED <<tables, history>>

\* Deviation: the first listed trigger is taken, whatever its name.
DeleteListFirst(c) ==
    /\ calls[c].at = "delete_list"
    /\ \E r \in rows :
           /\ \A q \in rows : r.id <= q.id
           /\ GoTo(c, [at |-> "delete_row", id |-> r.id, name |-> calls[c].name])
    /\ UNCHANGED <<tables, history>>

DeleteList(c) ==
    /\ calls[c].at = "delete_list"
    /\ LET n == calls[c].name IN
       IF ~Stored(n) THEN Return(c, "not_found")
       ELSE \E r \in rows :
                /\ r.name = n
                /\ GoTo(c, [at |-> "delete_row", id |-> r.id, name |-> n])
    /\ UNCHANGED <<tables, history>>

\* A toggle that holds the row of a name, about to delete it or to put it back.
Toggling(n) ==
    \E c \in Client :
        calls[c].at \in {"toggle_delete", "toggle_insert"} /\ calls[c].row.name = n

\* What remove_trigger returns is ignored: the command reports success.
DeleteRow(c) ==
    /\ calls[c].at = "delete_row"
    /\ DeleteRows(WithId(calls[c].id))
    /\ born' = born \ {calls[c].name}
    /\ lost' = lost \ {calls[c].name}
    /\ raced' = IF WithId(calls[c].id) = {} \/ Toggling(calls[c].name)
                THEN raced \cup {calls[c].name} ELSE raced
    /\ effect' = IF WithId(calls[c].id) = {} THEN effect
                 ELSE [op |-> "remove", name |-> calls[c].name]
    /\ Return(c, "success")

-----------------------------------------------------------------------------
(* SetTriggerEnabled: list, then the select, delete and insert of           *)
(* set_trigger_enabled, then a second list by the id of the request.       *)

ToggleList(c, i, flag) ==
    /\ MayStart(c)
    /\ Room
    /\ IF WithId(i) = {} THEN Return(c, "not_found")
       ELSE GoTo(c, [at |-> "toggle_select", id |-> i, flag |-> flag])
    /\ UNCHANGED <<tables, history>>

ToggleSelect(c) ==
    /\ calls[c].at = "toggle_select"
    /\ LET found == WithId(calls[c].id) IN
       IF found = {} THEN Return(c, "not_found")
       ELSE \E r \in found :
                GoTo(c, [at |-> "toggle_delete", row |-> r, flag |-> calls[c].flag])
    /\ UNCHANGED <<tables, history>>

ToggleDelete(c) ==
    /\ calls[c].at = "toggle_delete"
    /\ DeleteRows(WithId(calls[c].row.id))
    /\ GoTo(c, [calls[c] EXCEPT !.at = "toggle_insert"])
    /\ UNCHANGED history

\* Deviation: only enabling writes the row back.
ToggleInsertEnabled(c) ==
    /\ calls[c].at = "toggle_insert"
    /\ LET r == calls[c].row IN
       IF calls[c].flag
       THEN InsertRow(r.name, r.key, TRUE)
       ELSE UNCHANGED tables
    /\ Return(c, "success")
    /\ UNCHANGED history

\* The insert names no id, so the row comes back under a new one.  A name or
\* key that was taken meanwhile is a Duplicate, reported as an error.
ToggleInsert(c) ==
    /\ calls[c].at = "toggle_insert"
    /\ LET r == calls[c].row IN
       IF Taken(r.name, r.key)
       THEN /\ Return(c, "error")
            /\ lost' = IF Stored(r.name) THEN lost ELSE lost \cup {r.name}
            /\ UNCHANGED <<tables, born, raced, effect>>
       ELSE /\ InsertRow(r.name, r.key, calls[c].flag)
            /\ lost' = lost \ {r.name}
            /\ effect' = [op |-> IF calls[c].flag THEN "enable" ELSE "disable",
                           name |-> r.name]
            /\ UNCHANGED <<born, raced>>
            /\ GoTo(c, [at |-> "toggle_refresh", id |-> r.id])

\* next() over no match is a StopIteration, reported as an error.
ToggleRefresh(c) ==
    /\ calls[c].at = "toggle_refresh"
    /\ Return(c, IF WithId(calls[c].id) = {} THEN "error" ELSE "success")
    /\ UNCHANGED <<tables, history>>

-----------------------------------------------------------------------------
(* Trigger sets.  No command removes a set, so a set found once stays.     *)

CreateSet(c, s) ==
    /\ MayStart(c)
    /\ IF s \in sets
       THEN Return(c, "invalid") /\ UNCHANGED tables
       ELSE /\ sets' = sets \cup {s}
            /\ Return(c, "success")
            /\ UNCHANGED <<rows, next_id, members>>
    /\ UNCHANGED history

\* AddTriggerToSet checks both names before it writes ...
AddCheck(c, s, n) ==
    /\ MayStart(c)
    /\ IF s \in sets /\ Stored(n)
       THEN GoTo(c, [at |-> "add_select", set |-> s, name |-> n])
       ELSE Return(c, "not_found")
    /\ UNCHANGED <<tables, history>>

\* ... add_to_set checks again, and raises through the command.
AddSelect(c) ==
    /\ calls[c].at = "add_select"
    /\ IF Stored(calls[c].name)
       THEN GoTo(c, [calls[c] EXCEPT !.at = "add_insert"])
       ELSE Return(c, "error")
    /\ UNCHANGED <<tables, history>>

\* Deviation: trigger_name references nothing.
AddInsertUnchecked(c) ==
    /\ calls[c].at = "add_insert"
    /\ members' = members \cup {<<calls[c].set, calls[c].name>>}
    /\ Return(c, "success")
    /\ UNCHANGED <<rows, next_id, sets, history>>

\* The foreign key refuses a name that vanished since.
AddInsert(c) ==
    /\ calls[c].at = "add_insert"
    /\ IF Stored(calls[c].name)
       THEN /\ members' = members \cup {<<calls[c].set, calls[c].name>>}
            /\ Return(c, "success")
       ELSE Return(c, "error") /\ UNCHANGED members
    /\ UNCHANGED <<rows, next_id, sets, history>>

RemoveFromSet(c, s, n) ==
    /\ MayStart(c)
    /\ members' = members \ {<<s, n>>}
    /\ Return(c, IF <<s, n>> \in members THEN "success" ELSE "not_found")
    /\ UNCHANGED <<rows, next_id, sets, history>>

-----------------------------------------------------------------------------

\* A client process or request thread dies between two statements.
Crash(c) ==
    /\ ~serial
    /\ calls[c] # Idle
    /\ lost' = IF /\ calls[c].at = "toggle_insert"
                  /\ ~Stored(calls[c].row.name)
               THEN lost \cup {calls[c].row.name} ELSE lost
    /\ calls' = [calls EXCEPT ![c] = Idle]
    /\ UNCHANGED <<tables, answer, born, raced, effect>>

Step ==
    \E c \in Client :
        \/ \E n \in Name, k \in Key : CreateInsert(c, n, k)
        \/ CreateSelect(c)
        \/ \E n \in Name : DeleteByName(c, n)
        \/ \E i \in 1..MaxId : DeleteById(c, i)
        \/ DeleteList(c)
        \/ DeleteRow(c)
        \/ \E i \in 1..MaxId, flag \in BOOLEAN : ToggleList(c, i, flag)
        \/ ToggleSelect(c)
        \/ ToggleDelete(c)
        \/ ToggleInsert(c)
        \/ ToggleRefresh(c)
        \/ \E s \in SetName : CreateSet(c, s)
        \/ \E s \in SetName, n \in Name :
               AddCheck(c, s, n) \/ RemoveFromSet(c, s, n)
        \/ AddSelect(c)
        \/ AddInsert(c)
        \/ Crash(c)

Next == Step /\ UNCHANGED serial

Spec == Init /\ [][Next]_vars

-----------------------------------------------------------------------------

(* Properties. *)

InFlight(n) ==
    \E c \in Client : calls[c].at = "toggle_insert" /\ calls[c].row.name = n

\* Every member of a trigger set is a stored trigger of an existing set, however
\* deletes, toggles and additions interleave (add_to_set, migration12).  States are well typed.
MembersAreStored ==
    /\ TypeOK
    /\ \A m \in members : m[1] \in sets /\ Stored(m[2])

\* No trigger vanishes unnoticed: a trigger created and not deleted since is in
\* the table, or in the hands of a toggle that will put it back, or was dropped
\* by a toggle that died or met a duplicate between its delete and its insert
\* (set_trigger_enabled).
CreatedIsAccountedFor ==
    \A n \in born : Stored(n) \/ InFlight(n) \/ n \in lost

\* A deleted trigger stays deleted unless its delete overlapped a toggle, which
\* may put the row back or give it an id the delete does not know
\* (DeleteTrigger.execute, set_trigger_enabled).
DeletedStaysDeleted ==
    \A n \in Name : Stored(n) => n \in born \/ n \in raced

\* The scenario "Enabled-only listing hides disabled triggers" of
\* api_triggers.feature: disabling a stored trigger is answered with success.
ToggleAnswersSuccess ==
    [][\A c \in Client :
          calls[c].at = "toggle_refresh" /\ calls'[c] = Idle
              => answer'[c] = "success"]_vars

\* Seen without ids, and with a row in the hands of a toggle still counted as
\* stored, commands that take turns do what the in-memory backend does in one
\* step each.  Of commands that overlap nothing of the kind is said.
AsTrigger(r) == [name |-> r.name, key |-> r.key, enabled |-> r.enabled]

HeldRows == {calls[c].row : c \in {d \in Client : calls[d].at = "toggle_insert"}}

Catalog == INSTANCE TriggerCatalog WITH
    triggers <- IF serial THEN {AsTrigger(r) : r \in rows \cup HeldRows} ELSE {},
    sets <- IF serial THEN sets ELSE {},
    members <- IF serial THEN members ELSE {},
    effect <- IF serial THEN effect ELSE NoEffect

ImplementsCatalog == Catalog!Spec

=============================================================================
