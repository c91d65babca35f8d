------------------------------- MODULE Watch -------------------------------
(***************************************************************************)
(* mrmkt watch (src/mrmkt/command/watch.py): a process that takes a        *)
(* snapshot of the enabled stored triggers, configures a trigger engine    *)
(* from it, and on each alert of a "once" trigger disables the stored row  *)
(* with the three statements of set_trigger_enabled.  Operators create,    *)
(* delete, enable and disable triggers meanwhile; their commands are one   *)
(* step here (TriggerStore takes them apart).  The watch may end at any    *)
(* point: Ctrl+C, a crash, or an exception of the database that passes     *)
(* through the message callback.  The engine is AlertEngine's: the watch   *)
(* configures it and gives it no history to roll.                          *)
(***************************************************************************)
EXTENDS AlertEngine, Sequences, FiniteSets

CONSTANTS
    Name,         \* trigger names
    Definition,   \* symbol, rule and fixed value (or None) of each trigger name
    StoredLevel,  \* close and buy level of each symbol, None without enough bars
    Timeline,     \* the moments quotes may carry, in order
    MaxId         \* bound: how many rows the SERIAL column of the model numbers

ASSUME WatchAssumption ==
    /\ MaxId \in Nat
    /\ IsFiniteSet(Symbol)
    /\ Definition \in [Name -> [symbol: Symbol, rule: Rules, value: Price \cup {None}]]
    /\ StoredLevel \in [Symbol -> [close: Price, low: Price] \cup {None}]

ASSUME TimelineAssumption == Timeline \in Seq(Moment) /\ Timeline # <<>>

VARIABLES
    rows,     \* table trigger
    next_id,  \* the SERIAL sequence of trigger.id
    now,      \* position in Timeline
    phase,    \* what the watch process is doing
    watched,  \* trigger_by_symbol: the snapshot row of each symbol, or None
    streamed, \* symbols the price source was asked for
    pending,  \* the row being disabled, or None
    alerted,  \* history: names alerted since an operator last enabled them
    unsaved   \* history: names whose alert could not be recorded in the store

store == <<rows, next_id>>
snapshot == <<watched, streamed>>
vars == <<store, now, phase, snapshot, pending, engine, alerted, unsaved>>

Nothing == [s \in Symbol |-> None]

Row == [id: 1..MaxId, name: Name, enabled: BOOLEAN]
Phase == {"off", "streaming", "persist_select", "persist_delete", "persist_insert"}
Persisting == phase \in {"persist_select", "persist_delete", "persist_insert"}

TypeOK ==
    /\ rows \subseteq Row
    /\ next_id \in 1..(MaxId + 1)
    /\ now \in DOMAIN Timeline
    /\ phase \in Phase
    /\ watched \in [Symbol -> Row \cup {None}]
    /\ streamed \subseteq Symbol
    /\ pending \in Row \cup {None}
    /\ pending # None <=> Persisting
    /\ EngineTypeOK
    /\ alerted \subseteq Name
    /\ unsaved \subseteq Name

Init ==
    /\ rows = {}
    /\ next_id = 1
    /\ now = 1
    /\ phase = "off"
    /\ watched = Nothing
    /\ streamed = {}
    /\ pending = None
    /\ EngineInit /\ policy = "regular"
    /\ alerted = {}
    /\ unsaved = {}

-----------------------------------------------------------------------------
(* The store, and the bound on its ids: the rows a running watch may still *)
(* have to write back keep one id each.                                    *)

SymbolOf(r) == Definition[r.name].symbol
Once(n) == Definition[n].rule.frequency = "once"
Stored(n) == \E r \in rows : r.name = n
WithId(i) == {r \in rows : r.id = i}

Reserved ==
    Cardinality({s \in Symbol : watched[s] # None /\ Once(watched[s].name)
                                    /\ s \notin spent})
        + (IF Persisting THEN 1 ELSE 0)

InsertRow(n, flag) ==
    /\ rows' = rows \cup {[id |-> next_id, name |-> n, enabled |-> flag]}
    /\ next_id' = next_id + 1

\* Operators.
Create(n) ==
    /\ ~Stored(n)
    /\ next_id + Reserved <= MaxId
    /\ InsertRow(n, TRUE)
    /\ alerted' = alerted \ {n}
    /\ unsaved' = unsaved \ {n}
    /\ UNCHANGED <<now, phase, snapshot, pending, engine>>

Delete(n) ==
    /\ Stored(n)
    /\ rows' = {r \in rows : r.name # n}
    /\ UNCHANGED <<next_id, now, phase, snapshot, pending, engine, alerted, unsaved>>

SetEnabled(r, flag) ==
    /\ r \in rows
    /\ next_id + Reserved <= MaxId
    /\ rows' = (rows \ {r}) \cup {[id |-> next_id, name |-> r.name, enabled |-> flag]}
    /\ next_id' = next_id + 1
    /\ alerted' = IF flag THEN alerted \ {r.name} ELSE alerted
    /\ unsaved' = IF flag THEN unsaved \ {r.name} ELSE unsaved
    /\ UNCHANGED <<now, phase, snapshot, pending, engine>>

AdvanceTime ==
    /\ now < Len(Timeline)
    /\ now' = now + 1
    /\ UNCHANGED <<store, phase, snapshot, pending, engine, alerted, unsaved>>

-----------------------------------------------------------------------------
(* Starting a watch: selection, levels, configuration, baseline.           *)

\* Deviation: disabled rows are listed too.
SelectedOfAll(ids) == {r \in rows : ids = {} \/ r.id \in ids}

\* No ids stand for --all-triggers and for the bare command.
Selected(ids) == {r \in rows : r.enabled /\ (ids = {} \/ r.id \in ids)}

\* The configured engine, for snapshot w over the symbols of "live".
RuleOf(w, s) == IF w[s] = None THEN DefaultRule ELSE Definition[w[s].name].rule
FixedValue(w, s) == IF w[s] = None THEN None ELSE Definition[w[s].name].value
LevelOf(w, s) ==
    IF FixedValue(w, s) # None THEN FixedValue(w, s) ELSE StoredLevel[s].low

Configure(w, live) ==
    LET Ready(s) == ReadySide(RuleOf(w, s), StoredLevel[s].close, LevelOf(w, s))
    IN
    /\ rules' = [s \in Symbol |-> IF s \in live THEN RuleOf(w, s) ELSE DefaultRule]
    /\ levels' = [s \in Symbol |-> IF s \in live THEN LevelOf(w, s) ELSE None]
    /\ frozen' = {s \in live : FixedValue(w, s) # None}
    /\ armed' = [s \in Symbol |->
           IF s \notin live THEN "unknown"
           ELSE IF Ready(s) THEN "armed" ELSE "disarmed"]
    /\ witness' = [s \in Symbol |->
           IF s \in live /\ Ready(s) THEN StoredLevel[s].close ELSE None]
    /\ spent' = {}
    /\ event' = NoEvent
    /\ UNCHANGED <<policy, histories, last_bar_dates>>

\* The process is gone, and its memory with it.
End ==
    /\ phase' = "off"
    /\ pending' = None
    /\ watched' = Nothing
    /\ streamed' = {}
    /\ Configure(Nothing, {})

\* Only symbols with enough history are streamed; with none the watch ends.
Stream(w, wanted) ==
    LET live == {s \in wanted : StoredLevel[s] # None} IN
    /\ live # {}
    /\ phase' = "streaming"
    /\ watched' = w
    /\ streamed' = live
    /\ Configure(w, live)
    /\ UNCHANGED <<store, now, pending, alerted, unsaved>>

\* A missing id and two triggers of one symbol are refused.
StartTriggers(ids) ==
    LET chosen == Selected(ids) IN
    /\ phase = "off"
    /\ ids # {} => Cardinality(chosen) = Cardinality(ids)
    /\ \A r, q \in chosen : SymbolOf(r) = SymbolOf(q) => r = q
    /\ next_id + Cardinality({r \in chosen : Once(r.name)}) <= MaxId + 1
    /\ Stream([s \in Symbol |-> IF \E r \in chosen : SymbolOf(r) = s
                                THEN CHOOSE r \in chosen : SymbolOf(r) = s
                                ELSE None],
              {SymbolOf(r) : r \in chosen})

StartSymbols(wanted) ==
    /\ phase = "off"
    /\ Stream(Nothing, wanted)

-----------------------------------------------------------------------------
(* A quote, and what consume_signal does about an alert.                   *)

\* Deviation: only triggers with a fixed value are disabled.
DisablesFixed(r) == r # None /\ Once(r.name) /\ Definition[r.name].value # None

Disables(r) == r # None /\ Once(r.name)

HandleQuote(s, ask) ==
    /\ phase = "streaming"
    /\ s \in streamed
    /\ OnTick(s, ask, Timeline[now])
    /\ LET fired == FiredOn(s, event') IN
       /\ IF fired /\ Disables(watched[s])
          THEN phase' = "persist_select" /\ pending' = watched[s]
          ELSE UNCHANGED <<phase, pending>>
       /\ alerted' = IF fired /\ watched[s] # None
                     THEN alerted \cup {watched[s].name} ELSE alerted
    /\ UNCHANGED <<store, now, snapshot, unsaved>>

\* False, for an id that is gone, is ignored.
PersistSelect ==
    /\ phase = "persist_select"
    /\ IF WithId(pending.id) = {}
       THEN /\ phase' = "streaming"
            /\ pending' = None
            /\ unsaved' = unsaved \cup {pending.name}
       ELSE phase' = "persist_delete" /\ UNCHANGED <<pending, unsaved>>
    /\ UNCHANGED <<store, now, snapshot, engine, alerted>>

PersistDelete ==
    /\ phase = "persist_delete"
    /\ rows' = rows \ WithId(pending.id)
    /\ phase' = "persist_insert"
    /\ UNCHANGED <<next_id, now, snapshot, pending, engine, alerted, unsaved>>

\* Deviation: the row is written back as it was read.
PersistInsertAsRead ==
    /\ phase = "persist_insert"
    /\ ~Stored(pending.name)
    /\ InsertRow(pending.name, pending.enabled)
    /\ phase' = "streaming"
    /\ pending' = None
    /\ UNCHANGED <<now, snapshot, engine, alerted, unsaved>>

\* A Duplicate passes through the callback and ends the watch.
PersistInsert ==
    /\ phase = "persist_insert"
    /\ IF Stored(pending.name)
       THEN /\ End
            /\ unsaved' = unsaved \cup {pending.name}
            /\ UNCHANGED store
       ELSE /\ InsertRow(pending.name, FALSE)
            /\ phase' = "streaming"
            /\ pending' = None
            /\ UNCHANGED <<snapshot, engine, unsaved>>
    /\ UNCHANGED <<now, alerted>>

Stop ==
    /\ phase # "off"
    /\ End
    /\ unsaved' = IF pending = None THEN unsaved ELSE unsaved \cup {pending.name}
    /\ UNCHANGED <<store, now, alerted>>

Persist == PersistSelect \/ PersistDelete \/ PersistInsert

Next ==
    \/ \E n \in Name : Create(n) \/ Delete(n)
    \/ \E r \in rows, flag \in BOOLEAN : SetEnabled(r, flag)
    \/ AdvanceTime
    \/ \E ids \in SUBSET (1..MaxId) : StartTriggers(ids)
    \/ \E wanted \in SUBSET Symbol : StartSymbols(wanted)
    \/ \E s \in Symbol, ask \in Price : HandleQuote(s, ask)
    \/ Persist
    \/ Stop

Spec == Init /\ [][Next]_vars

\* A callback of the stream runs to its end: nothing else runs in its thread.
FairSpec == Spec /\ WF_vars(Persist)

-----------------------------------------------------------------------------
(* Properties. *)

\* Whatever the interleaving of alerts, restarts and operators: a "once" trigger
\* that has alerted is no longer enabled in the store, unless it is being
\* disabled right now or its disabling is known to have failed (consume_signal).
\* States are well typed on the way.
AlertedIsDisabled ==
    /\ TypeOK
    /\ \A r \in rows :
           /\ r.enabled
           /\ Once(r.name)
           /\ r.name \in alerted
           => (pending # None /\ pending.name = r.name) \/ r.name \in unsaved

\* A "once" trigger alerts at most once for each time it is enabled, over every
\* restart of the watch, unless the store never learned of the first alert.
OnceAlertsOncePerEnabling ==
    [][phase = "streaming" /\ phase' = "persist_select"
          => pending'.name \notin alerted \ unsaved]_vars

\* Every alert of a "once" trigger is settled: the row ends up disabled or gone,
\* or the failure to disable it is known (consume_signal, set_trigger_enabled).
Settled(n) ==
    \/ n \notin alerted
    \/ n \in unsaved
    \/ pending = None /\ \A r \in rows : r.name = n => ~r.enabled

AlertsAreSettled == \A n \in Name : (n \in alerted /\ Once(n)) ~> Settled(n)

=============================================================================
