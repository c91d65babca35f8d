---------------------------- MODULE WatchProofs ----------------------------
(***************************************************************************)
(* Watch: a "once" trigger that has alerted is disabled in the store, and  *)
(* does not alert again until it is enabled, for any number of symbols,    *)
(* triggers, restarts and operators' commands.  The invariant ties what    *)
(* three memories say of one trigger: the snapshot, the engine's spent     *)
(* symbols and the alerts of the past.  The last part is about the alert   *)
(* engine on its own, for any rules, bars and policies.                    *)
(***************************************************************************)
EXTENDS Watch, FiniteSetTheorems, TLAPS

\* The snapshot row of a symbol is of a trigger of that symbol, with its rule.
SnapshotOK ==
    \A s \in Symbol : watched[s] # None =>
        /\ SymbolOf(watched[s]) = s
        /\ s \in streamed => rules[s] = Definition[watched[s].name].rule

\* Nothing arms a spent symbol: a watch rolls no bars.
SpentOK == \A s \in spent : armed[s] # "armed"

\* An alert known to the store, or about to be, is one of this engine: a watch
\* starts with none.
AlertedIsSpent ==
    \A s \in Symbol :
        watched[s] # None /\ Once(watched[s].name)
            /\ watched[s].name \in alerted \ unsaved => s \in spent

\* The rows a watch may write back have an id each.
Owed == {s \in Symbol : watched[s] # None /\ Once(watched[s].name) /\ s \notin spent}
RoomOK ==
    /\ IsFiniteSet(rows)
    /\ next_id + Cardinality(Owed) + (IF Persisting THEN 1 ELSE 0) <= MaxId + 1

Inv == AlertedIsDisabled /\ SnapshotOK /\ SpentOK /\ AlertedIsSpent /\ RoomOK

\* What the store's statements change, and the watch's memory does not see.
Memory == <<phase, snapshot, pending, engine>>

-----------------------------------------------------------------------------
(* Counting. *)

LEMMA OwedCount ==
    /\ IsFiniteSet(Owed) /\ Cardinality(Owed) \in Nat
    /\ IsFiniteSet(Owed') /\ Cardinality(Owed)' \in Nat
BY WatchAssumption, FS_Subset, FS_CardinalityType DEF Owed

LEMMA ReservedIsOwed ==
    ASSUME TypeOK
    PROVE  Reserved = Cardinality(Owed) + (IF Persisting THEN 1 ELSE 0)
BY DEF Reserved, Owed

-----------------------------------------------------------------------------
(* A tick of the engine. *)

Sides == <<policy, levels, rules, frozen, histories, last_bar_dates>>

\* A tick fires, of an armed symbol or of a holding rule, or leaves spent alone.
LEMMA TickFires ==
    ASSUME NEW s, NEW p, NEW m, OnTick(s, p, m)
    PROVE  /\ UNCHANGED Sides
           /\ \/ /\ Fire(s, p, m)
                 /\ armed[s] = "armed" \/ Holding(rules[s])
              \/ /\ \E result \in {"silent", "expired", "off_session"} :
                        event' = TickEvent(s, p, m, result)
                 /\ spent' = spent
                 /\ \/ UNCHANGED <<armed, witness>>
                    \/ /\ s \notin spent
                       /\ armed' = [armed EXCEPT ![s] = "armed"]
                       /\ witness' = [witness EXCEPT ![s] = p]
                    \/ /\ armed' = [armed EXCEPT ![s] = "disarmed"]
                       /\ UNCHANGED witness
  <1> USE DEF Quiet, setup, Sides
  <1>1. ASSUME \/ TickWithoutLevel(s, p, m) \/ TickExpired(s, p, m)
               \/ TickHoldingOffSession(s, p, m) \/ TickOffSession(s, p, m)
               \/ TickRepeat(s, p, m)
        PROVE  /\ UNCHANGED <<Sides, spent, armed, witness>>
               /\ \E result \in {"silent", "expired", "off_session"} :
                      event' = TickEvent(s, p, m, result)
    BY <1>1 DEF TickWithoutLevel, TickExpired, TickHoldingOffSession,
                TickOffSession, TickRepeat
  <1>2. CASE TickReady(s, p, m)
    BY <1>2 DEF TickReady
  <1>3. CASE TickBaseline(s, p, m)
    BY <1>3 DEF TickBaseline
  <1>4. CASE TickHolding(s, p, m) \/ TickCrossing(s, p, m)
    BY <1>4 DEF TickHolding, TickCrossing, Fire
  <1> QED
    BY <1>1, <1>2, <1>3, <1>4 DEF OnTick

LEMMA TickTypes ==
    ASSUME EngineTypeOK, SpentOK, NEW s \in Symbol, NEW p \in Price, NEW m \in Moment,
           OnTick(s, p, m)
    PROVE  EngineTypeOK' /\ SpentOK'
  <1>2. \A result \in {"silent", "expired", "off_session", "fired"} :
            TickEvent(s, p, m, result) \in Event
    BY DEF TickEvent, Event, Results
  <1>3. UNCHANGED Sides
    BY TickFires
  <1>4. CASE Fire(s, p, m)
    BY <1>2, <1>3, <1>4 DEF Fire, EngineTypeOK, Sides, SpentOK
  <1>5. ASSUME spent' = spent,
               NEW result \in {"silent", "expired", "off_session"},
               event' = TickEvent(s, p, m, result)
        PROVE  event' \in Event /\ spent' \subseteq Symbol
    BY <1>2, <1>5 DEF EngineTypeOK
  <1>6. CASE UNCHANGED <<armed, witness>> /\ spent' = spent /\ event' \in Event
    BY <1>3, <1>6 DEF EngineTypeOK, Sides, SpentOK
  <1>7. CASE /\ s \notin spent /\ spent' = spent /\ event' \in Event
             /\ armed' = [armed EXCEPT ![s] = "armed"]
             /\ witness' = [witness EXCEPT ![s] = p]
    BY <1>3, <1>7 DEF EngineTypeOK, Sides, SpentOK
  <1>8. CASE /\ armed' = [armed EXCEPT ![s] = "disarmed"]
             /\ UNCHANGED witness /\ spent' = spent /\ event' \in Event
    BY <1>3, <1>8 DEF EngineTypeOK, Sides, SpentOK
  <1> QED
    BY <1>4, <1>5, <1>6, <1>7, <1>8, TickFires

-----------------------------------------------------------------------------
(* Configuring an engine. *)

LEMMA ConfigureTypes ==
    ASSUME EngineTypeOK, NEW w \in [Symbol -> Row \cup {None}],
           NEW live \in SUBSET {s \in Symbol : StoredLevel[s] # None}, Configure(w, live)
    PROVE  /\ EngineTypeOK' /\ spent' = {}
           /\ \A s \in live : w[s] # None => rules'[s] = Definition[w[s].name].rule
  <1> USE WatchAssumption
  <1>1. \A s \in Symbol : RuleOf(w, s) \in Rules
    BY EngineAssumption DEF RuleOf, Row
  <1>2. DefaultRule \in Rules
    BY EngineAssumption
  <1>3. \A s \in live : LevelOf(w, s) \in Price /\ StoredLevel[s].close \in Price
    <2> SUFFICES ASSUME NEW s \in live
                 PROVE  LevelOf(w, s) \in Price /\ StoredLevel[s].close \in Price
      OBVIOUS
    <2>1. StoredLevel[s].close \in Price /\ StoredLevel[s].low \in Price
      OBVIOUS
    <2>2. FixedValue(w, s) \in Price \cup {None}
      BY DEF FixedValue, Row
    <2> QED  BY <2>1, <2>2 DEF LevelOf
  <1>4. event' \in Event
    BY DEF Configure, Event
  <1>5. rules' \in [Symbol -> Rules]
    BY <1>1, <1>2 DEF Configure
  <1>6. levels' \in [Symbol -> Price \cup {None}]
    BY <1>3 DEF Configure
  <1>7. witness' \in [Symbol -> Price \cup {None}]
    BY <1>3 DEF Configure
  <1>8. armed' \in [Symbol -> {"unknown", "armed", "disarmed"}]
    BY DEF Configure
  <1>9. frozen' \subseteq Symbol /\ spent' = {}
        /\ UNCHANGED <<policy, histories, last_bar_dates>>
    BY DEF Configure
  <1>10. \A s \in live : w[s] # None => rules'[s] = Definition[w[s].name].rule
    BY DEF Configure, RuleOf
  <1> QED
    BY <1>4, <1>5, <1>6, <1>7, <1>8, <1>9, <1>10 DEF EngineTypeOK

LEMMA EndInv ==
    ASSUME EngineTypeOK, End
    PROVE  /\ EngineTypeOK' /\ spent' = {} /\ watched' = Nothing
           /\ phase' = "off" /\ pending' = None /\ streamed' = {}
           /\ SnapshotOK' /\ SpentOK' /\ AlertedIsSpent' /\ Cardinality(Owed)' = 0
  <1>1. Nothing \in [Symbol -> Row \cup {None}]
    BY DEF Nothing
  <1>2. Configure(Nothing, {})
    BY DEF End
  <1>3. EngineTypeOK' /\ spent' = {}
    BY <1>1, <1>2, ConfigureTypes
  <1>4. watched' = Nothing /\ phase' = "off" /\ pending' = None /\ streamed' = {}
    BY DEF End
  <1>5. \A s \in Symbol : watched'[s] = None
    BY <1>4 DEF Nothing
  <1>6. Owed' = {}
    BY <1>5 DEF Owed
  <1>7. Cardinality(Owed)' = 0
    BY <1>6, FS_EmptySet
  <1> QED
    BY <1>3, <1>4, <1>5, <1>7 DEF SnapshotOK, SpentOK, AlertedIsSpent

-----------------------------------------------------------------------------
(* Steps of operators: the watch's memory is left alone. *)

Operates ==
    \/ \E n \in Name : Create(n) \/ Delete(n)
    \/ \E r \in rows, flag \in BOOLEAN : SetEnabled(r, flag)
    \/ AdvanceTime

LEMMA OperatesInv ==
    ASSUME Inv, Operates
    PROVE  Inv'
  <1> USE WatchAssumption
  <1>0. TypeOK /\ Cardinality(Owed) \in Nat /\ next_id \in Nat /\ IsFiniteSet(rows)
        /\ next_id + Cardinality(Owed) + (IF Persisting THEN 1 ELSE 0) <= MaxId + 1
    BY OwedCount DEF Inv, AlertedIsDisabled, RoomOK, TypeOK
  <1>1. UNCHANGED Memory
    BY DEF Operates, Create, Delete, SetEnabled, AdvanceTime, Memory
  <1>2. EngineTypeOK' /\ SnapshotOK' /\ SpentOK' /\ Owed' = Owed /\ Persisting' = Persisting
    <2>1. EngineTypeOK'
      BY <1>0, <1>1 DEF TypeOK, Memory, engine, EngineTypeOK
    <2>2. SnapshotOK' /\ SpentOK' /\ Owed' = Owed /\ Persisting' = Persisting
      BY <1>1 DEF Inv, Memory, engine, snapshot, SnapshotOK, SpentOK, Owed, Persisting
    <2> QED  BY <2>1, <2>2
  <1>3. ASSUME NEW n \in Name, NEW i \in 1..MaxId, NEW flag \in BOOLEAN
        PROVE  [id |-> i, name |-> n, enabled |-> flag] \in Row
    BY DEF Row
  <1>4. ASSUME NEW n \in Name, Create(n)
        PROVE  Inv'
    <2>1. /\ rows' = rows \cup {[id |-> next_id, name |-> n, enabled |-> TRUE]}
          /\ next_id' = next_id + 1 /\ now' = now
          /\ alerted' = alerted \ {n} /\ unsaved' = unsaved \ {n}
          /\ next_id + Reserved <= MaxId
      BY <1>4 DEF Create, InsertRow
    <2>2. next_id + Cardinality(Owed) + (IF Persisting THEN 1 ELSE 0) <= MaxId
      BY <1>0, <2>1, ReservedIsOwed
    <2>3. RoomOK'
      <3>1. IsFiniteSet(rows')
        BY <1>0, <2>1, FS_AddElement
      <3> QED  BY <1>0, <1>2, <2>1, <2>2, <3>1 DEF RoomOK
    <2>4. TypeOK'
      <3>1. next_id \in 1..MaxId /\ next_id' \in 1..(MaxId + 1)
        BY <1>0, <2>1, <2>2 DEF TypeOK
      <3>2. rows' \subseteq Row
        BY <1>0, <1>3, <2>1, <3>1 DEF TypeOK
      <3> QED  BY <1>0, <1>1, <1>2, <2>1, <3>1, <3>2 DEF TypeOK, Memory, snapshot
    <2>5. AlertedIsDisabled'
      BY <1>1, <2>1, <2>4 DEF Inv, AlertedIsDisabled, Memory
    <2>6. AlertedIsSpent'
      BY <1>1, <2>1 DEF Inv, AlertedIsSpent, Memory, snapshot, engine
    <2> QED  BY <1>2, <2>3, <2>5, <2>6 DEF Inv
  <1>5. ASSUME NEW n \in Name, Delete(n)
        PROVE  Inv'
    <2>1. /\ rows' \subseteq rows
          /\ next_id' = next_id /\ now' = now /\ alerted' = alerted /\ unsaved' = unsaved
      BY <1>5 DEF Delete
    <2>2. RoomOK'
      <3>1. IsFiniteSet(rows')
        BY <1>0, <2>1, FS_Subset
      <3> QED  BY <1>0, <1>2, <2>1, <3>1 DEF RoomOK
    <2>3. TypeOK'
      BY <1>0, <1>1, <1>2, <2>1 DEF TypeOK, Memory, snapshot
    <2>4. AlertedIsDisabled' /\ AlertedIsSpent'
      BY <1>1, <2>1, <2>3
      DEF Inv, AlertedIsDisabled, AlertedIsSpent, Memory, snapshot, engine
    <2> QED  BY <1>2, <2>2, <2>4 DEF Inv
  <1>6. ASSUME NEW r \in rows, NEW flag \in BOOLEAN, SetEnabled(r, flag)
        PROVE  Inv'
    <2> DEFINE new == [id |-> next_id, name |-> r.name, enabled |-> flag]
    <2>1. /\ rows' = (rows \ {r}) \cup {new}
          /\ next_id' = next_id + 1 /\ now' = now
          /\ alerted' = IF flag THEN alerted \ {r.name} ELSE alerted
          /\ unsaved' = IF flag THEN unsaved \ {r.name} ELSE unsaved
          /\ next_id + Reserved <= MaxId
      BY <1>6 DEF SetEnabled
    <2>2. next_id + Cardinality(Owed) + (IF Persisting THEN 1 ELSE 0) <= MaxId
      BY <1>0, <2>1, ReservedIsOwed
    <2>3. RoomOK'
      <3>1. IsFiniteSet(rows')
        <4>1. IsFiniteSet(rows \ {r})
          BY <1>0, FS_Subset
        <4> QED  BY <2>1, <4>1, FS_AddElement
      <3> QED  BY <1>0, <1>2, <2>1, <2>2, <3>1 DEF RoomOK
    <2>4. TypeOK'
      <3>1. next_id \in 1..MaxId /\ next_id' \in 1..(MaxId + 1)
        BY <1>0, <2>1, <2>2 DEF TypeOK
      <3>2. r.name \in Name
        BY <1>0 DEF TypeOK, Row
      <3>3. rows' \subseteq Row
        BY <1>0, <1>3, <2>1, <3>1, <3>2 DEF TypeOK
      <3>4. alerted' \subseteq Name /\ unsaved' \subseteq Name
        BY <1>0, <2>1 DEF TypeOK
      <3> QED  BY <1>0, <1>1, <1>2, <2>1, <3>1, <3>3, <3>4 DEF TypeOK, Memory, snapshot
    <2>5. AlertedIsDisabled'
      BY <1>1, <2>1, <2>4 DEF Inv, AlertedIsDisabled, Memory
    <2>6. AlertedIsSpent'
      BY <1>1, <2>1 DEF Inv, AlertedIsSpent, Memory, snapshot, engine
    <2> QED  BY <1>2, <2>3, <2>5, <2>6 DEF Inv
  <1>7. CASE AdvanceTime
    <2>1. now' \in DOMAIN Timeline
      BY <1>0, <1>7, TimelineAssumption DEF AdvanceTime, TypeOK
    <2>2. TypeOK'
      BY <1>0, <1>1, <1>2, <1>7, <2>1 DEF AdvanceTime, TypeOK, Memory, snapshot, store
    <2>3. RoomOK'
      BY <1>0, <1>2, <1>7 DEF AdvanceTime, RoomOK, store
    <2>4. AlertedIsDisabled' /\ AlertedIsSpent'
      BY <1>7, <2>2
      DEF Inv, AdvanceTime, AlertedIsDisabled, AlertedIsSpent, snapshot, engine, store
    <2> QED  BY <1>2, <2>3, <2>4 DEF Inv
  <1> QED
    BY <1>4, <1>5, <1>6, <1>7 DEF Operates

-----------------------------------------------------------------------------
(* A watch starts. *)

LEMMA StreamInv ==
    ASSUME Inv, phase = "off",
           NEW w \in [Symbol -> Row \cup {None}], NEW wanted \in SUBSET Symbol,
           \A s \in Symbol : w[s] # None => SymbolOf(w[s]) = s /\ w[s] \in rows /\ w[s].enabled,
           next_id + Cardinality({s \in Symbol : w[s] # None /\ Once(w[s].name)}) <= MaxId + 1,
           Stream(w, wanted)
    PROVE  Inv'
  <1> USE WatchAssumption
  <1> DEFINE live == {s \in wanted : StoredLevel[s] # None}
  <1>1. /\ watched' = w /\ streamed' = live /\ phase' = "streaming"
        /\ Configure(w, live)
        /\ UNCHANGED <<store, now, pending, alerted, unsaved>>
    BY DEF Stream
  <1>2. TypeOK /\ pending = None
    BY DEF Inv, AlertedIsDisabled, TypeOK, Persisting
  <1>3. /\ EngineTypeOK' /\ spent' = {}
        /\ \A s \in live : w[s] # None => rules'[s] = Definition[w[s].name].rule
    <2>1. live \in SUBSET {s \in Symbol : StoredLevel[s] # None}
      OBVIOUS
    <2> QED  BY <1>1, <1>2, <2>1, ConfigureTypes DEF TypeOK
  <1>4. TypeOK'
    BY <1>1, <1>2, <1>3 DEF TypeOK, store, Phase, Persisting
  <1>5. AlertedIsDisabled'
    BY <1>1, <1>2, <1>4 DEF Inv, AlertedIsDisabled, store
  <1>6. SnapshotOK' /\ SpentOK'
    BY <1>1, <1>3 DEF SnapshotOK, SpentOK, SymbolOf
  <1>7. AlertedIsSpent'
    BY <1>1, <1>2 DEF AlertedIsSpent, Inv, AlertedIsDisabled
  <1>8. RoomOK'
    <2>1. Owed' = {s \in Symbol : w[s] # None /\ Once(w[s].name)}
      BY <1>1, <1>3 DEF Owed
    <2>2. Cardinality(Owed)' = Cardinality({s \in Symbol : w[s] # None /\ Once(w[s].name)})
      BY <2>1
    <2>3. Cardinality(Owed)' \in Nat /\ next_id \in Nat
      BY <1>2, OwedCount DEF TypeOK
    <2>4. ~Persisting' /\ next_id' = next_id /\ rows' = rows
      BY <1>1 DEF Persisting, store
    <2> HIDE DEF live
    <2> QED  BY <2>2, <2>3, <2>4 DEF RoomOK, Inv
  <1> QED
    BY <1>5, <1>6, <1>7, <1>8 DEF Inv

\* The snapshot of _resolve_symbols: a row for each of the chosen symbols.
Picks(ids) == [s \in Symbol |-> IF \E r \in Selected(ids) : SymbolOf(r) = s
                                THEN CHOOSE r \in Selected(ids) : SymbolOf(r) = s
                                ELSE None]

LEMMA StartTriggersInv ==
    ASSUME Inv, NEW ids, StartTriggers(ids)
    PROVE  Inv'
  <1> USE WatchAssumption
  <1> DEFINE w == Picks(ids)
             due == {s \in Symbol : w[s] # None /\ Once(w[s].name)}
             chosen == {r \in Selected(ids) : Once(r.name)}
  <1>1. /\ phase = "off"
        /\ Stream(w, {SymbolOf(r) : r \in Selected(ids)})
        /\ next_id + Cardinality(chosen) <= MaxId + 1
    BY DEF StartTriggers, Picks
  <1>2. TypeOK /\ IsFiniteSet(rows)
    BY DEF Inv, AlertedIsDisabled, RoomOK
  <1>3. Selected(ids) \subseteq rows /\ rows \subseteq Row /\ \A r \in Selected(ids) : r.enabled
    BY <1>2 DEF Selected, TypeOK
  <1>4. {SymbolOf(r) : r \in Selected(ids)} \in SUBSET Symbol
    BY <1>3 DEF SymbolOf, Row
  <1>5. ASSUME NEW s \in Symbol
        PROVE  w[s] # None => SymbolOf(w[s]) = s /\ w[s] \in Selected(ids)
    BY <1>5 DEF Picks
  <1>6. w \in [Symbol -> Row \cup {None}]
    <2>1. \A s \in Symbol : w[s] \in Row \cup {None}
      BY <1>3, <1>5
    <2>2. w = [s \in Symbol |-> w[s]]
      BY DEF Picks
    <2> HIDE DEF w
    <2> QED  BY <2>1, <2>2
  <1>7. Cardinality(due) <= Cardinality(chosen) /\ Cardinality(due) \in Nat
    <2>1. IsFiniteSet(chosen) /\ IsFiniteSet(due)
      <3>1. chosen \subseteq rows /\ due \subseteq Symbol
        BY <1>3
      <3> QED  BY <1>2, <3>1, FS_Subset
    <2> DEFINE f == [s \in due |-> w[s]]
    <2>2. f \in Injection(due, chosen)
      <3>1. \A s \in due : w[s] \in chosen
        BY <1>5
      <3>2. \A s, t \in due : w[s] = w[t] => s = t
        BY <1>5
      <3>3. f \in [due -> chosen]
        BY <3>1
      <3>4. \A s, t \in due : f[s] = f[t] => s = t
        BY <3>2
      <3> HIDE DEF f, due, chosen
      <3> QED  BY <3>3, <3>4 DEF Injection, IsInjective
    <2> HIDE DEF f, due, chosen
    <2> QED  BY <2>1, <2>2, FS_Injection, FS_CardinalityType
  <1>8. next_id + Cardinality(due) <= MaxId + 1
    <2>1. next_id \in Nat /\ MaxId \in Nat /\ Cardinality(chosen) \in Nat
      <3>1. chosen \subseteq rows
        BY <1>3
      <3> QED  BY <1>2, <3>1, FS_Subset, FS_CardinalityType DEF TypeOK
    <2> HIDE DEF due, chosen
    <2> QED  BY <1>1, <1>7, <2>1
  <1>9. \A s \in Symbol : w[s] # None => SymbolOf(w[s]) = s /\ w[s] \in rows /\ w[s].enabled
    BY <1>3, <1>5
  <1> HIDE DEF w
  <1> QED
    BY <1>1, <1>4, <1>6, <1>8, <1>9, StreamInv

LEMMA StartSymbolsInv ==
    ASSUME Inv, NEW wanted \in SUBSET Symbol, StartSymbols(wanted)
    PROVE  Inv'
  <1>1. phase = "off" /\ Stream(Nothing, wanted)
    BY DEF StartSymbols
  <1>2. Nothing \in [Symbol -> Row \cup {None}] /\ \A s \in Symbol : Nothing[s] = None
    BY DEF Nothing
  <1> DEFINE due == {s \in Symbol : Nothing[s] # None /\ Once(Nothing[s].name)}
  <1>3. next_id + Cardinality(due) <= MaxId + 1
    <2>1. due = {}
      BY <1>2
    <2>2. next_id \in 1..(MaxId + 1)
      BY DEF Inv, AlertedIsDisabled, TypeOK
    <2>3. Cardinality(due) = 0
      BY <2>1, FS_EmptySet
    <2> HIDE DEF due
    <2> QED  BY <2>2, <2>3, WatchAssumption
  <1> QED
    BY <1>1, <1>2, <1>3, StreamInv

-----------------------------------------------------------------------------
(* A quote. *)

\* The alert of a "once" trigger's symbol is the first of this engine.
LEMMA OnceFiresUnspent ==
    ASSUME Inv, NEW s \in Symbol, NEW p, NEW m, s \in streamed, OnTick(s, p, m),
           Fire(s, p, m), watched[s] # None, Once(watched[s].name)
    PROVE  s \notin spent /\ s \in spent' /\ watched[s].name \notin alerted \ unsaved
  <1>1. rules[s] = Definition[watched[s].name].rule /\ rules[s].frequency = "once"
    BY DEF Inv, SnapshotOK, Once
  <1>2. ~Holding(rules[s])
    BY <1>1 DEF Holding
  <1>3. event'.result = "fired"
    BY DEF Fire, TickEvent
  <1>4. armed[s] = "armed"
    BY <1>2, <1>3, TickFires DEF TickEvent
  <1>5. s \notin spent
    BY <1>4 DEF Inv, SpentOK
  <1>6. s \in spent'
    BY <1>1 DEF Fire
  <1> QED
    BY <1>5, <1>6 DEF Inv, AlertedIsSpent

LEMMA QuoteInv ==
    ASSUME Inv, NEW s \in Symbol, NEW p \in Price, HandleQuote(s, p)
    PROVE  Inv'
  <1> USE WatchAssumption
  <1> DEFINE m == Timeline[now]
  <1>1. /\ phase = "streaming" /\ s \in streamed /\ OnTick(s, p, m)
        /\ UNCHANGED <<store, now, snapshot, unsaved>>
    BY DEF HandleQuote
  <1>2. TypeOK /\ pending = None /\ EngineTypeOK /\ SpentOK /\ m \in Moment
    BY <1>1, TimelineAssumption DEF Inv, AlertedIsDisabled, TypeOK, Persisting
  <1>3. EngineTypeOK' /\ SpentOK'
    BY <1>1, <1>2, TickTypes
  <1>4. UNCHANGED Sides /\ (Fire(s, p, m) \/ (spent' = spent /\ ~FiredOn(s, event')))
    BY <1>1, TickFires DEF TickEvent, FiredOn
  <1>5. SnapshotOK'
    BY <1>1, <1>4 DEF Inv, SnapshotOK, Sides, snapshot, SymbolOf
  <1>6. Cardinality(Owed) \in Nat /\ IsFiniteSet(Owed)
        /\ next_id + Cardinality(Owed) <= MaxId + 1 /\ next_id \in Nat /\ IsFiniteSet(rows)
    BY <1>1, OwedCount DEF Inv, RoomOK, Persisting, AlertedIsDisabled, TypeOK
  <1>7. CASE Fire(s, p, m)
    <2>1. FiredOn(s, event')
      BY <1>7 DEF Fire, TickEvent, FiredOn
    <2>2. spent' \in {spent, spent \cup {s}}
      BY <1>7 DEF Fire
    <2>3. CASE Disables(watched[s])
      <3>1. /\ phase' = "persist_select" /\ pending' = watched[s]
            /\ alerted' = alerted \cup {watched[s].name}
            /\ watched[s] # None /\ Once(watched[s].name)
        BY <2>1, <2>3 DEF HandleQuote, Disables
      <3>2. s \notin spent /\ s \in spent'
        BY <1>1, <1>7, <3>1, OnceFiresUnspent
      <3>3. watched[s] \in Row
        BY <1>2, <3>1 DEF TypeOK
      <3>4. TypeOK'
        BY <1>1, <1>2, <1>3, <3>1, <3>3
        DEF TypeOK, store, snapshot, Phase, Persisting, Row
      <3>5. AlertedIsDisabled'
        BY <1>1, <1>2, <3>1, <3>4 DEF Inv, AlertedIsDisabled, store
      <3>6. AlertedIsSpent'
        <4> SUFFICES ASSUME NEW t \in Symbol, watched[t] # None, Once(watched[t].name),
                            watched[t].name \in alerted' \ unsaved
                     PROVE  t \in spent'
          BY <1>1 DEF AlertedIsSpent, snapshot
        <4>1. CASE watched[t].name \in alerted
          BY <2>2, <4>1 DEF Inv, AlertedIsSpent
        <4>2. CASE watched[t].name = watched[s].name
          <5>1. t = s
            BY <3>1, <4>2 DEF Inv, SnapshotOK, SymbolOf
          <5> QED  BY <3>2, <5>1
        <4> QED  BY <3>1, <4>1, <4>2
      <3>7. RoomOK'
        <4>1. Owed' = Owed \ {s} /\ s \in Owed
          BY <1>1, <2>2, <3>1, <3>2 DEF Owed, snapshot
        <4>2. Cardinality(Owed)' = Cardinality(Owed) - 1
          BY <1>6, <4>1, FS_RemoveElement
        <4>3. Persisting' /\ rows' = rows /\ next_id' = next_id
          BY <1>1, <3>1 DEF Persisting, store
        <4> QED  BY <1>6, <4>2, <4>3 DEF RoomOK
      <3> QED  BY <1>3, <1>5, <3>5, <3>6, <3>7 DEF Inv
    <2>4. CASE ~Disables(watched[s])
      <3>1. /\ UNCHANGED <<phase, pending>>
            /\ alerted' = IF watched[s] # None THEN alerted \cup {watched[s].name} ELSE alerted
            /\ watched[s] # None => ~Once(watched[s].name)
        BY <2>1, <2>4 DEF HandleQuote, Disables
      <3>2. alerted' \subseteq Name
        BY <1>2, <3>1 DEF TypeOK, Row
      <3>3. TypeOK'
        BY <1>1, <1>2, <1>3, <3>1, <3>2 DEF TypeOK, store, snapshot, Persisting
      <3>4. AlertedIsDisabled'
        BY <1>1, <1>2, <3>1, <3>3 DEF Inv, AlertedIsDisabled, store
      <3>5. AlertedIsSpent'
        BY <1>1, <2>2, <3>1 DEF Inv, AlertedIsSpent, snapshot
      <3>6. RoomOK'
        <4>1. Owed' \subseteq Owed
          BY <1>1, <2>2 DEF Owed, snapshot
        <4>2. Cardinality(Owed)' <= Cardinality(Owed) /\ Cardinality(Owed)' \in Nat
          BY <1>6, <4>1, OwedCount, FS_Subset
        <4>3. ~Persisting' /\ rows' = rows /\ next_id' = next_id
          BY <1>1, <3>1 DEF Persisting, store
        <4> QED  BY <1>6, <4>2, <4>3 DEF RoomOK
      <3> QED  BY <1>3, <1>5, <3>4, <3>5, <3>6 DEF Inv
    <2> QED  BY <2>3, <2>4
  <1>8. CASE spent' = spent /\ ~FiredOn(s, event')
    <2>1. UNCHANGED <<phase, pending, alerted>>
      BY <1>8 DEF HandleQuote
    <2>2. TypeOK'
      BY <1>1, <1>2, <1>3, <2>1 DEF TypeOK, store, snapshot, Persisting
    <2>3. AlertedIsDisabled' /\ AlertedIsSpent'
      BY <1>1, <1>8, <2>1, <2>2 DEF Inv, AlertedIsDisabled, AlertedIsSpent, store, snapshot
    <2>4. Owed' = Owed /\ ~Persisting'
      BY <1>1, <1>8, <2>1 DEF Owed, snapshot, Persisting
    <2>5. RoomOK'
      BY <1>1, <1>6, <2>4 DEF RoomOK, store
    <2> QED  BY <1>3, <1>5, <2>3, <2>5 DEF Inv
  <1> QED
    BY <1>4, <1>7, <1>8

-----------------------------------------------------------------------------
(* The statements that disable a row, and the end of a watch. *)

LEMMA EndsInv ==
    ASSUME Inv, End, UNCHANGED <<store, now, alerted>>,
           unsaved' = (IF pending = None THEN unsaved ELSE unsaved \cup {pending.name})
    PROVE  Inv'
  <1> USE WatchAssumption
  <1>1. TypeOK /\ EngineTypeOK
    BY DEF Inv, AlertedIsDisabled, TypeOK
  <1>2. /\ EngineTypeOK' /\ watched' = Nothing
        /\ phase' = "off" /\ pending' = None /\ streamed' = {}
        /\ SnapshotOK' /\ SpentOK' /\ AlertedIsSpent' /\ Cardinality(Owed)' = 0
    BY <1>1, EndInv
  <1>3. TypeOK'
    <2>1. unsaved' \subseteq Name
      BY <1>1 DEF TypeOK, Row
    <2> QED  BY <1>1, <1>2, <2>1 DEF TypeOK, store, Nothing, Phase, Persisting
  <1>4. AlertedIsDisabled'
    BY <1>2, <1>3 DEF Inv, AlertedIsDisabled, store
  <1>5. RoomOK'
    BY <1>1, <1>2 DEF Inv, RoomOK, Persisting, store, TypeOK
  <1> QED
    BY <1>2, <1>4, <1>5 DEF Inv

LEMMA PersistInv ==
    ASSUME Inv, Persist
    PROVE  Inv'
  <1> USE WatchAssumption
  <1>1. TypeOK /\ Persisting /\ pending \in Row /\ pending # None
    BY DEF Inv, AlertedIsDisabled, TypeOK, Persist, PersistSelect, PersistDelete,
           PersistInsert, Persisting
  <1>2. /\ Cardinality(Owed) \in Nat /\ next_id \in Nat /\ IsFiniteSet(rows)
        /\ next_id + Cardinality(Owed) + 1 <= MaxId + 1
    BY <1>1, OwedCount DEF Inv, RoomOK, TypeOK
  <1>3. CASE PersistInsert /\ Stored(pending.name)
    BY <1>1, <1>3, EndsInv DEF PersistInsert
  <1>4. CASE ~(PersistInsert /\ Stored(pending.name))
    <2>0. UNCHANGED <<now, snapshot, engine, alerted>> /\ phase' \in Phase
      BY <1>1, <1>4 DEF Persist, PersistSelect, PersistDelete, PersistInsert, TypeOK, Phase
    <2>1. EngineTypeOK' /\ SnapshotOK' /\ SpentOK' /\ Owed' = Owed
      <3>1. EngineTypeOK'
        BY <1>1, <2>0 DEF TypeOK, engine, EngineTypeOK
      <3>2. SnapshotOK' /\ SpentOK' /\ Owed' = Owed
        BY <2>0 DEF Inv, engine, snapshot, SnapshotOK, SpentOK, Owed
      <3> QED  BY <3>1, <3>2
    <2>2. CASE PersistSelect \/ PersistDelete
      <3>1. /\ rows' \subseteq rows /\ next_id' = next_id
            /\ \/ pending' = pending /\ Persisting' /\ unsaved' = unsaved
               \/ /\ pending' = None /\ phase' = "streaming"
                  /\ unsaved' = unsaved \cup {pending.name}
        BY <2>2 DEF PersistSelect, PersistDelete, store, Persisting
      <3>2. unsaved' \subseteq Name
        BY <1>1, <3>1 DEF TypeOK, Row
      <3>3. TypeOK'
        BY <1>1, <2>0, <2>1, <3>1, <3>2 DEF TypeOK, snapshot, Persisting
      <3>4. AlertedIsDisabled'
        BY <2>0, <3>1, <3>3 DEF Inv, AlertedIsDisabled
      <3>5. AlertedIsSpent'
        BY <2>0, <3>1 DEF Inv, AlertedIsSpent, snapshot, engine
      <3>6. IsFiniteSet(rows')
        BY <1>2, <3>1, FS_Subset
      <3>7. RoomOK'
        BY <1>2, <2>1, <3>1, <3>6 DEF RoomOK
      <3> QED  BY <2>1, <3>4, <3>5, <3>7 DEF Inv
    <2>3. CASE PersistInsert /\ ~Stored(pending.name)
      <3> DEFINE new == [id |-> next_id, name |-> pending.name, enabled |-> FALSE]
      <3>1. /\ rows' = rows \cup {new} /\ next_id' = next_id + 1
            /\ phase' = "streaming" /\ pending' = None /\ unsaved' = unsaved
        BY <2>3 DEF PersistInsert, InsertRow
      <3>2. new \in Row /\ next_id + 1 \in 1..(MaxId + 1)
        BY <1>1, <1>2 DEF Row, TypeOK
      <3>3. TypeOK'
        BY <1>1, <2>0, <2>1, <3>1, <3>2 DEF TypeOK, snapshot, Persisting, Phase
      <3>4. AlertedIsDisabled'
        BY <2>0, <2>3, <3>1, <3>3 DEF Inv, AlertedIsDisabled, Stored
      <3>5. AlertedIsSpent'
        BY <2>0, <3>1 DEF Inv, AlertedIsSpent, snapshot, engine
      <3>6. IsFiniteSet(rows')
        BY <1>2, <3>1, FS_AddElement
      <3>7. RoomOK'
        BY <1>2, <2>1, <3>1, <3>6 DEF RoomOK, Persisting
      <3> QED  BY <2>1, <3>4, <3>5, <3>7 DEF Inv
    <2> QED  BY <1>4, <2>2, <2>3 DEF Persist
  <1> QED
    BY <1>3, <1>4

-----------------------------------------------------------------------------
(* The theorems. *)

LEMMA InvInit == Init => Inv
  <1> SUFFICES ASSUME Init PROVE Inv
    OBVIOUS
  <1> USE WatchAssumption
  <1>1. EngineTypeOK
    <2>1. DefaultRule \in Rules /\ NoEvent \in Event
      BY EngineAssumption DEF Event
    <2> QED  BY <2>1 DEF Init, EngineInit, EngineTypeOK
  <1>2. 1 \in DOMAIN Timeline
    BY TimelineAssumption
  <1>3. TypeOK
    BY <1>1, <1>2 DEF Init, TypeOK, Phase, Nothing, Persisting
  <1>4. Owed = {} /\ Cardinality(Owed) = 0
    <2>1. Owed = {}
      BY DEF Init, Owed, Nothing
    <2> QED  BY <2>1, FS_EmptySet
  <1>5. RoomOK
    BY <1>4, FS_EmptySet DEF Init, RoomOK, Persisting
  <1> QED
    BY <1>3, <1>5
    DEF Init, EngineInit, Inv, AlertedIsDisabled, SnapshotOK, SpentOK, AlertedIsSpent, Nothing

LEMMA InvStep ==
    ASSUME Inv, [Next]_vars
    PROVE  Inv'
  <1>1. CASE Operates
    BY <1>1, OperatesInv
  <1>2. ASSUME NEW ids, StartTriggers(ids) PROVE Inv'
    BY <1>2, StartTriggersInv
  <1>3. ASSUME NEW wanted \in SUBSET Symbol, StartSymbols(wanted) PROVE Inv'
    BY <1>3, StartSymbolsInv
  <1>4. ASSUME NEW s \in Symbol, NEW p \in Price, HandleQuote(s, p) PROVE Inv'
    BY <1>4, QuoteInv
  <1>5. CASE Persist
    BY <1>5, PersistInv
  <1>6. CASE Stop
    BY <1>6, EndsInv DEF Stop
  <1>7. CASE UNCHANGED vars
    <2>1. TypeOK'
      BY <1>7 DEF Inv, AlertedIsDisabled, vars, store, snapshot, engine,
                  TypeOK, EngineTypeOK, Persisting
    <2>2. AlertedIsDisabled' /\ SnapshotOK' /\ SpentOK' /\ AlertedIsSpent'
      BY <1>7, <2>1 DEF Inv, vars, store, snapshot, engine, AlertedIsDisabled,
                        SnapshotOK, SpentOK, AlertedIsSpent
    <2>3. RoomOK'
      BY <1>7 DEF Inv, vars, store, snapshot, engine, RoomOK, Owed, Persisting
    <2> QED  BY <2>2, <2>3 DEF Inv
  <1> QED
    BY <1>1, <1>2, <1>3, <1>4, <1>5, <1>6, <1>7 DEF Next, Operates

LEMMA Invariance == Spec => []Inv
  <1>1. Inv /\ [Next]_vars => Inv'
    BY InvStep
  <1> QED
    BY InvInit, <1>1, PTL DEF Spec

\* A stored "once" trigger that has alerted is disabled, being disabled, or known
\* as unsaved, for any symbols, triggers, operators and restarts (consume_signal,
\* set_trigger_enabled).
THEOREM AlertedDisabled == Spec => []AlertedIsDisabled
  <1>1. Inv => AlertedIsDisabled
    BY DEF Inv
  <1> QED
    BY Invariance, <1>1, PTL

\* Over any number of restarts a "once" trigger alerts once for each time it is
\* enabled, unless the store never learned of it (consume_signal, on_tick).
THEOREM OncePerEnabling == Spec => OnceAlertsOncePerEnabling
  <1>1. Inv /\ [Next]_vars =>
            [phase = "streaming" /\ phase' = "persist_select"
                => pending'.name \notin alerted \ unsaved]_vars
    <2> SUFFICES ASSUME Inv, Next, phase = "streaming", phase' = "persist_select"
                 PROVE  pending'.name \notin alerted \ unsaved
      BY DEF vars
    <2>1. PICK s \in Symbol, p \in Price : HandleQuote(s, p)
      BY DEF Next, Create, Delete, SetEnabled, AdvanceTime, StartTriggers, StartSymbols,
             Persist, PersistSelect, PersistDelete, PersistInsert, Stop, End, Stream
    <2>2. /\ s \in streamed /\ OnTick(s, p, Timeline[now])
          /\ FiredOn(s, event') /\ watched[s] # None /\ Once(watched[s].name)
          /\ pending' = watched[s]
      BY <2>1 DEF HandleQuote, Disables
    <2>3. Fire(s, p, Timeline[now])
      BY <2>2, TickFires DEF FiredOn, TickEvent
    <2> QED  BY <2>2, <2>3, OnceFiresUnspent
  <1> QED
    BY Invariance, <1>1, PTL DEF Spec, OnceAlertsOncePerEnabling

\* The checked invariants and the two facts they need to be inductive.
SpentHasBaseline == \A s \in spent : armed[s] # "unknown"
SpentIsOnce == \A s \in spent : rules[s].frequency = "once"

EngineInv ==
    /\ EngineTypeOK
    /\ ArmedIsWitnessed
    /\ SpentStaysDisarmed
    /\ SpentHasBaseline
    /\ SpentIsOnce

Configures(s) ==
    \/ \E r \in Rules : SetRule(s, r)
    \/ \E l \in Price : SetLevels(s, l)
    \/ Freeze(s)
    \/ \E n \in 0..MinHistory, ok \in BOOLEAN, d \in BarDate \cup {None} :
           SetHistory(s, n, ok, d)

QuietTick(s, p, m) ==
    \/ TickWithoutLevel(s, p, m)
    \/ TickExpired(s, p, m)
    \/ TickHoldingOffSession(s, p, m)
    \/ TickOffSession(s, p, m)
    \/ TickRepeat(s, p, m)

\* The next-state relation on one symbol, regrouped by what a step may disturb.
EngineStep(s) ==
    \/ Configures(s)
    \/ \E c \in Price : SeedBaseline(s, c)
    \/ \E c, low \in Price, ok \in BOOLEAN, d \in BarDate \cup {None} :
           RollDailyBar(s, c, ok, d, low)
    \/ \E p \in Price, m \in Moment :
           \/ QuietTick(s, p, m)
           \/ TickReady(s, p, m)
           \/ TickBaseline(s, p, m)
           \/ TickHolding(s, p, m)
           \/ TickCrossing(s, p, m)

\* Every step of the engine is a step of one symbol.
LEMMA NextIsEngineStep ==
    ASSUME EngineNext
    PROVE  \E s \in Symbol : EngineStep(s)
BY DEF EngineNext, EngineStep, Configures, OnTick, QuietTick

\* Every kind of event a call leaves behind is one of the declared ones.
LEMMA EventTypes ==
    /\ NoEvent \in Event
    /\ \A s \in Symbol, p \in Price, m \in Moment, r \in Results :
           TickEvent(s, p, m, r) \in Event
    /\ \A s \in Symbol, p \in Price :
           [result |-> "rolled", symbol |-> s, price |-> p] \in Event
BY DEF Event, NoEvent, TickEvent, Results

\* Rolling a bar keeps a history a history (roll_daily_bar).
LEMMA RolledHistoryType ==
    ASSUME EngineTypeOK, NEW s \in Symbol, histories[s] # None, NEW ok \in BOOLEAN
    PROVE  RolledHistory(s, ok) \in [bars: 0..MinHistory, valid: BOOLEAN]
<1>1. histories[s] \in [bars: 0..MinHistory, valid: BOOLEAN]
  BY DEF EngineTypeOK
<1>2. histories[s].bars \in 0..MinHistory /\ histories[s].valid \in BOOLEAN
  BY <1>1
<1>3. (histories[s].valid /\ ok) \in BOOLEAN
  <2>1. PICK v \in BOOLEAN : v = histories[s].valid
    BY <1>2
  <2>2. (v /\ ok) \in BOOLEAN
    OBVIOUS
  <2> QED  BY <2>1, <2>2
<1> QED
  BY EngineAssumption, <1>2, <1>3 DEF RolledHistory

-----------------------------------------------------------------------------
(* Type correctness. *)

LEMMA TypeStep ==
    ASSUME EngineTypeOK, [EngineNext]_engine
    PROVE  EngineTypeOK'
<1> USE EngineAssumption
<1>1. CASE UNCHANGED engine
  BY <1>1 DEF engine, EngineTypeOK
<1>2. CASE EngineNext
  <2>1. PICK s \in Symbol : EngineStep(s)
    BY <1>2, NextIsEngineStep
  <2>2. CASE Configures(s)
    <3>1. ASSUME NEW r \in Rules, SetRule(s, r) PROVE EngineTypeOK'
      BY <3>1, EventTypes DEF SetRule, EngineTypeOK
    <3>2. ASSUME NEW l \in Price, SetLevels(s, l) PROVE EngineTypeOK'
      BY <3>2, EventTypes DEF SetLevels, setup, EngineTypeOK
    <3>3. CASE Freeze(s)
      BY <3>3, EventTypes DEF Freeze, EngineTypeOK
    <3>4. ASSUME NEW n \in 0..MinHistory, NEW ok \in BOOLEAN,
                 NEW d \in BarDate \cup {None}, SetHistory(s, n, ok, d)
          PROVE  EngineTypeOK'
      BY <3>4, EventTypes DEF SetHistory, setup, EngineTypeOK
    <3> QED
      BY <2>2, <3>1, <3>2, <3>3, <3>4 DEF Configures
  <2>3. ASSUME NEW c \in Price, SeedBaseline(s, c) PROVE EngineTypeOK'
    BY <2>3, EventTypes DEF SeedBaseline, SeedOne, setup, EngineTypeOK
  <2>4. ASSUME NEW c \in Price, NEW low \in Price, NEW ok \in BOOLEAN,
               NEW d \in BarDate \cup {None}, RollDailyBar(s, c, ok, d, low)
        PROVE  EngineTypeOK'
    <3> DEFINE h == RolledHistory(s, ok)
    <3>1. h \in [bars: 0..MinHistory, valid: BOOLEAN]
      BY <2>4, RolledHistoryType DEF RollDailyBar
    <3>2. UNCHANGED <<setup, spent>>
      BY <2>4 DEF RollDailyBar
    <3>3. last_bar_dates' \in [Symbol -> BarDate \cup {None}]
      BY <2>4 DEF RollDailyBar, EngineTypeOK
    <3>4. histories' \in [Symbol -> [bars: 0..MinHistory, valid: BOOLEAN] \cup {None}]
      <4> HIDE DEF h
      <4>1. histories' = [histories EXCEPT ![s] = h]
        BY <2>4 DEF RollDailyBar, h
      <4> QED
        BY <3>1, <4>1 DEF EngineTypeOK
    <3>5. CASE h.valid /\ h.bars = MinHistory
      <4>1. /\ levels' = [levels EXCEPT ![s] = low]
            /\ SeedOne(s, c, low)
            /\ event' = [result |-> "rolled", symbol |-> s, price |-> c]
        BY <2>4, <3>5 DEF RollDailyBar
      <4> QED
        BY <3>2, <3>3, <3>4, <4>1, EventTypes DEF SeedOne, setup, EngineTypeOK
    <3>6. CASE ~(h.valid /\ h.bars = MinHistory)
      <4>1. event' = NoEvent /\ UNCHANGED <<levels, armed, witness>>
        BY <2>4, <3>6 DEF RollDailyBar
      <4> QED
        BY <3>2, <3>3, <3>4, <4>1, EventTypes DEF setup, EngineTypeOK
    <3> QED
      BY <3>5, <3>6
  <2>5. ASSUME NEW p \in Price, NEW m \in Moment,
               \/ QuietTick(s, p, m)
               \/ TickReady(s, p, m)
               \/ TickBaseline(s, p, m)
               \/ TickHolding(s, p, m)
               \/ TickCrossing(s, p, m)
        PROVE  EngineTypeOK'
    <3>1. CASE QuietTick(s, p, m)
      <4>1. /\ event' \in Event
            /\ UNCHANGED <<policy, levels, rules, armed, spent, frozen, histories,
                           last_bar_dates, witness>>
        BY <3>1, EventTypes
        DEF QuietTick, TickWithoutLevel, TickExpired, TickHoldingOffSession,
            TickOffSession, TickRepeat, Quiet, setup, Results
      <4> QED
        BY <4>1 DEF EngineTypeOK
    <3>2. CASE TickReady(s, p, m)
      <4>1. event' \in Event /\ UNCHANGED <<setup, levels, spent, histories, last_bar_dates>>
        <5>1. Quiet(s, p, m, "silent")
          BY <3>2 DEF TickReady
        <5> QED
          BY <5>1, EventTypes DEF Quiet, Results
      <4>2. /\ armed' \in [Symbol -> {"unknown", "armed", "disarmed"}]
            /\ witness' \in [Symbol -> Price \cup {None}]
        <5>1. CASE s \in spent
          BY <3>2, <5>1 DEF TickReady, EngineTypeOK
        <5>2. CASE s \notin spent
          <6>1. /\ armed' = [armed EXCEPT ![s] = "armed"]
                /\ witness' = [witness EXCEPT ![s] = p]
            BY <3>2, <5>2 DEF TickReady
          <6> QED  BY <6>1 DEF EngineTypeOK
        <5> QED
          BY <5>1, <5>2
      <4> QED
        BY <4>1, <4>2 DEF setup, EngineTypeOK
    <3>3. CASE TickBaseline(s, p, m)
      <4>1. event' \in Event
        BY <3>3, EventTypes DEF TickBaseline, Quiet, Results
      <4> QED  BY <3>3, <4>1 DEF TickBaseline, Quiet, setup, EngineTypeOK
    <3>4. CASE Fire(s, p, m)
      <4>1. event' \in Event
        BY <3>4, EventTypes DEF Fire, Results
      <4> QED  BY <3>4, <4>1 DEF Fire, setup, EngineTypeOK
    <3> QED
      BY <2>5, <3>1, <3>2, <3>3, <3>4 DEF TickHolding, TickCrossing
  <2> QED
    BY <2>1, <2>2, <2>3, <2>4, <2>5 DEF EngineStep
<1> QED
  BY <1>1, <1>2

-----------------------------------------------------------------------------
(* The inductive invariant. *)

LEMMA EngineInvInit ==
    ASSUME EngineInit
    PROVE  EngineInv
BY EngineAssumption, EventTypes
DEF EngineInit, EngineInv, EngineTypeOK, ArmedIsWitnessed, SpentStaysDisarmed, SpentHasBaseline,
    SpentIsOnce

\* Steps that leave the arm state, the level and the rule of every symbol alone.
LEMMA InvQuiet ==
    ASSUME EngineInv, EngineTypeOK', UNCHANGED <<levels, rules, armed, spent, frozen, witness>>
    PROVE  EngineInv'
BY DEF EngineInv, ArmedIsWitnessed, SpentStaysDisarmed, SpentHasBaseline, SpentIsOnce

\* Only a symbol without a baseline is configured, and it is neither armed nor
\* spent (the order of calls in watch.py and dry_run_alerts).
LEMMA InvConfigure ==
    ASSUME EngineInv, EngineTypeOK', NEW s \in Symbol, Configures(s)
    PROVE  EngineInv'
<1>1. /\ armed[s] = "unknown"
      /\ UNCHANGED <<armed, spent, witness>>
  BY DEF Configures, SetRule, SetLevels, Freeze, SetHistory, setup
<1>2. s \notin spent
  BY <1>1 DEF EngineInv, SpentHasBaseline
<1>3. /\ \A t \in Symbol \ {s} : rules'[t] = rules[t] /\ levels'[t] = levels[t]
      /\ \A t \in Symbol \ {s} : t \in frozen' => t \in frozen
  BY DEF Configures, SetRule, SetLevels, Freeze, SetHistory, setup, EngineInv, EngineTypeOK
<1>4. \A t \in Symbol : armed[t] = "armed" => t # s
  BY <1>1
<1>5. ArmedIsWitnessed'
  BY <1>1, <1>3, <1>4 DEF EngineInv, ArmedIsWitnessed, ReadySide
<1>6. SpentStaysDisarmed' /\ SpentHasBaseline'
  BY <1>1, <1>2, <1>3 DEF EngineInv, EngineTypeOK, SpentStaysDisarmed, SpentHasBaseline
<1>7. SpentIsOnce'
  BY <1>1, <1>2, <1>3 DEF EngineInv, EngineTypeOK, SpentIsOnce
<1> QED
  BY <1>5, <1>6, <1>7 DEF EngineInv

\* The arm state of s is judged anew, by price c against level l.
Judge(s, c, l) ==
    /\ SeedOne(s, c, l)
    /\ levels' = [levels EXCEPT ![s] = l]
    /\ s \notin spent \/ s \notin frozen
    /\ UNCHANGED <<policy, rules, frozen, spent>>

\* A judged symbol is armed by the very price it keeps as its witness (_seed_one).
LEMMA InvJudge ==
    ASSUME EngineInv, EngineTypeOK',
           NEW s \in Symbol, NEW c \in Price, NEW l \in Price, Judge(s, c, l)
    PROVE  EngineInv'
<1> USE DEF Judge
<1>1. /\ levels'[s] = l
      /\ armed'[s] = IF ReadySide(rules[s], c, l) THEN "armed" ELSE "disarmed"
      /\ witness'[s] = IF ReadySide(rules[s], c, l) THEN c ELSE None
      /\ rules' = rules /\ frozen' = frozen /\ spent' = spent
  BY DEF SeedOne, EngineInv, EngineTypeOK
<1>2. \A t \in Symbol \ {s} :
          levels'[t] = levels[t] /\ armed'[t] = armed[t] /\ witness'[t] = witness[t]
  BY DEF SeedOne, EngineInv, EngineTypeOK
<1>3. ArmedIsWitnessed'
  <2> SUFFICES ASSUME NEW t \in Symbol, armed'[t] = "armed"
               PROVE  /\ levels'[t] # None
                      /\ witness'[t] # None
                      /\ ReadySide(rules'[t], witness'[t], levels'[t])
    BY DEF ArmedIsWitnessed, ReadySide
  <2>1. CASE t = s
    <3>1. l # None /\ c # None
      BY EngineAssumption
    <3> QED  BY <1>1, <2>1, <3>1
  <2>2. CASE t # s
    BY <1>1, <1>2, <2>2 DEF EngineInv, ArmedIsWitnessed
  <2> QED
    BY <2>1, <2>2
<1>4. SpentStaysDisarmed' /\ SpentHasBaseline' /\ SpentIsOnce'
  BY <1>1, <1>2 DEF EngineInv, EngineTypeOK, SpentStaysDisarmed, SpentHasBaseline, SpentIsOnce
<1> QED
  BY <1>3, <1>4 DEF EngineInv

\* An alert disarms its symbol and spends it only under a "once" rule (_fire).
LEMMA InvFire ==
    ASSUME EngineInv, EngineTypeOK', NEW s \in Symbol, NEW p \in Price, NEW m \in Moment,
           Fire(s, p, m)
    PROVE  EngineInv'
<1>1. /\ armed'[s] = "disarmed"
      /\ \A t \in Symbol \ {s} : armed'[t] = armed[t] /\ witness'[t] = witness[t]
      /\ UNCHANGED <<rules, frozen, levels>>
  BY DEF Fire, setup, EngineInv, EngineTypeOK
<1>2. \A t \in spent' : t \in spent \/ (t = s /\ rules[s].frequency = "once")
  BY DEF Fire
<1>3. ArmedIsWitnessed'
  BY <1>1 DEF EngineInv, ArmedIsWitnessed, ReadySide
<1>4. SpentStaysDisarmed' /\ SpentHasBaseline'
  BY <1>1, <1>2 DEF EngineInv, EngineTypeOK, SpentStaysDisarmed, SpentHasBaseline
<1>5. SpentIsOnce'
  BY <1>1, <1>2 DEF EngineInv, SpentIsOnce
<1> QED
  BY <1>3, <1>4, <1>5 DEF EngineInv

LEMMA EngineInvStep ==
    ASSUME EngineInv, [EngineNext]_engine
    PROVE  EngineInv'
<1>0. EngineTypeOK'
  BY TypeStep DEF EngineInv
<1>1. CASE UNCHANGED engine
  BY <1>0, <1>1, InvQuiet DEF engine
<1>2. CASE EngineNext
  <2>1. PICK s \in Symbol : EngineStep(s)
    BY <1>2, NextIsEngineStep
  <2>2. CASE Configures(s)
    BY <1>0, <2>2, InvConfigure
  <2>3. ASSUME NEW c \in Price, SeedBaseline(s, c) PROVE EngineInv'
    <3>1. levels[s] \in Price /\ levels' = [levels EXCEPT ![s] = levels[s]]
      BY <2>3 DEF SeedBaseline, EngineInv, EngineTypeOK
    <3>2. s \notin spent
      BY <2>3 DEF SeedBaseline, EngineInv, SpentHasBaseline
    <3>3. Judge(s, c, levels[s])
      <4>1. SeedOne(s, c, levels[s]) /\ UNCHANGED <<policy, rules, frozen, spent>>
        BY <2>3 DEF SeedBaseline, setup
      <4> QED  BY <3>1, <3>2, <4>1 DEF Judge
    <3> QED
      BY <1>0, <3>1, <3>3, InvJudge
  <2>4. ASSUME NEW c \in Price, NEW low \in Price, NEW ok \in BOOLEAN,
               NEW d \in BarDate \cup {None}, RollDailyBar(s, c, ok, d, low)
        PROVE  EngineInv'
    <3>1. s \notin frozen /\ UNCHANGED <<setup, spent>>
      BY <2>4 DEF RollDailyBar
    <3>2. \/ SeedOne(s, c, low) /\ levels' = [levels EXCEPT ![s] = low]
          \/ UNCHANGED <<levels, armed, witness>>
      BY <2>4 DEF RollDailyBar
    <3>3. CASE SeedOne(s, c, low) /\ levels' = [levels EXCEPT ![s] = low]
      <4>1. Judge(s, c, low)
        BY <3>1, <3>3 DEF Judge, setup
      <4> QED
        BY <1>0, <4>1, InvJudge
    <3>4. CASE UNCHANGED <<levels, armed, witness>>
      BY <1>0, <3>1, <3>4, InvQuiet DEF setup
    <3> QED
      BY <3>2, <3>3, <3>4
  <2>5. ASSUME NEW p \in Price, NEW m \in Moment, QuietTick(s, p, m) PROVE EngineInv'
    BY <1>0, <2>5, InvQuiet
    DEF QuietTick, TickWithoutLevel, TickExpired, TickHoldingOffSession,
        TickOffSession, TickRepeat, Quiet, setup
  <2>6. ASSUME NEW p \in Price, NEW m \in Moment, TickReady(s, p, m) PROVE EngineInv'
    <3>1. /\ levels[s] # None /\ ReadySide(rules[s], p, levels[s])
          /\ UNCHANGED <<setup, levels, spent>>
      BY <2>6 DEF TickReady, Live, Quiet
    <3>2. CASE s \in spent
      BY <1>0, <2>6, <3>1, <3>2, InvQuiet DEF TickReady, setup
    <3>3. CASE s \notin spent
      <4>1. SeedOne(s, p, levels[s])
        BY <2>6, <3>1, <3>3 DEF TickReady, SeedOne
      <4>2. levels[s] \in Price /\ levels' = [levels EXCEPT ![s] = levels[s]]
        BY <3>1 DEF EngineInv, EngineTypeOK
      <4>3. Judge(s, p, levels[s])
        <5>1. UNCHANGED <<policy, rules, frozen, spent>>
          BY <3>1 DEF setup
        <5> QED  BY <3>3, <4>1, <4>2, <5>1, Zenon DEF Judge
      <4> QED
        BY <1>0, <4>2, <4>3, InvJudge
    <3> QED
      BY <3>2, <3>3
  <2>7. ASSUME NEW p \in Price, NEW m \in Moment, TickBaseline(s, p, m) PROVE EngineInv'
    <3>1. /\ armed[s] = "unknown" /\ armed'[s] = "disarmed"
          /\ \A t \in Symbol \ {s} : armed'[t] = armed[t]
          /\ UNCHANGED <<setup, levels, spent, witness>>
      BY <2>7 DEF TickBaseline, Quiet, EngineInv, EngineTypeOK
    <3>2. ArmedIsWitnessed'
      BY <3>1 DEF setup, EngineInv, ArmedIsWitnessed, ReadySide
    <3>3. SpentStaysDisarmed' /\ SpentHasBaseline' /\ SpentIsOnce'
      BY <3>1 DEF setup, EngineInv, EngineTypeOK, SpentStaysDisarmed, SpentHasBaseline, SpentIsOnce
    <3> QED
      BY <1>0, <3>2, <3>3 DEF EngineInv
  <2>8. ASSUME NEW p \in Price, NEW m \in Moment,
               TickHolding(s, p, m) \/ TickCrossing(s, p, m)
        PROVE  EngineInv'
    BY <1>0, <2>8, InvFire DEF TickHolding, TickCrossing
  <2> QED
    BY <2>1, <2>2, <2>3, <2>4, <2>5, <2>6, <2>7, <2>8 DEF EngineStep
<1> QED
  BY <1>1, <1>2

LEMMA EngineInvariance ==
    EngineSpec => []EngineInv
<1>1. EngineInit => EngineInv
  BY EngineInvInit
<1>2. EngineInv /\ [EngineNext]_engine => EngineInv'
  BY EngineInvStep
<1> QED
  BY <1>1, <1>2, PTL DEF EngineSpec

-----------------------------------------------------------------------------
(* What follows for every execution. *)

\* Only the two firing branches of on_tick hand anything to on_alert, and what
\* they hand over is the tick they were called with.
LEMMA AlertIsATick ==
    ASSUME EngineNext, NEW t \in Symbol, FiredOn(t, event')
    PROVE  \E p \in Price, m \in Moment :
               /\ TickHolding(t, p, m) \/ TickCrossing(t, p, m)
               /\ event'.price = p /\ event'.moment = m
<1>1. PICK s \in Symbol : EngineStep(s)
  BY NextIsEngineStep
<1>2. PICK p \in Price, m \in Moment : TickHolding(s, p, m) \/ TickCrossing(s, p, m)
  BY <1>1
  DEF EngineStep, Configures, SetRule, SetLevels, Freeze, SetHistory, SeedBaseline,
      RollDailyBar, QuietTick, TickWithoutLevel, TickExpired,
      TickHoldingOffSession, TickOffSession, TickRepeat, TickReady,
      TickBaseline, Quiet, TickEvent, NoEvent, FiredOn
<1>3. event' = TickEvent(s, p, m, "fired")
  BY <1>2 DEF TickHolding, TickCrossing, Fire
<1>4. t = s /\ event'.price = p /\ event'.moment = m
  BY <1>3 DEF TickEvent, FiredOn
<1> QED
  BY <1>2, <1>4

\* The state of the engine keeps its types under every sequence of calls.
THEOREM TypeCorrect ==
    EngineSpec => []EngineTypeOK
BY EngineInvariance, PTL DEF EngineInv

\* A symbol is armed only by a price that is on the ready side of the level in
\* force now: no daily bar can move a level past a stale print (roll_daily_bar).
THEOREM ArmWitnessed ==
    EngineSpec => []ArmedIsWitnessed
BY EngineInvariance, PTL DEF EngineInv

\* No tick, session or bar arms a spent symbol of a frozen level (on_tick).
THEOREM SpentDisarmed ==
    EngineSpec => []SpentStaysDisarmed
BY EngineInvariance, PTL DEF EngineInv

\* Every alert of a crossing rests on an earlier ready-side observation and on a
\* firing print of a trigger session (on_tick, _fire).
THEOREM CrossingNeedsBothSides ==
    EngineSpec => FireIsACrossing
<1>1. ASSUME EngineInv, [EngineNext]_engine, NEW t \in Symbol, FiredOn(t, event'),
             ~Holding(rules[t]), ~UNCHANGED engine
      PROVE  /\ witness[t] # None
             /\ ReadySide(rules[t], witness[t], levels[t])
             /\ ~ReadySide(rules[t], event'.price, levels[t])
             /\ InSession(event'.moment)
  <2>1. PICK p \in Price, m \in Moment :
            /\ TickHolding(t, p, m) \/ TickCrossing(t, p, m)
            /\ event'.price = p /\ event'.moment = m
    BY <1>1, AlertIsATick
  <2>2. /\ armed[t] = "armed"
        /\ ~ReadySide(rules[t], p, levels[t])
        /\ InSession(m)
    BY <1>1, <2>1 DEF TickHolding, TickCrossing, PastLevel
  <2> QED
    BY <1>1, <2>1, <2>2 DEF EngineInv, ArmedIsWitnessed
<1>2. EngineInv /\ [EngineNext]_engine =>
          [\A s \in Symbol :
              FiredOn(s, event') /\ ~Holding(rules[s]) =>
                  /\ witness[s] # None
                  /\ ReadySide(rules[s], witness[s], levels[s])
                  /\ ~ReadySide(rules[s], event'.price, levels[s])
                  /\ InSession(event'.moment)]_engine
  BY <1>1
<1> QED
  BY <1>2, EngineInvariance, PTL DEF EngineSpec, FireIsACrossing

\* A "once" rule of a frozen level fires at most once in the engine's life.
THEOREM FrozenOnceFiresOnce ==
    EngineSpec => OnceFiresOnce
<1>1. ASSUME EngineInv, [EngineNext]_engine, NEW t \in spent \cap frozen, FiredOn(t, event'),
             ~UNCHANGED engine
      PROVE  FALSE
  <2>1. PICK p \in Price, m \in Moment : TickHolding(t, p, m) \/ TickCrossing(t, p, m)
    BY <1>1, AlertIsATick DEF EngineInv, EngineTypeOK
  <2>2. armed[t] # "armed"
    BY <1>1 DEF EngineInv, SpentStaysDisarmed
  <2>3. rules[t].frequency # "every_time"
    BY <1>1 DEF EngineInv, SpentIsOnce
  <2> QED
    BY <2>1, <2>2, <2>3 DEF TickHolding, TickCrossing, Holding
<1>2. EngineInv /\ [EngineNext]_engine => [\A s \in spent \cap frozen : ~FiredOn(s, event')]_engine
  BY <1>1
<1> QED
  BY <1>2, EngineInvariance, PTL DEF EngineSpec, OnceFiresOnce

\* An armed symbol loses its alert only to the alert itself or to a daily bar.
THEOREM ArmIsKept ==
    EngineSpec => ArmLostOnlyToAlertOrRoll
<1>1. ASSUME EngineInv, [EngineNext]_engine, NEW t \in Symbol, armed[t] = "armed",
             armed'[t] # "armed"
      PROVE  FiredOn(t, event') \/ (event'.result = "rolled" /\ event'.symbol = t)
  <2>0. EngineNext
    BY <1>1 DEF engine
  <2>1. PICK s \in Symbol : EngineStep(s)
    BY <2>0, NextIsEngineStep
  <2>2. CASE Configures(s) \/ \E p \in Price, m \in Moment : QuietTick(s, p, m)
    BY <1>1, <2>2
    DEF Configures, SetRule, SetLevels, Freeze, SetHistory, QuietTick,
        TickWithoutLevel, TickExpired, TickHoldingOffSession, TickOffSession,
        TickRepeat
  <2>3. ASSUME NEW c \in Price, SeedBaseline(s, c) PROVE FALSE
    BY <1>1, <2>3 DEF SeedBaseline, SeedOne, EngineInv, EngineTypeOK
  <2>4. ASSUME NEW c \in Price, NEW low \in Price, NEW ok \in BOOLEAN,
               NEW d \in BarDate \cup {None}, RollDailyBar(s, c, ok, d, low)
        PROVE  event'.result = "rolled" /\ event'.symbol = t
    <3>1. \/ /\ event' = [result |-> "rolled", symbol |-> s, price |-> c]
             /\ SeedOne(s, c, low)
          \/ UNCHANGED armed
      BY <2>4 DEF RollDailyBar
    <3> QED
      BY <1>1, <3>1 DEF SeedOne, EngineInv, EngineTypeOK
  <2>5. ASSUME NEW p \in Price, NEW m \in Moment,
               TickReady(s, p, m) \/ TickBaseline(s, p, m)
        PROVE  FALSE
    BY <1>1, <2>5 DEF TickReady, TickBaseline, EngineInv, EngineTypeOK
  <2>6. ASSUME NEW p \in Price, NEW m \in Moment, Fire(s, p, m)
        PROVE  FiredOn(t, event')
    BY <1>1, <2>6 DEF Fire, TickEvent, FiredOn, EngineInv, EngineTypeOK
  <2>7. ASSUME NEW p \in Price, NEW m \in Moment,
               TickHolding(s, p, m) \/ TickCrossing(s, p, m)
        PROVE  FiredOn(t, event')
    BY <2>6, <2>7 DEF TickHolding, TickCrossing
  <2> QED
    BY <2>1, <2>2, <2>3, <2>4, <2>5, <2>7 DEF EngineStep
<1>2. EngineInv /\ [EngineNext]_engine =>
          [\A s \in Symbol :
              armed[s] = "armed" /\ armed'[s] # "armed" =>
                  \/ FiredOn(s, event')
                  \/ event'.result = "rolled" /\ event'.symbol = s]_engine
  BY <1>1
<1> QED
  BY <1>2, EngineInvariance, PTL DEF EngineSpec, ArmLostOnlyToAlertOrRoll

\* In the regular session every zone a timestamp is written in has the same date.
LEMMA RegularDay ==
    ASSUME NEW m \in Moment, SessionAt(m) = "regular"
    PROVE  DateOf(m) = m.day
<1>1. m \in [day: Int, minute: 0..1439, ahead: 0..300]
  BY EngineAssumption
<1>2. PICK x \in 0..1439 : x = m.minute
  BY <1>1, SMTT(30)
<1>3. PICK y \in 0..300 : y = m.ahead
  BY <1>1, SMTT(30)
<1>4. x < 960
  BY <1>2 DEF SessionAt
<1>5. ~(x + y >= 1440)
  BY <1>4
<1> QED
  BY <1>2, <1>3, <1>5 DEF DateOf

\* Under the regular policy no zone a timestamp may be written in makes a tick of
\* the regular session expire before its own Eastern day is over (on_tick).
THEOREM ExpiryDayIsWhole ==
    EngineSpec => ExpiryDayStillFires
<1>1. ASSUME EngineInv, [EngineNext]_engine, ~UNCHANGED engine, NEW t \in Symbol,
             policy = "regular", event'.result = "expired",
             event'.symbol = t, InSession(event'.moment)
      PROVE  event'.moment.day > rules[t].expires_at
  <2>1. PICK s \in Symbol : EngineStep(s)
    BY <1>1, NextIsEngineStep
  <2>2. PICK p \in Price, m \in Moment : TickExpired(s, p, m)
    <3>1. ~Configures(s) /\ ~\E c \in Price : SeedBaseline(s, c)
      BY <1>1 DEF Configures, SetRule, SetLevels, Freeze,
                  SetHistory, SeedBaseline, NoEvent
    <3>2. ~\E c, low \in Price, ok \in BOOLEAN, d \in BarDate \cup {None} :
              RollDailyBar(s, c, ok, d, low)
      BY <1>1 DEF RollDailyBar, NoEvent
    <3>3. ASSUME NEW p \in Price, NEW m \in Moment,
                 \/ QuietTick(s, p, m) \/ TickReady(s, p, m) \/ TickBaseline(s, p, m)
                 \/ TickHolding(s, p, m) \/ TickCrossing(s, p, m)
          PROVE  TickExpired(s, p, m)
      BY <1>1, <3>3
      DEF QuietTick, TickWithoutLevel, TickHoldingOffSession,
          TickOffSession, TickRepeat, TickReady, TickBaseline,
          TickHolding, TickCrossing, Fire, Quiet, TickEvent
    <3> QED
      BY <2>1, <3>1, <3>2, <3>3 DEF EngineStep
  <2>3. event'.moment = m /\ t = s /\ Expired(rules[t], m)
    BY <1>1, <2>2 DEF TickExpired, Quiet, TickEvent
  <2>4. SessionAt(m) = "regular"
    BY <1>1, <2>3 DEF InSession, TriggerSessions
  <2>5. DateOf(m) = m.day
    BY <2>4, RegularDay
  <2> QED
    BY <2>3, <2>5 DEF Expired
<1>2. EngineInv /\ [EngineNext]_engine =>
          [\A s \in Symbol :
              /\ policy = "regular"
              /\ event'.result = "expired"
              /\ event'.symbol = s
              /\ InSession(event'.moment)
              => event'.moment.day > rules[s].expires_at]_engine
  BY <1>1
<1> QED
  BY <1>2, EngineInvariance, PTL DEF EngineSpec, ExpiryDayStillFires
=============================================================================
