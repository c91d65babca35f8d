---------------------------- MODULE AlertEngine ----------------------------
(***************************************************************************)
(* The trigger engine of src/mrmkt/command/alerts.py: a price level per    *)
(* symbol, an arm state per symbol, and a rule that says which side of the *)
(* level fires.  One action per branch of on_tick, one per public method.  *)
(*                                                                         *)
(* Prices are integers (only their order matters).  A moment is a day and  *)
(* a minute of US Eastern time, with how far the clock the timestamp was   *)
(* written in runs ahead of Eastern: on_tick takes the session from the    *)
(* Eastern time and the expiry from the timestamp's own date.              *)
(***************************************************************************)
EXTENDS Integers

CONSTANTS
    Symbol,     \* ticker symbols
    Price,      \* quoted prices, closes and levels
    Moment,     \* timestamps a tick may carry
    BarDate,    \* dates of stored daily bars
    Rules,      \* evaluation rules a trigger may have
    Policies,   \* values of session_policy
    MinHistory, \* closes risk_range_series needs before it yields a range
    None        \* Python's None

Operator == {"crossing-down", "crossing-up", "greater-than", "less-than"}
Frequency == {"once_per_rearm", "once", "every_time"}
Rule == [operator: Operator, frequency: Frequency, expires_at: Int \cup {None}]
DefaultRule ==
    [operator |-> "crossing-down", frequency |-> "once_per_rearm", expires_at |-> None]

ASSUME EngineAssumption ==
    /\ None \notin Int
    /\ Price \subseteq Int
    /\ BarDate \subseteq Int
    /\ Moment \subseteq [day: Int, minute: 0..1439, ahead: 0..300]
    /\ Rules \subseteq Rule
    /\ DefaultRule \in Rules
    /\ Policies \subseteq {"regular", "extended"}
    /\ MinHistory \in Nat \ {0}

VARIABLES
    policy,     \* session_policy
    levels,     \* the level of each symbol, or None
    rules,      \* the rule of each symbol, DEFAULT_RULE until set_rule
    armed,      \* "unknown" (absent), "armed" (True) or "disarmed" (False)
    spent,      \* symbols whose "once" rule has fired
    frozen,     \* symbols whose level is fixed
    histories,  \* None, or how many closes are stored (up to MinHistory) and
                \* whether all of them are positive
    last_bar_dates, \* date of the newest bar, or None
    event,      \* what the last call handed to on_alert or to ignored
    witness     \* history variable: the ready-side price that armed a symbol

engine == <<policy, levels, rules, armed, spent, frozen, histories,
            last_bar_dates, event, witness>>
setup == <<policy, rules, frozen>>

-----------------------------------------------------------------------------
(* Sessions, expiry and the two sides of a level. *)

SessionAt(m) ==
    IF m.day % 7 >= 5 \/ m.minute < 240 \/ m.minute >= 1200 THEN "closed"
    ELSE IF m.minute < 570 THEN "pre"
    ELSE IF m.minute < 960 THEN "regular"
    ELSE "post"

\* moment.date(): the date in the zone the timestamp was written in.
DateOf(m) == IF m.minute + m.ahead >= 1440 THEN m.day + 1 ELSE m.day

TriggerSessions ==
    IF policy = "extended" THEN {"regular", "pre", "post"} ELSE {"regular"}

InSession(m) == SessionAt(m) \in TriggerSessions

\* Deviation: the expiry date itself already counts as expired.
ExpiredOnTheDay(r, m) == r.expires_at # None /\ DateOf(m) >= r.expires_at

Expired(r, m) == r.expires_at # None /\ DateOf(m) > r.expires_at

ReadySide(r, p, l) ==
    IF r.operator \in {"crossing-down", "less-than"} THEN p > l ELSE p <= l

Holding(r) ==
    r.frequency = "every_time" /\ r.operator \in {"greater-than", "less-than"}

-----------------------------------------------------------------------------
(* What a call hands to its callbacks. *)

NoEvent == [result |-> "none"]
TickEvent(s, p, m, r) == [result |-> r, symbol |-> s, price |-> p, moment |-> m]
Results == {"fired", "expired", "off_session", "silent"}
Event ==
    {NoEvent}
    \cup [result: Results, symbol: Symbol, price: Price, moment: Moment]
    \cup [result: {"rolled"}, symbol: Symbol, price: Price]

FiredOn(s, e) == e.result = "fired" /\ e.symbol = s

EngineTypeOK ==
    /\ policy \in Policies
    /\ levels \in [Symbol -> Price \cup {None}]
    /\ rules \in [Symbol -> Rules]
    /\ armed \in [Symbol -> {"unknown", "armed", "disarmed"}]
    /\ spent \subseteq Symbol
    /\ frozen \subseteq Symbol
    /\ histories \in [Symbol -> [bars: 0..MinHistory, valid: BOOLEAN] \cup {None}]
    /\ last_bar_dates \in [Symbol -> BarDate \cup {None}]
    /\ event \in Event
    /\ witness \in [Symbol -> Price \cup {None}]

EngineInit ==
    /\ policy \in Policies
    /\ levels = [s \in Symbol |-> None]
    /\ rules = [s \in Symbol |-> DefaultRule]
    /\ armed = [s \in Symbol |-> "unknown"]
    /\ spent = {}
    /\ frozen = {}
    /\ histories = [s \in Symbol |-> None]
    /\ last_bar_dates = [s \in Symbol |-> None]
    /\ event = NoEvent
    /\ witness = [s \in Symbol |-> None]

-----------------------------------------------------------------------------
(* Configuration.  watch.py and dry_run_alerts set the rule, the level and *)
(* the freeze of a symbol before its baseline exists, and seed it once.    *)

SetRule(s, r) ==
    /\ armed[s] = "unknown"
    /\ rules' = [rules EXCEPT ![s] = r]
    /\ event' = NoEvent
    /\ UNCHANGED <<policy, levels, armed, spent, frozen, histories,
                   last_bar_dates, witness>>

SetLevels(s, l) ==
    /\ armed[s] = "unknown"
    /\ levels' = [levels EXCEPT ![s] = l]
    /\ event' = NoEvent
    /\ UNCHANGED <<setup, armed, spent, histories, last_bar_dates, witness>>

Freeze(s) ==
    /\ armed[s] = "unknown"
    /\ frozen' = frozen \cup {s}
    /\ event' = NoEvent
    /\ UNCHANGED <<policy, levels, rules, armed, spent, histories,
                   last_bar_dates, witness>>

\* set_history: the bar date is stored only when one is given.
SetHistory(s, n, ok, d) ==
    /\ armed[s] = "unknown"
    /\ histories' = [histories EXCEPT ![s] = [bars |-> n, valid |-> ok]]
    /\ last_bar_dates' =
           IF d = None THEN last_bar_dates ELSE [last_bar_dates EXCEPT ![s] = d]
    /\ event' = NoEvent
    /\ UNCHANGED <<setup, levels, armed, spent, witness>>

\* _seed_one: arm from a close against level l.
SeedOne(s, close, l) ==
    LET ready == ReadySide(rules[s], close, l) IN
    /\ armed' = [armed EXCEPT ![s] = IF ready THEN "armed" ELSE "disarmed"]
    /\ witness' = [witness EXCEPT ![s] = IF ready THEN close ELSE None]

SeedBaseline(s, close) ==
    /\ armed[s] = "unknown"
    /\ levels[s] # None
    /\ SeedOne(s, close, levels[s])
    /\ event' = NoEvent
    /\ UNCHANGED <<setup, levels, spent, histories, last_bar_dates>>

-----------------------------------------------------------------------------
(* roll_daily_bar. *)

\* The close joins the history; a non-positive one makes every later
\* risk_range_series of the symbol raise ValueError.
RolledHistory(s, positive) ==
    [bars  |-> IF histories[s].bars < MinHistory THEN histories[s].bars + 1
               ELSE MinHistory,
     valid |-> histories[s].valid /\ positive]

\* Deviation: the recomputed level keeps the old arm state.
RollWithoutReseed(s, close, positive, date, low) ==
    /\ histories[s] # None
    /\ s \notin frozen
    /\ levels' = [levels EXCEPT ![s] = low]
    /\ event' = [result |-> "rolled", symbol |-> s, price |-> close]
    /\ UNCHANGED <<setup, armed, spent, histories, last_bar_dates, witness>>

RollDailyBar(s, close, positive, date, low) ==
    /\ histories[s] # None
    /\ s \notin frozen
    /\ \/ date = None
       \/ last_bar_dates[s] = None
       \/ last_bar_dates[s] # None /\ date # None /\ date > last_bar_dates[s]
    /\ last_bar_dates' =
           IF date = None THEN last_bar_dates
           ELSE [last_bar_dates EXCEPT ![s] = date]
    /\ LET h == RolledHistory(s, positive) IN
       /\ histories' = [histories EXCEPT ![s] = h]
       /\ IF h.valid /\ h.bars = MinHistory
          THEN /\ levels' = [levels EXCEPT ![s] = low]
               /\ SeedOne(s, close, low)
               /\ event' = [result |-> "rolled", symbol |-> s, price |-> close]
          ELSE /\ event' = NoEvent
               /\ UNCHANGED <<levels, armed, witness>>
    /\ UNCHANGED <<setup, spent>>

-----------------------------------------------------------------------------
(* on_tick: one action per branch, in the order of the code's tests. *)

Quiet(s, p, m, result) ==
    /\ event' = TickEvent(s, p, m, result)
    /\ UNCHANGED <<setup, levels, spent, histories, last_bar_dates>>

\* The branches below the expiry test, on either side of the level.
Live(s, m) == levels[s] # None /\ ~Expired(rules[s], m)
PastLevel(s, p, m) == Live(s, m) /\ ~ReadySide(rules[s], p, levels[s])

TickWithoutLevel(s, p, m) ==
    /\ levels[s] = None
    /\ Quiet(s, p, m, "silent")
    /\ UNCHANGED <<armed, witness>>

TickExpired(s, p, m) ==
    /\ levels[s] # None
    /\ Expired(rules[s], m)
    /\ Quiet(s, p, m, "expired")
    /\ UNCHANGED <<armed, witness>>

\* Deviation: a ready-side print re-arms a spent symbol too.
TickReadyRearmsAll(s, p, m) ==
    /\ Live(s, m)
    /\ ReadySide(rules[s], p, levels[s])
    /\ Quiet(s, p, m, "silent")
    /\ armed' = [armed EXCEPT ![s] = "armed"]
    /\ witness' = [witness EXCEPT ![s] = p]

TickReady(s, p, m) ==
    /\ Live(s, m)
    /\ ReadySide(rules[s], p, levels[s])
    /\ Quiet(s, p, m, "silent")
    /\ IF s \in spent THEN UNCHANGED <<armed, witness>>
       ELSE /\ armed' = [armed EXCEPT ![s] = "armed"]
            /\ witness' = [witness EXCEPT ![s] = p]

\* _fire: the state changes before on_alert is called.
Fire(s, p, m) ==
    /\ spent' = IF rules[s].frequency = "once" THEN spent \cup {s} ELSE spent
    /\ armed' = [armed EXCEPT ![s] = "disarmed"]
    /\ witness' = [witness EXCEPT ![s] = None]
    /\ event' = TickEvent(s, p, m, "fired")
    /\ UNCHANGED <<setup, levels, histories, last_bar_dates>>

TickHolding(s, p, m) ==
    /\ PastLevel(s, p, m)
    /\ Holding(rules[s])
    /\ InSession(m)
    /\ Fire(s, p, m)

TickHoldingOffSession(s, p, m) ==
    /\ PastLevel(s, p, m)
    /\ Holding(rules[s])
    /\ ~InSession(m)
    /\ Quiet(s, p, m, "off_session")
    /\ UNCHANGED <<armed, witness>>

\* Deviation: `state is not False` instead of `state`, so no baseline is needed.
TickCrossingFromUnknown(s, p, m) ==
    /\ PastLevel(s, p, m)
    /\ ~Holding(rules[s])
    /\ armed[s] # "disarmed"
    /\ InSession(m)
    /\ Fire(s, p, m)

TickCrossing(s, p, m) ==
    /\ PastLevel(s, p, m)
    /\ ~Holding(rules[s])
    /\ armed[s] = "armed"
    /\ InSession(m)
    /\ Fire(s, p, m)

\* Deviation: the baseline is stored as None instead of False.
TickBaselineNone(s, p, m) ==
    /\ PastLevel(s, p, m)
    /\ ~Holding(rules[s])
    /\ armed[s] = "unknown"
    /\ Quiet(s, p, m, "silent")
    /\ armed' = [armed EXCEPT ![s] = None]
    /\ UNCHANGED witness

TickBaseline(s, p, m) ==
    /\ PastLevel(s, p, m)
    /\ ~Holding(rules[s])
    /\ armed[s] = "unknown"
    /\ Quiet(s, p, m, "silent")
    /\ armed' = [armed EXCEPT ![s] = "disarmed"]
    /\ UNCHANGED witness

\* Deviation: a dip outside the trigger sessions disarms.
TickOffSessionDisarms(s, p, m) ==
    /\ PastLevel(s, p, m)
    /\ ~Holding(rules[s])
    /\ armed[s] # "unknown"
    /\ ~InSession(m)
    /\ Quiet(s, p, m, "off_session")
    /\ armed' = [armed EXCEPT ![s] = "disarmed"]
    /\ witness' = [witness EXCEPT ![s] = None]

TickOffSession(s, p, m) ==
    /\ PastLevel(s, p, m)
    /\ ~Holding(rules[s])
    /\ armed[s] # "unknown"
    /\ ~InSession(m)
    /\ Quiet(s, p, m, "off_session")
    /\ UNCHANGED <<armed, witness>>

TickRepeat(s, p, m) ==
    /\ PastLevel(s, p, m)
    /\ ~Holding(rules[s])
    /\ armed[s] = "disarmed"
    /\ InSession(m)
    /\ Quiet(s, p, m, "silent")
    /\ UNCHANGED <<armed, witness>>

OnTick(s, p, m) ==
    \/ TickWithoutLevel(s, p, m)
    \/ TickExpired(s, p, m)
    \/ TickReady(s, p, m)
    \/ TickHolding(s, p, m)
    \/ TickHoldingOffSession(s, p, m)
    \/ TickCrossing(s, p, m)
    \/ TickBaseline(s, p, m)
    \/ TickOffSession(s, p, m)
    \/ TickRepeat(s, p, m)

EngineNext ==
    \E s \in Symbol :
        \/ \E r \in Rules : SetRule(s, r)
        \/ \E l \in Price : SetLevels(s, l)
        \/ Freeze(s)
        \/ \E n \in 0..MinHistory, ok \in BOOLEAN, d \in BarDate \cup {None} :
               SetHistory(s, n, ok, d)
        \/ \E c \in Price : SeedBaseline(s, c)
        \/ \E c, low \in Price, ok \in BOOLEAN, d \in BarDate \cup {None} :
               RollDailyBar(s, c, ok, d, low)
        \/ \E p \in Price, m \in Moment : OnTick(s, p, m)

EngineSpec == EngineInit /\ [][EngineNext]_engine

-----------------------------------------------------------------------------
(* Properties. *)

\* "One alert per touch" as a state invariant: a symbol is armed only on the
\* strength of a ready-side print or close seen since its last alert, and that
\* print is on the ready side of the level in force now, so a level that a
\* daily bar moved past a stale print cannot fire (roll_daily_bar, _fire).
ArmedIsWitnessed ==
    \A s \in Symbol :
        armed[s] = "armed" =>
            /\ levels[s] # None
            /\ witness[s] # None
            /\ ReadySide(rules[s], witness[s], levels[s])

\* A spent "once" symbol with a frozen level is never armed again, by any
\* order of ticks, sessions and daily bars (on_tick's ready branch, _fire).
SpentStaysDisarmed ==
    \A s \in spent \cap frozen : armed[s] # "armed"

\* An alert of a crossing needs the pair of observations: one on the ready
\* side, then the firing print past the same level, in a trigger session of a
\* rule that has not expired (on_tick, _fire).
FireIsACrossing ==
    [][\A s \in Symbol :
          FiredOn(s, event') /\ ~Holding(rules[s]) =>
              /\ witness[s] # None
              /\ ReadySide(rules[s], witness[s], levels[s])
              /\ ~ReadySide(rules[s], event'.price, levels[s])
              /\ InSession(event'.moment)]_engine

\* What arms a symbol is lost only to an alert or to the daily bar that judges
\* it again: dips before the open, after the close, on weekends or after expiry
\* never use up the alert of the next session (on_tick, roll_daily_bar).
ArmLostOnlyToAlertOrRoll ==
    [][\A s \in Symbol :
          armed[s] = "armed" /\ armed'[s] # "armed" =>
              \/ FiredOn(s, event')
              \/ event'.result = "rolled" /\ event'.symbol = s]_engine

\* A "once" rule of a frozen level fires at most once in the engine's life.
OnceFiresOnce ==
    [][\A s \in spent \cap frozen : ~FiredOn(s, event')]_engine

\* Under the regular policy an unexpired Eastern day is never cut short by the
\* zone of the timestamp: a tick of a trigger session is refused as expired only
\* when its own Eastern day is past the expiry (on_tick, session_at).
ExpiryDayStillFires ==
    [][\A s \in Symbol :
          /\ policy = "regular"
          /\ event'.result = "expired"
          /\ event'.symbol = s
          /\ InSession(event'.moment)
          => event'.moment.day > rules[s].expires_at]_engine

=============================================================================
