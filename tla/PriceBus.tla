------------------------------ MODULE PriceBus ------------------------------
(***************************************************************************)
(* Quotes on the message bus.  The engine process (start_engine.py) runs a *)
(* worker thread per symbol that publishes to the symbol's subject; the    *)
(* watch process (QueuePriceSource) and the web live streams (live_ticks,  *)
(* web/prices.py) consume subjects through RabbitMQMessageQueue.  A subject*)
(* is a durable work queue: each message goes to one consumer, is          *)
(* acknowledged as it leaves the broker, and dies with the broker.         *)
(*                                                                         *)
(* Quotes of a subject are numbered in the order they were published.      *)
(***************************************************************************)
EXTENDS Integers, Sequences, SequencesExt, TiingoFrames

CONSTANTS
    Symbol,
    Wanted,    \* the symbols of the watch, in the order it subscribes them
    Stream,    \* requests to the live endpoint
    SymbolOf,  \* the symbol each stream asked for
    Frame,     \* the frames the firehose may send
    MaxQuote   \* bound: quotes received per symbol

ASSUME BusAssumption ==
    /\ Wanted \in Seq(Symbol) /\ Wanted # <<>>
    /\ SymbolOf \in [Stream -> Symbol]
    /\ Frame \subseteq Seq(ElementOf(Symbol))
    /\ MaxQuote \in Nat
    /\ "watch" \notin Stream

VARIABLES
    engine,    \* whether the engine process runs
    workers,   \* the worker thread of each symbol
    frame,     \* the elements of its frame each worker has not looked at
    received,  \* history: usable elements of the frames each symbol's worker got
    dropped,   \* history: how many of them no quote was published for
    count,     \* quotes published per symbol
    queues,    \* what the broker holds per subject
    watch,     \* the watch process: what it does, and which of Wanted
    thread,    \* the consumer thread of each stream
    generator, \* the live_ticks generator of each stream
    response,  \* the event stream of each request
    inbox,     \* quotes a client has been sent and not looked at
    delivered, \* per symbol: quotes shown to a client
    lost,      \* per symbol: quotes that left the bus unseen
    last,      \* history: the last quote each client looked at, per symbol
    leaked     \* history: streams closed before their thread had connected

firehose == <<frame, received, dropped>>
server == <<engine, workers, firehose>>
web == <<thread, generator, response>>
account == <<delivered, lost, last>>
vars == <<server, count, queues, watch, web, inbox, account, leaked>>

Client == Stream \cup {"watch"}
Quote == 1..MaxQuote

\* The subject a client consumes.
Reads(c) == IF c = "watch" THEN Wanted[watch.pos] ELSE SymbolOf[c]

Off == [at |-> "off", pos |-> 1]

TypeOK ==
    /\ engine \in {"off", "running"}
    /\ workers \in [Symbol -> {"none", "streaming", "ended"}]
    /\ frame \in [Symbol -> Seq(ElementOf(Symbol))]
    /\ received \in [Symbol -> 0..MaxQuote]
    /\ dropped \in [Symbol -> 0..MaxQuote]
    /\ count \in [Symbol -> 0..MaxQuote]
    /\ queues \in [Symbol -> Seq(Quote)]
    /\ watch \in [at: {"off", "connecting", "consuming"}, pos: DOMAIN Wanted]
    /\ thread \in [Stream -> {"none", "connecting", "consuming", "stopping", "stopped"}]
    /\ generator \in [Stream -> {"none", "open", "closed"}]
    /\ response \in [Stream -> {"idle", "open", "pinged", "ended"}]
    /\ inbox \in [Client -> Seq(Quote)]
    /\ delivered \in [Symbol -> SUBSET Quote]
    /\ lost \in [Symbol -> SUBSET Quote]
    /\ last \in [Client -> [Symbol -> 0..MaxQuote]]
    /\ leaked \subseteq Stream
    /\ \A c \in Stream : response[c] = "open" => generator[c] = "open"

Init ==
    /\ engine = "off"
    /\ workers = [s \in Symbol |-> "none"]
    /\ frame = [s \in Symbol |-> <<>>]
    /\ received = [s \in Symbol |-> 0]
    /\ dropped = [s \in Symbol |-> 0]
    /\ count = [s \in Symbol |-> 0]
    /\ queues = [s \in Symbol |-> <<>>]
    /\ watch = Off
    /\ thread = [c \in Stream |-> "none"]
    /\ generator = [c \in Stream |-> "none"]
    /\ response = [c \in Stream |-> "idle"]
    /\ inbox = [c \in Client |-> <<>>]
    /\ delivered = [s \in Symbol |-> {}]
    /\ lost = [s \in Symbol |-> {}]
    /\ last = [c \in Client |-> [s \in Symbol |-> 0]]
    /\ leaked = {}

-----------------------------------------------------------------------------
(* The engine process. *)

\* The symbols with enabled triggers get a worker each.
EngineStart(enabled) ==
    /\ engine = "off"
    /\ engine' = "running"
    /\ workers' = [s \in Symbol |-> IF s \in enabled THEN "streaming" ELSE "none"]
    /\ UNCHANGED <<firehose, count, queues, watch, web, inbox, account, leaked>>

\* Every worker has a websocket of its own, which sends it the whole firehose.
Receive(s, f) ==
    /\ workers[s] = "streaming"
    /\ frame[s] = <<>>
    /\ received[s] + UsableIn(f, s) <= MaxQuote
    /\ frame' = [frame EXCEPT ![s] = f]
    /\ received' = [received EXCEPT ![s] = @ + UsableIn(f, s)]
    /\ UNCHANGED <<engine, workers, dropped, count, queues, watch, web, inbox,
                   account, leaked>>

\* The loop of _handle_message: heartbeats, other tickers and elements without two
\* prices are passed over ...
PassOver(s) ==
    /\ frame[s] # <<>>
    /\ ~Usable(Head(frame[s]), s)
    /\ frame' = [frame EXCEPT ![s] = Tail(@)]
    /\ UNCHANGED <<engine, workers, received, dropped, count, queues, watch, web,
                   inbox, account, leaked>>

\* ... and a quote is published to the symbol's subject.
Publish(s) ==
    /\ frame[s] # <<>>
    /\ Usable(Head(frame[s]), s)
    /\ frame' = [frame EXCEPT ![s] = Tail(@)]
    /\ count' = [count EXCEPT ![s] = @ + 1]
    /\ queues' = [queues EXCEPT ![s] = Append(@, count[s] + 1)]
    /\ UNCHANGED <<engine, workers, received, dropped, watch, web, inbox, account,
                   leaked>>

\* Deviation: the handler publishes again when closing the connection failed.
PublishRetries(s) ==
    /\ frame[s] # <<>>
    /\ Usable(Head(frame[s]), s)
    /\ count[s] < MaxQuote
    /\ count' = [count EXCEPT ![s] = @ + 1]
    /\ queues' = [queues EXCEPT ![s] = Append(@, count[s] + 1)]
    /\ UNCHANGED <<engine, workers, firehose, watch, web, inbox, account, leaked>>

\* An exception of publish, before the message went out or when the connection is
\* closed, leaves the loop: the rest of the frame is not looked at.
PublishFails(s) ==
    /\ frame[s] # <<>>
    /\ Usable(Head(frame[s]), s)
    /\ frame' = [frame EXCEPT ![s] = <<>>]
    /\ \/ /\ dropped' = [dropped EXCEPT ![s] = @ + UsableIn(frame[s], s)]
          /\ UNCHANGED <<count, queues>>
       \/ /\ dropped' = [dropped EXCEPT ![s] = @ + UsableIn(Tail(frame[s]), s)]
          /\ count' = [count EXCEPT ![s] = @ + 1]
          /\ queues' = [queues EXCEPT ![s] = Append(@, count[s] + 1)]
    /\ UNCHANGED <<engine, workers, received, watch, web, inbox, account, leaked>>

\* The websocket closes: the thread ends, its entry in workers stays.
FirehoseDrops(s) ==
    /\ workers[s] = "streaming"
    /\ frame[s] = <<>>
    /\ workers' = [workers EXCEPT ![s] = "ended"]
    /\ UNCHANGED <<engine, firehose, count, queues, watch, web, inbox, account, leaked>>

\* The engine process ends, and its daemon threads with it.
EngineEnds ==
    /\ engine' = "off"
    /\ workers' = [s \in Symbol |-> "none"]
    /\ frame' = [s \in Symbol |-> <<>>]
    /\ dropped' = [s \in Symbol |-> dropped[s] + UsableIn(frame[s], s)]
    /\ UNCHANGED received

\* Ctrl+C.
EngineStop ==
    /\ engine = "running"
    /\ EngineEnds
    /\ UNCHANGED <<count, queues, watch, web, inbox, account, leaked>>

-----------------------------------------------------------------------------
(* The watch process: QueuePriceSource subscribes one symbol after another, *)
(* and RabbitMQMessageQueue.subscribe returns only when its connection ends.*)

Discard(c) == lost' = [lost EXCEPT ![Reads(c)] = @ \cup Range(inbox[c])]

WatchStart ==
    /\ watch.at = "off"
    /\ watch' = [at |-> "connecting", pos |-> 1]
    /\ UNCHANGED <<server, count, queues, web, inbox, account, leaked>>

WatchConnect ==
    /\ watch.at = "connecting"
    /\ watch' = [watch EXCEPT !.at = "consuming"]
    /\ UNCHANGED <<server, count, queues, web, inbox, account, leaked>>

\* on_quote of the watch.
WatchQuote ==
    LET s == Wanted[watch.pos]
        q == Head(inbox["watch"])
    IN
    /\ watch.at = "consuming"
    /\ inbox["watch"] # <<>>
    /\ inbox' = [inbox EXCEPT !["watch"] = Tail(@)]
    /\ delivered' = [delivered EXCEPT ![s] = @ \cup {q}]
    /\ last' = [last EXCEPT !["watch"][s] = q]
    /\ UNCHANGED <<server, count, queues, watch, web, lost, leaked>>

\* A refused connection, an exception out of the callback, a lost connection
\* or Ctrl+C ends the watch with what it had been sent.
WatchEnd ==
    /\ watch.at # "off"
    /\ watch' = Off
    /\ inbox' = [inbox EXCEPT !["watch"] = <<>>]
    /\ Discard("watch")
    /\ UNCHANGED <<server, count, queues, web, delivered, last, leaked>>

-----------------------------------------------------------------------------
(* A live stream: an event stream, the generator it pulls from, and the     *)
(* thread that fills the generator's queue.                                 *)

StreamOpen(c) ==
    /\ response[c] = "idle"
    /\ response' = [response EXCEPT ![c] = "open"]
    /\ generator' = [generator EXCEPT ![c] = "open"]
    /\ thread' = [thread EXCEPT ![c] = "connecting"]
    /\ UNCHANGED <<server, count, queues, watch, inbox, account, leaked>>

\* From here on close() finds the connection in _consumers.
ThreadConnect(c) ==
    /\ thread[c] = "connecting"
    /\ thread' = [thread EXCEPT ![c] = "consuming"]
    /\ UNCHANGED <<server, count, queues, watch, generator, response, inbox,
                   account, leaked>>

\* "live prices unavailable": the generator goes on waiting.
ThreadFails(c) ==
    /\ thread[c] = "connecting"
    /\ thread' = [thread EXCEPT ![c] = "stopped"]
    /\ UNCHANGED <<server, count, queues, watch, generator, response, inbox,
                   account, leaked>>

StreamQuote(c) ==
    LET s == SymbolOf[c]
        q == Head(inbox[c])
    IN
    /\ response[c] = "open"
    /\ inbox[c] # <<>>
    /\ inbox' = [inbox EXCEPT ![c] = Tail(@)]
    /\ delivered' = [delivered EXCEPT ![s] = @ \cup {q}]
    /\ last' = [last EXCEPT ![c][s] = q]
    /\ UNCHANGED <<server, count, queues, watch, web, lost, leaked>>

\* The finally block of live_ticks: close() stops the consumers it knows, and
\* the quotes left in the generator's queue are never looked at.
CloseGenerator(c) ==
    /\ generator' = [generator EXCEPT ![c] = "closed"]
    /\ thread' = [thread EXCEPT ![c] = IF @ = "consuming" THEN "stopping" ELSE @]
    /\ leaked' = IF thread[c] = "connecting" THEN leaked \cup {c} ELSE leaked
    /\ inbox' = [inbox EXCEPT ![c] = <<>>]
    /\ Discard(c)

\* Deviation: the generator ends without closing its provider.
CloseWithoutProvider(c) ==
    /\ response[c] = "open"
    /\ response' = [response EXCEPT ![c] = "ended"]
    /\ generator' = [generator EXCEPT ![c] = "closed"]
    /\ inbox' = [inbox EXCEPT ![c] = <<>>]
    /\ Discard(c)
    /\ UNCHANGED <<server, count, queues, watch, thread, delivered, last, leaked>>

\* The browser goes away.
StreamLeft(c) ==
    /\ response[c] = "open"
    /\ response' = [response EXCEPT ![c] = "ended"]
    /\ CloseGenerator(c)
    /\ UNCHANGED <<server, count, queues, watch, delivered, last>>

\* 20 seconds without a quote: wait_for cancels __anext__, which ends the
\* generator, and a ping is sent ...
StreamPing(c) ==
    /\ response[c] = "open"
    /\ inbox[c] = <<>>
    /\ response' = [response EXCEPT ![c] = "pinged"]
    /\ CloseGenerator(c)
    /\ UNCHANGED <<server, count, queues, watch, delivered, last>>

\* ... and the next __anext__ raises StopAsyncIteration.
StreamEnds(c) ==
    /\ response[c] = "pinged"
    /\ response' = [response EXCEPT ![c] = "ended"]
    /\ UNCHANGED <<server, count, queues, watch, thread, generator, inbox,
                   account, leaked>>

\* stop_consuming runs in the thread that consumes.
ThreadStops(c) ==
    /\ thread[c] = "stopping"
    /\ thread' = [thread EXCEPT ![c] = "stopped"]
    /\ UNCHANGED <<server, count, queues, watch, generator, response, inbox,
                   account, leaked>>

-----------------------------------------------------------------------------
(* The broker. *)

Consumes(c, s) ==
    /\ Reads(c) = s
    /\ IF c = "watch" THEN watch.at = "consuming"
       ELSE thread[c] \in {"consuming", "stopping"}

\* A client that looks at what it is sent.
Listens(c) == c = "watch" \/ generator[c] = "open"

\* Deviation: the newest message is taken first.
DeliverNewest(c, s) ==
    LET q == queues[s][Len(queues[s])] IN
    /\ queues[s] # <<>>
    /\ Consumes(c, s)
    /\ queues' = [queues EXCEPT ![s] = SubSeq(@, 1, Len(@) - 1)]
    /\ inbox' = [inbox EXCEPT ![c] = Append(@, q)]
    /\ UNCHANGED <<server, count, watch, web, account, leaked>>

\* auto_ack and no prefetch limit: any consumer of the subject may be sent the
\* message at once; the thread of a closed generator puts it where nobody looks.
Deliver(c, s) ==
    LET q == Head(queues[s]) IN
    /\ queues[s] # <<>>
    /\ Consumes(c, s)
    /\ queues' = [queues EXCEPT ![s] = Tail(@)]
    /\ IF Listens(c)
       THEN inbox' = [inbox EXCEPT ![c] = Append(@, q)] /\ UNCHANGED lost
       ELSE lost' = [lost EXCEPT ![s] = @ \cup {q}] /\ UNCHANGED inbox
    /\ UNCHANGED <<server, count, watch, web, delivered, last, leaked>>

\* Messages are not persistent.  Every open subscription returns as if it had
\* ended well: the engine's execute returns and takes its workers along, the
\* watch goes on to its next symbol, a stream's thread ends.
BrokerRestart ==
    LET more == watch.pos < Len(Wanted) IN
    /\ queues' = [s \in Symbol |-> <<>>]
    /\ EngineEnds
    /\ thread' = [c \in Stream |->
           IF thread[c] \in {"consuming", "stopping"} THEN "stopped" ELSE thread[c]]
    /\ watch' = IF watch.at # "consuming" THEN watch
                ELSE IF more THEN [at |-> "connecting", pos |-> watch.pos + 1]
                ELSE Off
    /\ inbox' = IF watch.at = "consuming" THEN [inbox EXCEPT !["watch"] = <<>>]
                ELSE inbox
    /\ lost' = [s \in Symbol |->
           lost[s] \cup Range(queues[s])
               \cup (IF Consumes("watch", s) THEN Range(inbox["watch"]) ELSE {})]
    /\ UNCHANGED <<count, generator, response, delivered, last, leaked>>

Next ==
    \/ \E on \in SUBSET Symbol : EngineStart(on)
    \/ EngineStop
    \/ \E s \in Symbol :
           \/ \E f \in Frame : Receive(s, f)
           \/ PassOver(s) \/ Publish(s) \/ PublishFails(s) \/ FirehoseDrops(s)
    \/ WatchStart \/ WatchConnect \/ WatchQuote \/ WatchEnd
    \/ \E c \in Stream :
           \/ StreamOpen(c) \/ StreamQuote(c) \/ StreamLeft(c)
           \/ StreamPing(c) \/ StreamEnds(c)
           \/ ThreadConnect(c) \/ ThreadFails(c) \/ ThreadStops(c)
    \/ \E c \in Client, s \in Symbol : Deliver(c, s)
    \/ BrokerRestart

Spec == Init /\ [][Next]_vars

\* A client that connects, is sent a quote or is told to stop does so in the
\* end; so does the broker with a message and a consumer.
FairSpec ==
    /\ Spec
    /\ WF_vars(WatchConnect) /\ WF_vars(WatchQuote)
    /\ \A c \in Stream : WF_vars(ThreadStops(c))
    /\ \A s \in Symbol : WF_vars(\E c \in Client : Deliver(c, s))

-----------------------------------------------------------------------------
(* Properties. *)

\* Where the quotes of a symbol are.
InFlight(s) ==
    Range(queues[s]) \cup UNION {Range(inbox[c]) : c \in {d \in Client : Reads(d) = s}}

InOnePlace(s) ==
    /\ InFlight(s) \cup delivered[s] \cup lost[s] = 1..count[s]
    /\ InFlight(s) \cap delivered[s] = {}
    /\ InFlight(s) \cap lost[s] = {}
    /\ delivered[s] \cap lost[s] = {}

\* Through drops, restarts, pings and closed streams every published quote is in
\* one place only: on its way, shown to one client, or lost (rabbitmq.py,
\* QueuePriceSource, live_ticks).  And what a worker could use of its frames was
\* published, is still to be looked at, or was dropped with a failed publish or
\* the end of the engine (_handle_message, handle_quote).  States are well typed.
EveryQuoteIsAccountedFor ==
    /\ TypeOK
    /\ \A s \in Symbol :
           /\ received[s] = count[s] + dropped[s] + UsableIn(frame[s], s)
           /\ InOnePlace(s)

\* No client ever looks at an older quote of a symbol after a newer one, across
\* restarts of the engine and several consumers of one subject.
QuotesAreSeenInOrder ==
    [][\A c \in Client, s \in Symbol : last'[c][s] >= last[c][s]]_vars

\* The thread of a closed stream stops, and no longer takes quotes from other
\* clients, unless the stream was closed while the thread was connecting.
ClosedStreamsStop ==
    \A c \in Stream :
        generator[c] = "closed" ~> (thread[c] = "stopped" \/ c \in leaked)

\* The docstring of _live_events in web/prices.py: keepalives come between
\* ticks, so a stream that sent one still has quotes to wait for.
PingKeepsTheStream ==
    \A c \in Stream : response[c] = "pinged" => generator[c] = "open"

=============================================================================
