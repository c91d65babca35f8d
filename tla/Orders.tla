------------------------------- MODULE Orders -------------------------------
(***************************************************************************)
(* The paper account of mrmkt (command/create_order.py, cancel_order.py,   *)
(* show_order.py, list_orders.py, list_positions.py, show_balance.py over  *)
(* ext/alpaca_trading.py): commands of several terminals against one       *)
(* broker, whose orders fill and expire on their own.  A call may raise    *)
(* before the broker sees it, before it answers, or over an answer that    *)
(* cannot be read; what a terminal gave up may still arrive.  One call of  *)
(* the gateway may be several requests: alpaca-py's client sends a request *)
(* again that was answered with 504, a create with no client_order_id by   *)
(* which the broker could know it again.                                   *)
(***************************************************************************)
EXTENDS Integers, FiniteSets

CONSTANTS
    Client,
    Id,       \* ids the broker gives its orders
    Misread,  \* those an error message turns into "404" by quoting them
    Request,  \* what is asked of order create: side, qty, limit, stop, tif
    MaxCalls, \* bound on the orders submitted
    MaxResends, \* how often alpaca-py's client sends a request again (its default is 3)
    MaxLate,    \* bound on the requests that are late at a time
    None

ASSUME OrdersAssumption ==
    /\ IsFiniteSet(Id) /\ Misread \subseteq Id
    /\ None \notin Id /\ None \notin Int
    /\ Request \subseteq [side: {"buy", "sell", "none"}, qty: Int, limit: Int,
                          stop: Int \cup {None}, tif: {"day", "gtc", "other"}]
    /\ MaxCalls \in Nat /\ MaxResends \in Nat /\ MaxLate \in Nat

VARIABLES
    book,     \* the broker's orders
    job,      \* the command of each terminal, its argument, its request's number, and how it ended
    wire,     \* where the call of a terminal is: with the broker, or what it answers
    late,     \* requests whose answer nobody waits for, and that may still arrive
    calls,    \* history: submissions so far; each gets a number
    known,    \* history: whether the broker knew the id when the command began
    canceled  \* history: ids whose cancel the broker accepted

broker == <<book, canceled>>
history == <<calls, known>>
vars == <<broker, job, wire, late, history>>

-----------------------------------------------------------------------------
(* Requests and orders. *)

Status == {"open", "canceling", "filled", "canceled", "expired"}
Try == 1..(1 + MaxResends)
Order == [call: 1..MaxCalls, try: Try, asked: Request, status: Status]
Op == {"create", "read", "cancel", "show", "look"}
Reply == {"none", "asked", "ok", "refused", "missing"}
Outcome == {"running", "success", "not_found", "invalid_data", "error"}
Job == [op: Op, arg: Request \cup Id \cup {None}, call: 0..MaxCalls, try: Try,
        outcome: Outcome, id: Id \cup {None}]

ASSUME NoOrder == None \notin Order

\* CreateOrder's checks; "none" is neither --buy nor --sell, or both.
Acceptable(q) ==
    /\ q.side \in {"buy", "sell"} /\ q.tif \in {"day", "gtc"}
    /\ q.qty > 0 /\ q.limit > 0
    /\ q.stop # None =>
        /\ q.stop > 0
        /\ IF q.side = "buy" THEN q.stop < q.limit ELSE q.stop > q.limit

Placed == {i \in Id : book[i] # None}
Live(i) == book[i] # None /\ book[i].status \in {"open", "canceling"}

TypeOK ==
    /\ book \in [Id -> Order \cup {None}]
    /\ job \in [Client -> Job]
    /\ wire \in [Client -> [reply: Reply, id: Id \cup {None}]]
    /\ late \subseteq Job
    /\ calls \in 0..MaxCalls
    /\ known \in [Client -> BOOLEAN]
    /\ canceled \subseteq Id

Silent == [reply |-> "none", id |-> None]
Asked == [reply |-> "asked", id |-> None]
Start(op, arg, call) ==
    [op |-> op, arg |-> arg, call |-> call, try |-> 1, outcome |-> "running", id |-> None]
Idle == [Start("look", None, 0) EXCEPT !.outcome = "success"]

Init ==
    /\ book = [i \in Id |-> None]
    /\ job = [c \in Client |-> Idle]
    /\ wire = [c \in Client |-> Silent]
    /\ late = {}
    /\ calls = 0
    /\ known = [c \in Client |-> FALSE]
    /\ canceled = {}

-----------------------------------------------------------------------------
(* Commands. *)

Ready(c) == job[c].outcome # "running"

Ask(c, op, arg, call) ==
    /\ job' = [job EXCEPT ![c] = Start(op, arg, call)]
    /\ wire' = [wire EXCEPT ![c] = Asked]

Knows(c, truth) == known' = [known EXCEPT ![c] = truth]

\* What a command was about is kept when its outcome promises something of an order,
\* and what the broker knew when it began if it says that there is none.
End(c, outcome, i) ==
    /\ job' = [job EXCEPT ![c] =
           IF outcome = "not_found" \/ (outcome = "success" /\ job[c].op \in {"create", "cancel"})
           THEN [@ EXCEPT !.outcome = outcome, !.id = i]
           ELSE [Idle EXCEPT !.outcome = outcome]]
    /\ wire' = [wire EXCEPT ![c] = Silent]
    /\ Knows(c, known[c] /\ outcome = "not_found")

Succeed(c, i) == End(c, "success", i)
Fail(c, outcome) == End(c, outcome, None)

\* order create: refused by a check, or submitted.
Create(c, q) ==
    /\ Ready(c)
    /\ IF Acceptable(q)
       THEN /\ calls < MaxCalls /\ calls' = calls + 1
            /\ Ask(c, "create", q, calls + 1) /\ Knows(c, FALSE)
       ELSE Fail(c, "invalid_data") /\ UNCHANGED calls
    /\ UNCHANGED <<broker, late>>

\* order show and order cancel, which reads the order first; no id is refused.
Name(c, op, i) ==
    /\ Ready(c)
    /\ IF i # None THEN Ask(c, op, i, 0) /\ Knows(c, i \in Placed) ELSE Fail(c, "invalid_data")
    /\ UNCHANGED <<broker, late, calls>>

\* order list, position list, balance show.
Look(c) ==
    /\ Ready(c)
    /\ Ask(c, "look", None, 0) /\ Knows(c, FALSE)
    /\ UNCHANGED <<broker, late, calls>>

\* The order read is what cancel answers with; the cancel itself goes out next.
HearOrder(c) ==
    /\ job[c].op = "read" /\ wire[c].reply = "ok"
    /\ Ask(c, "cancel", job[c].arg, 0)
    /\ UNCHANGED <<broker, late, history>>

Hear(c) ==
    /\ job[c].op # "read" /\ wire[c].reply = "ok"
    /\ Succeed(c, wire[c].id)
    /\ UNCHANGED <<broker, late, calls>>

\* A 404: get_order answers None, cancel_order a KeyError.
HearMissing(c) ==
    /\ wire[c].reply = "missing"
    /\ Fail(c, "not_found")
    /\ UNCHANGED <<broker, late, calls>>

\* Deviation: what the broker will not cancel is taken for canceled.
HearRefusedAnyway(c) ==
    /\ wire[c].reply = "refused"
    /\ IF job[c].op = "cancel" THEN Succeed(c, job[c].arg) ELSE Fail(c, "error")
    /\ UNCHANGED <<broker, late, calls>>

HearRefused(c) ==
    /\ wire[c].reply = "refused"
    /\ Fail(c, "error")
    /\ UNCHANGED <<broker, late, calls>>

-----------------------------------------------------------------------------
(* A call that raises. *)

\* The message of an error may quote the order's URL: an id with a "404" in it is
\* then taken for an order that is not there.
Outcomes(c) ==
    IF job[c].op \in {"read", "show", "cancel"} /\ job[c].arg \in Misread
    THEN {"error", "not_found"}
    ELSE {"error"}

\* The request may be on its way to the broker; one that is lost never arrives.
GiveUp(c) ==
    late' = IF /\ wire[c].reply = "asked" /\ job[c].op \in {"create", "cancel"}
               /\ Cardinality(late) < MaxLate
            THEN late \cup {job[c]}
            ELSE late

\* The client sends a request again that was answered with 504, whatever became of it;
\* the requests of a create are numbered.
Resend(c) ==
    /\ wire[c].reply # "none"
    /\ IF job[c].op = "create"
       THEN job[c].try <= MaxResends /\ job' = [job EXCEPT ![c].try = @ + 1]
       ELSE UNCHANGED job
    /\ wire' = [wire EXCEPT ![c] = Asked]
    /\ GiveUp(c)
    /\ UNCHANGED <<broker, history>>

\* Deviation: execute calls submit_limit_order once more when a create raises.
BreakRetries(c) ==
    /\ wire[c].reply # "none"
    /\ IF job[c].op = "create"
       THEN Ask(c, "create", job[c].arg, job[c].call) /\ Knows(c, FALSE)
       ELSE \E outcome \in Outcomes(c) : Fail(c, outcome)
    /\ GiveUp(c)
    /\ UNCHANGED <<broker, calls>>

Break(c) ==
    /\ wire[c].reply # "none"
    /\ \E outcome \in Outcomes(c) : Fail(c, outcome)
    /\ GiveUp(c)
    /\ UNCHANGED <<broker, calls>>

\* An answer that is no order: a ValueError, which create takes for bad data.
Unreadable(c) ==
    /\ wire[c].reply = "ok" /\ job[c].op # "cancel"
    /\ Fail(c, IF job[c].op = "create" THEN "invalid_data" ELSE "error")
    /\ UNCHANGED <<broker, late, calls>>

-----------------------------------------------------------------------------
(* The broker. *)

Place(i, m) ==
    /\ book[i] = None
    /\ book' = [book EXCEPT ![i] =
           [call |-> m.call, try |-> m.try, asked |-> m.arg, status |-> "open"]]

Settle(i, status) == book' = [book EXCEPT ![i].status = status]

Respond(c, reply, i) == wire' = [wire EXCEPT ![c] = [reply |-> reply, id |-> i]]

Accept(c, i) ==
    /\ job[c].op = "create" /\ wire[c].reply = "asked"
    /\ Place(i, job[c])
    /\ Respond(c, "ok", i)
    /\ UNCHANGED <<job, late, history, canceled>>

Reject(c) ==
    /\ job[c].op # "cancel" /\ wire[c].reply = "asked"
    /\ Respond(c, "refused", None)
    /\ UNCHANGED <<broker, job, late, history>>

Serve(c) ==
    /\ job[c].op \in {"read", "show", "cancel"} /\ wire[c].reply = "asked"
    /\ LET i == job[c].arg IN
       IF book[i] = None
       THEN Respond(c, "missing", None) /\ UNCHANGED broker
       ELSE IF job[c].op # "cancel"
       THEN Respond(c, "ok", i) /\ UNCHANGED broker
       ELSE IF book[i].status = "open"
       THEN Respond(c, "ok", i) /\ Settle(i, "canceling") /\ canceled' = canceled \cup {i}
       ELSE Respond(c, "refused", None) /\ UNCHANGED broker
    /\ UNCHANGED <<job, late, history>>

\* Orders, positions and the balance are shown as the broker has them.
ServeLook(c) ==
    /\ job[c].op = "look" /\ wire[c].reply = "asked"
    /\ Respond(c, "ok", None)
    /\ UNCHANGED <<broker, job, late, history>>

\* A request that nobody waits for any more.
Arrive(m) ==
    /\ late' = late \ {m}
    /\ \/ /\ m.op = "create"
          /\ \E i \in Id : Place(i, m)
          /\ UNCHANGED canceled
       \/ /\ m.op = "cancel"
          /\ book[m.arg] # None /\ book[m.arg].status = "open"
          /\ Settle(m.arg, "canceling")
          /\ canceled' = canceled \cup {m.arg}
    /\ UNCHANGED <<job, wire, history>>

\* The session and the market: a canceled order may still be filled first.
Close(i, status) ==
    /\ book[i] # None
    /\ \/ status = "filled" /\ Live(i)
       \/ status = "canceled" /\ book[i].status = "canceling"
       \/ status = "expired" /\ book[i].status = "open" /\ book[i].asked.tif = "day"
    /\ Settle(i, status)
    /\ UNCHANGED <<job, wire, late, history, canceled>>

Next ==
    \/ \E c \in Client :
           \/ \E q \in Request : Create(c, q)
           \/ \E op \in {"read", "show"}, i \in Id \cup {None} : Name(c, op, i)
           \/ Look(c)
           \/ HearOrder(c) \/ Hear(c) \/ HearMissing(c) \/ HearRefused(c)
           \/ Break(c) \/ Unreadable(c) \/ Resend(c)
           \/ \E i \in Id : Accept(c, i)
           \/ Reject(c) \/ Serve(c) \/ ServeLook(c)
    \/ \E m \in late : Arrive(m)
    \/ \E i \in Id, status \in Status : Close(i, status)

Spec == Init /\ [][Next]_vars

-----------------------------------------------------------------------------
(* Properties. *)

\* However commands end, and whatever arrives late: a command submits its order once.
\* Two orders of one create are due to two requests of the client, the later one sent
\* after a 504: there is at most one to each request, so at most 1 + MaxResends to a
\* create, and one when the client does not send again.  Every order passed the checks,
\* its stop on the losing side of its limit (CreateOrder.execute, submit_limit_order).
\* States are well typed.
OneOrderPerRequest ==
    /\ TypeOK
    /\ \A i \in Placed :
           /\ Acceptable(book[i].asked)
           /\ \A j \in Placed :
                  book[i].call = book[j].call /\ book[i].try = book[j].try => i = j

\* What a command says of an order is so: an order created is in the book as it was
\* asked for, one canceled had its cancel accepted, and one not found had not been
\* given to anybody when the command began, unless its id makes an error look like
\* a 404 (get_order, cancel_order).
AnswersMatchTheBook ==
    \A c \in Client :
        LET a == job[c] IN
        /\ a.op = "create" /\ a.outcome = "success" =>
               /\ a.id \in Placed
               /\ book[a.id].call = a.call /\ book[a.id].asked = a.arg
        /\ a.op = "cancel" /\ a.outcome = "success" => a.arg \in canceled
        /\ a.outcome = "not_found" => a.arg \in Misread \/ ~known[c]
=============================================================================
