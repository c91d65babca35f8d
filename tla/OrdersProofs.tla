----------------------------- MODULE OrdersProofs -----------------------------
(***************************************************************************)
(* Orders: a create places at most one order for each request its client   *)
(* sends (OneOrderPerRequest) and what a command says of an order is so    *)
(* (AnswersMatchTheBook), for any number of terminals, orders and resends. *)
(* The invariant follows the requests of a submission: each is in one      *)
(* place at most, in the book, on its way or late, and a request that is   *)
(* still to come has a number above those of all that went before it.      *)
(***************************************************************************)
EXTENDS Orders, TLAPS

Argument == Request \cup Id \cup {None}
Wire == [reply: Reply, id: Id \cup {None}]

Outstanding(c) == wire[c].reply # "none"
Pending(c) == job[c].op = "create" /\ wire[c].reply = "asked"
Creating(c) == job[c].op = "create" /\ Outstanding(c)
LateCreates == {m \in late : m.op = "create"}

\* Orders and requests that are due to one request.
Same(m, n) == m.call = n.call /\ m.try = n.try

\* Whatever is asked of the broker passed the checks of its command.
AskedOK ==
    /\ \A c \in Client : Outstanding(c) =>
           /\ job[c].op = "create" => job[c].arg \in Request /\ Acceptable(job[c].arg)
           /\ job[c].op \in {"read", "show", "cancel"} => job[c].arg \in Id
    /\ \A m \in late :
           \/ m.op = "create" /\ m.arg \in Request /\ Acceptable(m.arg)
           \/ m.op = "cancel" /\ m.arg \in Id
    /\ \A i \in Placed : Acceptable(book[i].asked)

\* A request is in one place, and the requests of a submission go out one after the other.
NumbersOK ==
    /\ \A i \in Placed : book[i].call \in 1..calls
    /\ \A i, j \in Placed : Same(book[i], book[j]) => i = j
    /\ \A c \in Client : Creating(c) =>
           /\ job[c].call \in 1..calls
           /\ \A i \in Placed : book[i].call = job[c].call =>
                  book[i].try <= job[c].try /\ (Pending(c) => book[i].try # job[c].try)
           /\ \A m \in LateCreates : m.call = job[c].call => m.try < job[c].try
    /\ \A c, d \in Client : Creating(c) /\ Creating(d) /\ c # d => job[c].call # job[d].call
    /\ \A m \in LateCreates : m.call \in 1..calls /\ \A i \in Placed : ~Same(book[i], m)
    /\ \A m, n \in LateCreates : Same(m, n) => m = n

\* What the broker has answered and the command has not heard yet.
HeardOK ==
    \A c \in Client :
        /\ wire[c].reply = "ok" /\ job[c].op = "create" =>
               /\ wire[c].id \in Placed
               /\ book[wire[c].id].call = job[c].call
               /\ book[wire[c].id].asked = job[c].arg
        /\ wire[c].reply = "ok" /\ job[c].op = "cancel" => job[c].arg \in canceled
        /\ wire[c].reply = "missing" => ~known[c]
        /\ Outstanding(c) /\ known[c] => job[c].arg \in Placed

Inv == TypeOK /\ AskedOK /\ NumbersOK /\ HeardOK /\ AnswersMatchTheBook

-----------------------------------------------------------------------------
(* The five things a step does. *)

\* Terminal c sends a call that passed its command's checks.
Asks(c, op, arg, call) ==
    /\ Ask(c, op, arg, call)
    /\ UNCHANGED <<book, canceled, late>>
    /\ op \in Op /\ arg \in Argument /\ call \in 0..MaxCalls
    /\ calls \in Nat /\ calls' \in 0..MaxCalls
    /\ IF op = "create"
       THEN arg \in Request /\ Acceptable(arg) /\ call = calls + 1 /\ calls' = calls + 1
       ELSE calls' = calls
    /\ op \in {"read", "show", "cancel"} => arg \in Id
    /\ known' \in [Client -> BOOLEAN]
    /\ \A d \in Client : d # c => known'[d] = known[d]
    /\ known'[c] => arg \in Placed

LEMMA AsksInv ==
    ASSUME Inv, NEW c \in Client, NEW op, NEW arg, NEW call, Asks(c, op, arg, call)
    PROVE  Inv'
  <1>1. /\ book' = book /\ canceled' = canceled /\ late' = late
        /\ Placed' = Placed /\ LateCreates' = LateCreates
    BY DEF Asks, Placed, LateCreates
  <1>2. /\ job'[c] = Start(op, arg, call) /\ wire'[c] = Asked
        /\ \A d \in Client : d # c => job'[d] = job[d] /\ wire'[d] = wire[d]
    BY DEF Inv, TypeOK, Asks, Ask
  <1>3. Start(op, arg, call) \in Job /\ Asked \in Wire
    BY OrdersAssumption DEF Asks, Start, Asked, Job, Try, Outcome, Wire, Reply, Argument
  <1>4. TypeOK'
    <2>1. job' \in [Client -> Job] /\ wire' \in [Client -> Wire]
      BY <1>2, <1>3 DEF Inv, TypeOK, Asks, Ask, Wire
    <2> QED  BY <1>1, <2>1 DEF Inv, TypeOK, Asks, Wire
  <1>5. calls \in Nat /\ calls' \in Nat /\ calls <= calls'
    BY DEF Asks
  <1>6. /\ job'[c].op = op /\ job'[c].arg = arg /\ job'[c].call = call
        /\ job'[c].outcome = "running" /\ wire'[c].reply = "asked"
    BY <1>2 DEF Start, Asked
  <1>7. AskedOK'
    BY <1>1, <1>2, <1>6 DEF Inv, AskedOK, Outstanding, Asks, Acceptable, Placed
  <1>8. NumbersOK'
    <2>1. \A d \in Client : d # c => /\ Creating(d)' <=> Creating(d)
                                     /\ Pending(d)' <=> Pending(d)
                                     /\ job'[d].call = job[d].call /\ job'[d].try = job[d].try
      BY <1>2 DEF Creating, Outstanding, Pending
    <2>2. Creating(c)' => job'[c].call = calls + 1 /\ calls' = calls + 1
      BY <1>6 DEF Creating, Asks
    <2>3. \A i \in Placed : book'[i].call \in 1..calls /\ book'[i].call \in 1..calls'
      BY <1>1, <1>5 DEF Inv, NumbersOK
    <2>4. \A i, j \in Placed : Same(book'[i], book'[j]) => i = j
      BY <1>1 DEF Inv, NumbersOK
    <2>5. \A m \in LateCreates : /\ m.call \in 1..calls /\ m.call \in 1..calls'
                                 /\ \A i \in Placed : ~Same(book'[i], m)
      BY <1>1, <1>5 DEF Inv, NumbersOK
    <2>6. ASSUME NEW d \in Client, Creating(d)'
          PROVE  /\ job'[d].call \in 1..calls'
                 /\ \A i \in Placed : book'[i].call = job'[d].call =>
                        book'[i].try <= job'[d].try /\ (Pending(d)' => book'[i].try # job'[d].try)
                 /\ \A m \in LateCreates : m.call = job'[d].call => m.try < job'[d].try
      <3>1. CASE d = c
        BY <3>1, <2>2, <2>3, <2>5, <2>6, <1>5
      <3>2. CASE d # c
        BY <3>2, <2>1, <2>6, <1>1, <1>5 DEF Inv, NumbersOK
      <3> QED  BY <3>1, <3>2
    <2>7. \A d, e \in Client : Creating(d)' /\ Creating(e)' /\ d # e => job'[d].call # job'[e].call
      <3>1. \A d \in Client : d # c /\ Creating(d) => job[d].call \in 1..calls
        BY DEF Inv, NumbersOK
      <3>2. \A d \in Client : d # c /\ Creating(d)' /\ Creating(c)' => job'[d].call # job'[c].call
        BY <3>1, <2>1, <2>2, <1>5
      <3>3. \A d, e \in Client : d # c /\ e # c /\ Creating(d)' /\ Creating(e)' /\ d # e
                => job'[d].call # job'[e].call
        BY <2>1 DEF Inv, NumbersOK
      <3> QED  BY <3>2, <3>3
    <2>8. \A m, n \in LateCreates : Same(m, n) => m = n
      BY DEF Inv, NumbersOK
    <2> QED  BY <1>1, <2>3, <2>4, <2>5, <2>6, <2>7, <2>8 DEF NumbersOK, Same
  <1>9. HeardOK'
    <2> SUFFICES ASSUME NEW d \in Client
                 PROVE  (/\ wire[d].reply = "ok" /\ job[d].op = "create" =>
                                /\ wire[d].id \in Placed
                                /\ book[wire[d].id].call = job[d].call
                                /\ book[wire[d].id].asked = job[d].arg
                         /\ wire[d].reply = "ok" /\ job[d].op = "cancel"
                                => job[d].arg \in canceled
                         /\ wire[d].reply = "missing" => ~known[d]
                         /\ Outstanding(d) /\ known[d] => job[d].arg \in Placed)'
      BY DEF HeardOK
    <2>1. CASE d = c
      BY <2>1, <1>1, <1>6 DEF Asks
    <2>2. CASE d # c
      BY <2>2, <1>1, <1>2 DEF Inv, HeardOK, Asks, Outstanding
    <2> QED  BY <2>1, <2>2
  <1>10. AnswersMatchTheBook'
    <2>1. \A d \in Client : d # c => job'[d] = job[d] /\ known'[d] = known[d]
      BY <1>2 DEF Asks
    <2> QED  BY <2>1, <1>1, <1>6 DEF Inv, AnswersMatchTheBook
  <1> QED  BY <1>4, <1>7, <1>8, <1>9, <1>10 DEF Inv

\* The command of terminal c ends, its call answered, refused unsent or given up.
Ends(c, outcome, i) ==
    /\ End(c, outcome, i)
    /\ UNCHANGED <<book, canceled, calls>>
    /\ outcome \in Outcome \ {"running"} /\ i \in Id \cup {None}
    /\ late' = late \/ (late' = late \cup {job[c]} /\ wire[c].reply = "asked"
                        /\ job[c].op \in {"create", "cancel"})
    /\ known' \in [Client -> BOOLEAN]
    /\ \A d \in Client : d # c => known'[d] = known[d]
    /\ outcome = "success" /\ job[c].op = "create" =>
           i \in Placed /\ book[i].call = job[c].call /\ book[i].asked = job[c].arg
    /\ outcome = "success" /\ job[c].op = "cancel" => job[c].arg \in canceled
    /\ outcome = "not_found" => job[c].arg \in Misread \/ ~known'[c]

LEMMA EndsInv ==
    ASSUME Inv, NEW c \in Client, NEW outcome, NEW i, Ends(c, outcome, i)
    PROVE  Inv'
  <1>1. book' = book /\ canceled' = canceled /\ calls' = calls /\ Placed' = Placed
    BY DEF Ends, Placed
  <1>2. /\ wire'[c] = Silent
        /\ \A d \in Client : d # c => job'[d] = job[d] /\ wire'[d] = wire[d]
    BY DEF Inv, TypeOK, Ends, End
  <1>3. \/ /\ job'[c] = [job[c] EXCEPT !.outcome = outcome, !.id = i]
           /\ outcome = "not_found" \/ (outcome = "success" /\ job[c].op \in {"create", "cancel"})
        \/ /\ job'[c] = [Idle EXCEPT !.outcome = outcome]
           /\ outcome # "not_found"
    BY DEF Inv, TypeOK, Ends, End
  <1>4. job[c] \in Job
    BY DEF Inv, TypeOK
  <1>5. /\ job'[c] \in Job /\ job'[c].outcome = outcome
        /\ \/ /\ job'[c].op = job[c].op /\ job'[c].arg = job[c].arg
              /\ job'[c].call = job[c].call /\ job'[c].id = i
           \/ job'[c].op = "look" /\ outcome # "not_found"
    <2>1. Idle \in Job /\ Idle.op = "look"
      BY OrdersAssumption DEF Idle, Start, Job, Try, Op, Outcome
    <2>2. CASE job'[c] = [job[c] EXCEPT !.outcome = outcome, !.id = i]
      BY <2>2, <1>4 DEF Job, Ends
    <2>3. CASE job'[c] = [Idle EXCEPT !.outcome = outcome] /\ outcome # "not_found"
      BY <2>1, <2>3 DEF Job, Ends
    <2> QED  BY <1>3, <2>2, <2>3
  <1>6. /\ late \subseteq late' /\ late' \subseteq late \cup {job[c]}
        /\ job[c] \in late' => job[c] \in late \/ (/\ wire[c].reply = "asked"
                                                   /\ job[c].op \in {"create", "cancel"})
    BY DEF Ends
  <1>7. Silent \in Wire /\ Silent.reply = "none"
    BY DEF Silent, Wire, Reply
  <1>8. TypeOK'
    <2>1. job' \in [Client -> Job] /\ wire' \in [Client -> Wire]
      BY <1>2, <1>5, <1>7 DEF Inv, TypeOK, Ends, End, Wire
    <2> QED  BY <1>1, <1>4, <1>6, <2>1 DEF Inv, TypeOK, Ends, Wire
  <1>9. \A d \in Client : Outstanding(d)' => d # c /\ Outstanding(d)
    BY <1>2, <1>7 DEF Outstanding
  <1>10. AskedOK'
    <2>1. \A m \in late' : \/ m.op = "create" /\ m.arg \in Request /\ Acceptable(m.arg)
                           \/ m.op = "cancel" /\ m.arg \in Id
      BY <1>6 DEF Inv, AskedOK, Outstanding
    <2>2. \A d \in Client : Outstanding(d)' =>
              /\ job'[d].op = "create" => job'[d].arg \in Request /\ Acceptable(job'[d].arg)
              /\ job'[d].op \in {"read", "show", "cancel"} => job'[d].arg \in Id
      BY <1>2, <1>9 DEF Inv, AskedOK
    <2>3. \A j \in Placed : Acceptable(book'[j].asked)
      BY <1>1 DEF Inv, AskedOK
    <2> QED  BY <1>1, <2>1, <2>2, <2>3 DEF AskedOK, Acceptable
  <1>11. NumbersOK'
    <2>1. \A d \in Client : /\ Creating(d)' => d # c /\ Creating(d) /\ job'[d] = job[d]
                            /\ d # c => (Pending(d)' <=> Pending(d))
      BY <1>2, <1>7 DEF Creating, Outstanding, Pending
    <2>2. \A m \in LateCreates' : m \in LateCreates \/ (m = job[c] /\ Pending(c) /\ Creating(c))
      BY <1>6 DEF LateCreates, Pending, Creating, Outstanding
    <2>3. \A m \in LateCreates' : m.call \in 1..calls /\ \A j \in Placed : ~Same(book[j], m)
      BY <2>2 DEF Inv, NumbersOK, Same
    <2>4. ASSUME NEW d \in Client, Creating(d)', NEW m \in LateCreates', m.call = job[d].call
          PROVE  m.try < job[d].try
      BY <2>1, <2>2, <2>4 DEF Inv, NumbersOK
    <2>5. \A m, n \in LateCreates' : Same(m, n) => m = n
      <3>1. \A m \in LateCreates : Creating(c) => ~Same(m, job[c])
        BY <1>4 DEF Inv, NumbersOK, Same, Job, Try
      <3>2. \A m, n \in LateCreates : Same(m, n) => m = n
        BY DEF Inv, NumbersOK
      <3> QED  BY <2>2, <3>1, <3>2 DEF Same
    <2> QED  BY <1>1, <2>1, <2>3, <2>4, <2>5 DEF Inv, NumbersOK
  <1>12. HeardOK'
    <2> SUFFICES ASSUME NEW d \in Client
                 PROVE  (/\ wire[d].reply = "ok" /\ job[d].op = "create" =>
                                /\ wire[d].id \in Placed
                                /\ book[wire[d].id].call = job[d].call
                                /\ book[wire[d].id].asked = job[d].arg
                         /\ wire[d].reply = "ok" /\ job[d].op = "cancel"
                                => job[d].arg \in canceled
                         /\ wire[d].reply = "missing" => ~known[d]
                         /\ Outstanding(d) /\ known[d] => job[d].arg \in Placed)'
      BY DEF HeardOK
    <2>1. CASE d = c
      BY <2>1, <1>2, <1>7 DEF Outstanding
    <2>2. CASE d # c
      BY <2>2, <1>1, <1>2 DEF Inv, HeardOK, Ends, Outstanding
    <2> QED  BY <2>1, <2>2
  <1>13. AnswersMatchTheBook'
    <2> SUFFICES ASSUME NEW d \in Client
                 PROVE  (/\ job[d].op = "create" /\ job[d].outcome = "success" =>
                               /\ job[d].id \in Placed
                               /\ book[job[d].id].call = job[d].call
                               /\ book[job[d].id].asked = job[d].arg
                         /\ job[d].op = "cancel" /\ job[d].outcome = "success"
                               => job[d].arg \in canceled
                         /\ job[d].outcome = "not_found"
                               => job[d].arg \in Misread \/ ~known[d])'
      BY DEF AnswersMatchTheBook
    <2>1. CASE d = c
      BY <2>1, <1>1, <1>5 DEF Ends
    <2>2. CASE d # c
      BY <2>2, <1>1, <1>2 DEF Inv, AnswersMatchTheBook, Ends
    <2> QED  BY <2>1, <2>2
  <1> QED  BY <1>8, <1>10, <1>11, <1>12, <1>13 DEF Inv

\* The broker takes submission m into its book as order i; it was outstanding or late.
Places(i, m) ==
    /\ i \in Id /\ Place(i, m)
    /\ m \in Job /\ m.op = "create" /\ m.arg \in Request /\ Acceptable(m.arg)
    /\ m.call \in 1..calls
    /\ UNCHANGED <<job, history, canceled>>
    /\ \A j \in Placed : ~Same(book[j], m)
    /\ \/ \E c \in Client : /\ Pending(c) /\ m = job[c] /\ late' = late
                            /\ Respond(c, "ok", i)
       \/ m \in late /\ late' = late \ {m} /\ wire' = wire

LEMMA PlacesInv ==
    ASSUME Inv, NEW i, NEW m, Places(i, m)
    PROVE  Inv'
  <1>0. [call |-> m.call, try |-> m.try, asked |-> m.arg, status |-> "open"] \in Order
    <2>1. m.call \in 1..calls /\ calls \in 0..MaxCalls /\ MaxCalls \in Nat /\ m.arg \in Request
      BY OrdersAssumption DEF Places, Inv, TypeOK
    <2>2. m.call \in 1..MaxCalls /\ m.try \in Try
      BY <2>1 DEF Places, Job
    <2> QED  BY <2>1, <2>2 DEF Order, Status
  <1>1. /\ job' = job /\ calls' = calls /\ known' = known /\ canceled' = canceled
        /\ late' \subseteq late /\ LateCreates' \subseteq LateCreates
    BY DEF Places, history, LateCreates
  <1>2. /\ Placed' = Placed \cup {i} /\ i \notin Placed
        /\ book'[i].call = m.call /\ book'[i].try = m.try /\ book'[i].asked = m.arg
        /\ \A j \in Placed : book'[j] = book[j]
    <2>1. book' = [book EXCEPT ![i] =
              [call |-> m.call, try |-> m.try, asked |-> m.arg, status |-> "open"]]
      BY DEF Places, Place
    <2>2. i \in Id /\ book[i] = None /\ book \in [Id -> Order \cup {None}]
      BY DEF Places, Place, Inv, TypeOK
    <2>3. book'[i] = [call |-> m.call, try |-> m.try, asked |-> m.arg, status |-> "open"]
      BY <2>1, <2>2
    <2> QED  BY <2>1, <2>2, <2>3, <1>0, NoOrder DEF Placed
  <1>3. TypeOK'
    <2>1. book' \in [Id -> Order \cup {None}]
      BY <1>0 DEF Places, Place, Inv, TypeOK
    <2>2. wire' \in [Client -> Wire]
      <3>1. [reply |-> "ok", id |-> i] \in Wire
        BY DEF Places, Wire, Reply
      <3> QED  BY <3>1 DEF Places, Respond, Inv, TypeOK, Wire
    <2>3. late' \subseteq Job
      BY <1>1 DEF Inv, TypeOK
    <2> QED  BY <1>1, <2>1, <2>2, <2>3 DEF Inv, TypeOK, Wire
  <1>4. \/ \E c \in Client :
              /\ Pending(c) /\ m = job[c] /\ late' = late
              /\ wire'[c] = [reply |-> "ok", id |-> i]
              /\ \A d \in Client : d # c => wire'[d] = wire[d]
        \/ m \in LateCreates /\ LateCreates' = LateCreates \ {m} /\ wire' = wire
    BY DEF Places, Respond, Inv, TypeOK, LateCreates
  <1>5. \A c \in Client : Outstanding(c)' => Outstanding(c)
    BY <1>4 DEF Outstanding, Pending
  <1>6. AskedOK'
    <2>1. \A j \in Placed' : Acceptable(book'[j].asked)
      BY <1>2 DEF Inv, AskedOK, Places
    <2> QED  BY <1>1, <1>5, <2>1 DEF Inv, AskedOK, Acceptable
  <1>7. NumbersOK'
    <2>1. m.try \in Int /\ \A c \in Client : job[c].try \in Int
      BY DEF Places, Inv, TypeOK, Job, Try
    <2>2. \A c \in Client : Creating(c)' => Creating(c) /\ (Pending(c)' => Pending(c))
      BY <1>1, <1>4, <1>5 DEF Creating, Pending
    <2>3. ASSUME NEW c \in Client, Creating(c)', m.call = job[c].call
          PROVE  m.try <= job[c].try /\ (Pending(c)' => m.try # job[c].try)
      <3>1. CASE \E d \in Client :
                   /\ Pending(d) /\ m = job[d] /\ late' = late
                   /\ wire'[d] = [reply |-> "ok", id |-> i]
                   /\ \A e \in Client : e # d => wire'[e] = wire[e]
        <4>1. PICK d \in Client : Pending(d) /\ m = job[d] /\ wire'[d] = [reply |-> "ok", id |-> i]
          BY <3>1
        <4>2. Creating(d) /\ Creating(c)
          BY <2>2, <2>3, <4>1 DEF Creating, Outstanding, Pending
        <4>3. d = c /\ ~Pending(c)'
          BY <2>3, <4>1, <4>2 DEF Inv, NumbersOK, Pending
        <4> QED  BY <2>1, <4>1, <4>3
      <3>2. CASE m \in LateCreates /\ LateCreates' = LateCreates \ {m} /\ wire' = wire
        <4>1. m.try < job[c].try
          BY <2>2, <2>3, <3>2 DEF Inv, NumbersOK
        <4> QED  BY <2>1, <4>1
      <3> QED  BY <1>4, <3>1, <3>2
    <2>4. \A n \in LateCreates' : n \in LateCreates /\ ~Same(m, n)
      <3>1. ASSUME NEW c \in Client, Pending(c), m = job[c], NEW n \in LateCreates
            PROVE  ~Same(m, n)
        <4>1. Creating(c)
          BY <3>1 DEF Pending, Creating, Outstanding
        <4>2. n.call = m.call => n.try < m.try
          BY <3>1, <4>1 DEF Inv, NumbersOK
        <4> QED  BY <2>1, <4>2 DEF Same
      <3>2. CASE m \in LateCreates /\ LateCreates' = LateCreates \ {m} /\ wire' = wire
        BY <3>2 DEF Inv, NumbersOK
      <3> QED  BY <1>1, <1>4, <3>1, <3>2
    <2>5. \A j \in Placed : ~Same(book[j], m)
      BY DEF Places
    <2>6. \A j \in Placed' : book'[j].call \in 1..calls
      BY <1>2 DEF Inv, NumbersOK, Places
    <2>7. \A j, k \in Placed' : Same(book'[j], book'[k]) => j = k
      <3>1. \A j, k \in Placed : Same(book[j], book[k]) => j = k
        BY DEF Inv, NumbersOK
      <3> QED  BY <1>2, <2>5, <3>1 DEF Same
    <2>8. \A c \in Client : Creating(c)' =>
              /\ job[c].call \in 1..calls
              /\ \A j \in Placed' : book'[j].call = job[c].call =>
                     book'[j].try <= job[c].try /\ (Pending(c)' => book'[j].try # job[c].try)
              /\ \A n \in LateCreates' : n.call = job[c].call => n.try < job[c].try
      BY <1>2, <2>2, <2>3, <2>4 DEF Inv, NumbersOK
    <2>9. \A n \in LateCreates' : n.call \in 1..calls /\ \A j \in Placed' : ~Same(book'[j], n)
      BY <1>2, <2>4 DEF Inv, NumbersOK, Same
    <2>10. \A c, d \in Client : Creating(c)' /\ Creating(d)' /\ c # d => job[c].call # job[d].call
      BY <2>2 DEF Inv, NumbersOK
    <2>11. \A n, k \in LateCreates' : Same(n, k) => n = k
      BY <2>4 DEF Inv, NumbersOK
    <2> QED  BY <1>1, <2>6, <2>7, <2>8, <2>9, <2>10, <2>11 DEF NumbersOK
  <1>8. HeardOK'
    <2> SUFFICES ASSUME NEW d \in Client
                 PROVE  (/\ wire[d].reply = "ok" /\ job[d].op = "create" =>
                                /\ wire[d].id \in Placed
                                /\ book[wire[d].id].call = job[d].call
                                /\ book[wire[d].id].asked = job[d].arg
                         /\ wire[d].reply = "ok" /\ job[d].op = "cancel"
                                => job[d].arg \in canceled
                         /\ wire[d].reply = "missing" => ~known[d]
                         /\ Outstanding(d) /\ known[d] => job[d].arg \in Placed)'
      BY DEF HeardOK
    <2>1. CASE wire'[d] = wire[d]
      BY <2>1, <1>1, <1>2 DEF Inv, HeardOK, Outstanding
    <2>2. CASE Pending(d) /\ m = job[d] /\ wire'[d] = [reply |-> "ok", id |-> i]
      BY <2>2, <1>1, <1>2 DEF Inv, HeardOK, Outstanding, Pending
    <2> QED  BY <1>4, <2>1, <2>2
  <1>9. AnswersMatchTheBook'
    BY <1>1, <1>2 DEF Inv, AnswersMatchTheBook
  <1> QED  BY <1>3, <1>6, <1>7, <1>8, <1>9 DEF Inv

\* The broker answers without a new order, or an order moves on: what was asked of the
\* orders in the book, and the canceled ones, stay.
Keeps ==
    /\ UNCHANGED <<job, history>>
    /\ late' \subseteq late
    /\ book' \in [Id -> Order \cup {None}]
    /\ Placed' = Placed
    /\ \A i \in Placed : Same(book'[i], book[i]) /\ book'[i].asked = book[i].asked
    /\ canceled \subseteq canceled' /\ canceled' \subseteq Id

\* At most terminal c is answered.
Answers(c) ==
    \E reply \in {"ok", "refused", "missing"}, i \in Id \cup {None} :
        /\ wire[c].reply = "asked" /\ Respond(c, reply, i)
        /\ reply = "ok" => job[c].op # "create"
        /\ reply = "ok" /\ job[c].op = "cancel" => job[c].arg \in canceled'
        /\ reply = "missing" => job[c].arg \notin Placed

LEMMA KeepsInv ==
    ASSUME Inv, Keeps, wire' = wire \/ \E c \in Client : Answers(c)
    PROVE  Inv'
  <1>1. /\ job' = job /\ calls' = calls /\ known' = known
        /\ late' \subseteq late /\ LateCreates' \subseteq LateCreates
        /\ Placed' = Placed
    BY DEF Keeps, history, LateCreates
  <1>2. \A i \in Placed : /\ book'[i].call = book[i].call /\ book'[i].try = book[i].try
                          /\ book'[i].asked = book[i].asked
    BY DEF Keeps, Same
  <1>3. \A d \in Client :
           \/ wire'[d] = wire[d]
           \/ /\ wire[d].reply = "asked" /\ wire'[d] \in Wire
              /\ wire'[d].reply \in {"ok", "refused", "missing"}
              /\ wire'[d].reply = "ok" => job[d].op # "create"
              /\ wire'[d].reply = "ok" /\ job[d].op = "cancel" => job[d].arg \in canceled'
              /\ wire'[d].reply = "missing" => job[d].arg \notin Placed
    <2>1. CASE wire' = wire
      BY <2>1
    <2>2. ASSUME NEW c \in Client, NEW reply \in {"ok", "refused", "missing"},
                 NEW i \in Id \cup {None},
                 wire[c].reply = "asked", Respond(c, reply, i),
                 reply = "ok" => job[c].op # "create",
                 reply = "ok" /\ job[c].op = "cancel" => job[c].arg \in canceled',
                 reply = "missing" => job[c].arg \notin Placed,
                 NEW d \in Client, wire'[d] # wire[d]
          PROVE  /\ wire[d].reply = "asked" /\ wire'[d] \in Wire
                 /\ wire'[d].reply \in {"ok", "refused", "missing"}
                 /\ wire'[d].reply = "ok" => job[d].op # "create"
                 /\ wire'[d].reply = "ok" /\ job[d].op = "cancel" => job[d].arg \in canceled'
                 /\ wire'[d].reply = "missing" => job[d].arg \notin Placed
      <3>1. d = c /\ wire'[c] = [reply |-> reply, id |-> i]
        BY <2>2 DEF Respond, Inv, TypeOK
      <3>2. [reply |-> reply, id |-> i] \in Wire
        BY DEF Wire, Reply
      <3> QED  BY <2>2, <3>1, <3>2
    <2> QED  BY <2>1, <2>2 DEF Answers
  <1>4. \A d \in Client : /\ Outstanding(d)' => Outstanding(d)
                          /\ Creating(d)' => Creating(d)
                          /\ Pending(d)' => Pending(d)
    BY <1>1, <1>3 DEF Outstanding, Creating, Pending
  <1>5. TypeOK'
    <2>1. wire' \in [Client -> Wire]
      <3>1. \A d \in Client : wire'[d] \in Wire
        BY <1>3 DEF Inv, TypeOK, Wire
      <3>2. wire' = [d \in Client |-> wire'[d]]
        BY DEF Answers, Respond, Inv, TypeOK
      <3> QED  BY <3>1, <3>2
    <2> QED  BY <1>1, <2>1 DEF Keeps, Inv, TypeOK, Wire
  <1>6. AskedOK'
    BY <1>1, <1>2, <1>4 DEF Inv, AskedOK, Acceptable
  <1>7. NumbersOK'
    BY <1>1, <1>2, <1>4 DEF Inv, NumbersOK, Same
  <1>8. HeardOK'
    <2> SUFFICES ASSUME NEW d \in Client
                 PROVE  (/\ wire[d].reply = "ok" /\ job[d].op = "create" =>
                                /\ wire[d].id \in Placed
                                /\ book[wire[d].id].call = job[d].call
                                /\ book[wire[d].id].asked = job[d].arg
                         /\ wire[d].reply = "ok" /\ job[d].op = "cancel"
                                => job[d].arg \in canceled
                         /\ wire[d].reply = "missing" => ~known[d]
                         /\ Outstanding(d) /\ known[d] => job[d].arg \in Placed)'
      BY DEF HeardOK
    <2>1. canceled \subseteq canceled'
      BY DEF Keeps
    <2>2. CASE wire'[d] = wire[d]
      BY <2>1, <2>2, <1>1, <1>2 DEF Inv, HeardOK, Outstanding
    <2>3. CASE wire'[d] # wire[d]
      BY <2>3, <1>1, <1>3 DEF Inv, HeardOK, Outstanding
    <2> QED  BY <2>2, <2>3
  <1>9. AnswersMatchTheBook'
    <2>1. canceled \subseteq canceled'
      BY DEF Keeps
    <2> QED  BY <2>1, <1>1, <1>2 DEF Inv, AnswersMatchTheBook
  <1> QED  BY <1>5, <1>6, <1>7, <1>8, <1>9 DEF Inv

\* The client of terminal c sends its request again; the one before may be late.
LEMMA ResendInv ==
    ASSUME Inv, NEW c \in Client, Resend(c)
    PROVE  Inv'
  <1>1. /\ book' = book /\ canceled' = canceled /\ calls' = calls /\ known' = known
        /\ Placed' = Placed
    BY DEF Resend, broker, history, Placed
  <1>2. /\ wire'[c].reply = "asked" /\ wire' \in [Client -> Wire] /\ Outstanding(c)
        /\ \A d \in Client : d # c => wire'[d] = wire[d]
    BY DEF Inv, TypeOK, Resend, Asked, Wire, Reply, Outstanding
  <1>3. /\ job \in [Client -> Job] /\ job[c].try \in Int
        /\ job[c].op = "create" => job[c].try <= MaxResends
    BY DEF Inv, TypeOK, Resend, Job, Try
  <1>4. /\ job' \in [Client -> Job]
        /\ \A d \in Client : d # c => job'[d] = job[d]
        /\ job'[c].op = job[c].op /\ job'[c].arg = job[c].arg /\ job'[c].call = job[c].call
        /\ job'[c].outcome = job[c].outcome /\ job'[c].id = job[c].id
        /\ job[c].op = "create" => job'[c].try = job[c].try + 1
    <2>1. CASE job[c].op = "create"
      <3>1. job' = [job EXCEPT ![c] = [job[c] EXCEPT !.try = job[c].try + 1]]
        BY <2>1, <1>3 DEF Resend
      <3>2. job[c].try + 1 \in Try
        BY <2>1, <1>3, OrdersAssumption DEF Try, Job
      <3> QED  BY <2>1, <3>1, <3>2, <1>3 DEF Job
    <2>2. CASE job[c].op # "create"
      BY <2>2, <1>3 DEF Resend
    <2> QED  BY <2>1, <2>2
  <1>5. /\ late \subseteq late' /\ late' \subseteq late \cup {job[c]}
        /\ job[c] \in late' => job[c] \in late \/ (/\ wire[c].reply = "asked"
                                                   /\ job[c].op \in {"create", "cancel"})
    BY DEF Resend, GiveUp
  <1>6. TypeOK'
    BY <1>1, <1>2, <1>3, <1>4, <1>5 DEF Inv, TypeOK, Wire
  <1>7. \A d \in Client : /\ Outstanding(d)' => Outstanding(d)
                          /\ Creating(d)' => Creating(d)
                          /\ d # c => (Pending(d)' <=> Pending(d))
    BY <1>2, <1>4 DEF Outstanding, Creating, Pending
  <1>8. AskedOK'
    <2>1. \A m \in late' : \/ m.op = "create" /\ m.arg \in Request /\ Acceptable(m.arg)
                           \/ m.op = "cancel" /\ m.arg \in Id
      BY <1>2, <1>5 DEF Inv, AskedOK
    <2>2. \A d \in Client : Outstanding(d)' =>
              /\ job'[d].op = "create" => job'[d].arg \in Request /\ Acceptable(job'[d].arg)
              /\ job'[d].op \in {"read", "show", "cancel"} => job'[d].arg \in Id
      BY <1>4, <1>7 DEF Inv, AskedOK
    <2>3. \A j \in Placed : Acceptable(book'[j].asked)
      BY <1>1 DEF Inv, AskedOK
    <2> QED  BY <1>1, <2>1, <2>2, <2>3 DEF AskedOK, Acceptable
  <1>9. NumbersOK'
    <2>1. \A m \in LateCreates' : m \in LateCreates \/ (m = job[c] /\ Pending(c) /\ Creating(c))
      BY <1>5 DEF LateCreates, Pending, Creating, Outstanding
    <2>2. \A j \in Placed : book[j].try \in Int
      BY DEF Inv, TypeOK, Placed, Order, Try
    <2>3. \A m \in LateCreates : m.try \in Int
      BY DEF Inv, TypeOK, LateCreates, Job, Try
    <2>4. Creating(c)' => /\ \A j \in Placed : book[j].call = job[c].call => book[j].try < job'[c].try
                          /\ \A m \in LateCreates' : m.call = job[c].call => m.try < job'[c].try
      <3> SUFFICES ASSUME Creating(c)'
                   PROVE  /\ \A j \in Placed : book[j].call = job[c].call => book[j].try < job'[c].try
                          /\ \A m \in LateCreates' : m.call = job[c].call => m.try < job'[c].try
        OBVIOUS
      <3>1. Creating(c) /\ job'[c].try = job[c].try + 1
        BY <1>4, <1>7 DEF Creating
      <3>2. \A j \in Placed : book[j].call = job[c].call => book[j].try <= job[c].try
        BY <3>1 DEF Inv, NumbersOK
      <3>3. \A m \in LateCreates : m.call = job[c].call => m.try < job[c].try
        BY <3>1 DEF Inv, NumbersOK
      <3> QED  BY <3>1, <3>2, <3>3, <2>1, <2>2, <2>3, <1>3
    <2>5. \A m \in LateCreates' : m.call \in 1..calls /\ \A j \in Placed : ~Same(book[j], m)
      BY <2>1 DEF Inv, NumbersOK, Same
    <2>6. \A m, n \in LateCreates' : Same(m, n) => m = n
      <3>1. \A m \in LateCreates : Creating(c) => ~Same(m, job[c])
        BY <1>3 DEF Inv, NumbersOK, Same
      <3>2. \A m, n \in LateCreates : Same(m, n) => m = n
        BY DEF Inv, NumbersOK
      <3> QED  BY <2>1, <3>1, <3>2 DEF Same
    <2>7. ASSUME NEW d \in Client, Creating(d)'
          PROVE  /\ job'[d].call \in 1..calls
                 /\ \A j \in Placed : book[j].call = job'[d].call =>
                        book[j].try <= job'[d].try /\ (Pending(d)' => book[j].try # job'[d].try)
                 /\ \A m \in LateCreates' : m.call = job'[d].call => m.try < job'[d].try
      <3>1. CASE d = c
        <4>1. job'[c].call \in 1..calls /\ job'[c].call = job[c].call /\ job'[c].try \in Int
          BY <3>1, <2>7, <1>3, <1>4, <1>7 DEF Inv, NumbersOK, Creating
        <4> QED  BY <3>1, <4>1, <2>2, <2>4, <2>7
      <3>2. CASE d # c
        <4>1. Creating(d) /\ job'[d] = job[d] /\ (Pending(d)' => Pending(d))
          BY <3>2, <2>7, <1>4, <1>7
        <4>2. \A m \in LateCreates' : m.call = job[d].call => m \in LateCreates
          BY <3>2, <4>1, <2>1 DEF Inv, NumbersOK
        <4> QED  BY <4>1, <4>2 DEF Inv, NumbersOK
      <3> QED  BY <3>1, <3>2
    <2>8. \A d, e \in Client : Creating(d)' /\ Creating(e)' /\ d # e => job'[d].call # job'[e].call
      <3>1. \A d \in Client : job'[d].call = job[d].call
        BY <1>4
      <3> QED  BY <3>1, <1>7 DEF Inv, NumbersOK
    <2> QED  BY <1>1, <2>5, <2>6, <2>7, <2>8 DEF Inv, NumbersOK
  <1>10. HeardOK'
    <2> SUFFICES ASSUME NEW d \in Client
                 PROVE  (/\ wire[d].reply = "ok" /\ job[d].op = "create" =>
                                /\ wire[d].id \in Placed
                                /\ book[wire[d].id].call = job[d].call
                                /\ book[wire[d].id].asked = job[d].arg
                         /\ wire[d].reply = "ok" /\ job[d].op = "cancel"
                                => job[d].arg \in canceled
                         /\ wire[d].reply = "missing" => ~known[d]
                         /\ Outstanding(d) /\ known[d] => job[d].arg \in Placed)'
      BY DEF HeardOK
    <2>1. CASE d = c
      BY <2>1, <1>1, <1>2, <1>4 DEF Inv, HeardOK, Outstanding
    <2>2. CASE d # c
      BY <2>2, <1>1, <1>2, <1>4 DEF Inv, HeardOK, Outstanding
    <2> QED  BY <2>1, <2>2
  <1>11. AnswersMatchTheBook'
    <2>1. \A d \in Client : /\ job'[d].op = job[d].op /\ job'[d].arg = job[d].arg
                            /\ job'[d].call = job[d].call /\ job'[d].id = job[d].id
                            /\ job'[d].outcome = job[d].outcome
      BY <1>4
    <2> QED  BY <2>1, <1>1 DEF Inv, AnswersMatchTheBook
  <1> QED  BY <1>6, <1>8, <1>9, <1>10, <1>11 DEF Inv

-----------------------------------------------------------------------------
(* Every step is one of these. *)

LEMMA InitInv == Init => Inv
  <1> SUFFICES ASSUME Init PROVE Inv
    OBVIOUS
  <1>1. Idle \in Job /\ Idle.op = "look" /\ Idle.outcome = "success" /\ Silent \in Wire
    BY OrdersAssumption DEF Idle, Start, Job, Try, Op, Outcome, Silent, Wire, Reply
  <1>2. Placed = {} /\ late = {} /\ \A c \in Client : ~Outstanding(c) /\ ~Pending(c) /\ ~Creating(c)
    BY DEF Init, Placed, Outstanding, Pending, Creating, Silent
  <1>3. TypeOK
    BY <1>1, OrdersAssumption DEF Init, TypeOK, Wire
  <1>4. HeardOK
    BY DEF Init, HeardOK, Silent, Outstanding
  <1>5. AnswersMatchTheBook
    BY <1>1 DEF Init, AnswersMatchTheBook
  <1> QED  BY <1>2, <1>3, <1>4, <1>5 DEF Inv, AskedOK, NumbersOK, LateCreates

\* What every step below starts from.
LEMMA Typed ==
    ASSUME Inv
    PROVE  /\ book \in [Id -> Order \cup {None}] /\ job \in [Client -> Job]
           /\ wire \in [Client -> Wire] /\ late \subseteq Job /\ canceled \subseteq Id
           /\ calls \in 0..MaxCalls /\ calls \in Nat /\ known \in [Client -> BOOLEAN]
           /\ \A c \in Client : job[c].arg \in Argument /\ wire[c].id \in Id \cup {None}
  BY OrdersAssumption DEF Inv, TypeOK, Wire, Job, Argument

\* What is remembered of the broker concerns the command alone.
LEMMA KnowsOne ==
    ASSUME Inv, NEW c \in Client, NEW truth \in BOOLEAN, Knows(c, truth)
    PROVE  /\ known' \in [Client -> BOOLEAN] /\ (known'[c] <=> truth)
           /\ \A d \in Client : d # c => known'[d] = known[d]
  BY Typed DEF Knows

LEMMA EndKnows ==
    ASSUME Inv, NEW c \in Client, NEW outcome, NEW i, End(c, outcome, i)
    PROVE  /\ known' \in [Client -> BOOLEAN] /\ (known'[c] => known[c])
           /\ \A d \in Client : d # c => known'[d] = known[d]
  <1>1. Knows(c, known[c] /\ outcome = "not_found")
    BY DEF End
  <1>2. (known[c] /\ outcome = "not_found") \in BOOLEAN
    OBVIOUS
  <1> QED  BY <1>1, <1>2, KnowsOne

LEMMA CreateInv ==
    ASSUME Inv, NEW c \in Client, NEW q \in Request, Create(c, q)
    PROVE  Inv'
  <1>1. CASE Acceptable(q)
    <2>1. calls + 1 \in 0..MaxCalls
      BY <1>1, Typed, OrdersAssumption DEF Create
    <2>2. Knows(c, FALSE)
      BY <1>1 DEF Create
    <2>3. /\ known' \in [Client -> BOOLEAN] /\ ~known'[c]
          /\ \A d \in Client : d # c => known'[d] = known[d]
      BY <2>2, KnowsOne
    <2>4. Asks(c, "create", q, calls + 1)
      BY <1>1, <2>1, <2>3, Typed DEF Create, Asks, Op, Argument, broker
    <2> QED  BY <2>4, AsksInv
  <1>2. CASE ~Acceptable(q)
    <2>1. End(c, "invalid_data", None)
      BY <1>2 DEF Create, Fail
    <2>2. Ends(c, "invalid_data", None)
      BY <1>2, <2>1, EndKnows DEF Create, Ends, Outcome, broker
    <2> QED  BY <2>2, EndsInv
  <1> QED  BY <1>1, <1>2

LEMMA NameInv ==
    ASSUME Inv, NEW c \in Client, NEW op \in {"read", "show"}, NEW i \in Id \cup {None},
           Name(c, op, i)
    PROVE  Inv'
  <1>1. CASE i # None
    <2>1. 0 \in 0..MaxCalls
      BY OrdersAssumption
    <2>2. Knows(c, i \in Placed)
      BY <1>1 DEF Name
    <2>3. (i \in Placed) \in BOOLEAN
      OBVIOUS
    <2>4. /\ known' \in [Client -> BOOLEAN] /\ (known'[c] <=> i \in Placed)
          /\ \A d \in Client : d # c => known'[d] = known[d]
      BY <2>2, <2>3, KnowsOne
    <2>5. Asks(c, op, i, 0)
      BY <1>1, <2>1, <2>4, Typed DEF Name, Asks, Op, Argument, broker
    <2> QED  BY <2>5, AsksInv
  <1>2. CASE i = None
    <2>1. End(c, "invalid_data", None)
      BY <1>2 DEF Name, Fail
    <2>2. Ends(c, "invalid_data", None)
      BY <1>2, <2>1, EndKnows DEF Name, Ends, Outcome, broker
    <2> QED  BY <2>2, EndsInv
  <1> QED  BY <1>1, <1>2

LEMMA LookInv ==
    ASSUME Inv, NEW c \in Client, Look(c)
    PROVE  Inv'
  <1>1. Knows(c, FALSE)
    BY DEF Look
  <1>2. /\ known' \in [Client -> BOOLEAN] /\ ~known'[c]
        /\ \A d \in Client : d # c => known'[d] = known[d]
    BY <1>1, KnowsOne
  <1>3. 0 \in 0..MaxCalls
    BY OrdersAssumption
  <1>4. Asks(c, "look", None, 0)
    BY <1>2, <1>3, Typed DEF Look, Asks, Op, Argument, broker
  <1> QED  BY <1>4, AsksInv

\* A step of a command that leaves the history alone.
LEMMA HearOrderInv ==
    ASSUME Inv, NEW c \in Client, HearOrder(c)
    PROVE  Inv'
  <1>1. job[c].arg \in Id /\ (known[c] => job[c].arg \in Placed)
    BY DEF HearOrder, Inv, AskedOK, HeardOK, Outstanding
  <1>2. 0 \in 0..MaxCalls
    BY OrdersAssumption
  <1>3. Asks(c, "cancel", job[c].arg, 0)
    BY <1>1, <1>2, Typed DEF HearOrder, Asks, Op, Argument, broker, history
  <1> QED  BY <1>3, AsksInv

LEMMA HearInv ==
    ASSUME Inv, NEW c \in Client, Hear(c)
    PROVE  Inv'
  <1>1. End(c, "success", wire[c].id)
    BY DEF Hear, Succeed
  <1>2. Ends(c, "success", wire[c].id)
    BY <1>1, EndKnows, Typed DEF Hear, Ends, Outcome, broker, Inv, HeardOK
  <1> QED  BY <1>2, EndsInv

LEMMA FailsInv ==
    ASSUME Inv, NEW c \in Client, HearMissing(c) \/ HearRefused(c) \/ Unreadable(c)
    PROVE  Inv'
  <1>1. CASE HearMissing(c)
    <2>1. End(c, "not_found", None)
      BY <1>1 DEF HearMissing, Fail
    <2>2. Ends(c, "not_found", None)
      BY <1>1, <2>1, EndKnows, Typed DEF HearMissing, Ends, Outcome, broker, Inv, HeardOK
    <2> QED  BY <2>2, EndsInv
  <1>2. CASE HearRefused(c)
    <2>1. End(c, "error", None)
      BY <1>2 DEF HearRefused, Fail
    <2>2. Ends(c, "error", None)
      BY <1>2, <2>1, EndKnows, Typed DEF HearRefused, Ends, Outcome, broker
    <2> QED  BY <2>2, EndsInv
  <1>3. CASE Unreadable(c)
    <2>1. PICK outcome \in {"invalid_data", "error"} : End(c, outcome, None)
      BY <1>3 DEF Unreadable, Fail
    <2>2. Ends(c, outcome, None)
      BY <1>3, <2>1, EndKnows, Typed DEF Unreadable, Ends, Outcome, broker
    <2> QED  BY <2>2, EndsInv
  <1> QED  BY <1>1, <1>2, <1>3

LEMMA BreakInv ==
    ASSUME Inv, NEW c \in Client, Break(c)
    PROVE  Inv'
  <1>1. PICK outcome \in Outcomes(c) : End(c, outcome, None)
    BY DEF Break, Fail
  <1>2. /\ outcome \in {"error", "not_found"}
        /\ outcome = "not_found" => job[c].arg \in Misread
    BY DEF Outcomes
  <1>3. late' = late \/ (late' = late \cup {job[c]} /\ wire[c].reply = "asked"
                         /\ job[c].op \in {"create", "cancel"})
    BY DEF Break, GiveUp
  <1>4. Ends(c, outcome, None)
    BY <1>1, <1>2, <1>3, EndKnows, Typed DEF Break, Ends, Outcome, broker
  <1> QED  BY <1>4, EndsInv

LEMMA AcceptInv ==
    ASSUME Inv, NEW c \in Client, NEW i \in Id, Accept(c, i)
    PROVE  Inv'
  <1>1. Pending(c) /\ Creating(c) /\ Outstanding(c)
    BY DEF Accept, Pending, Creating, Outstanding
  <1>2. /\ job[c] \in Job /\ job[c].arg \in Request /\ Acceptable(job[c].arg)
        /\ job[c].call \in 1..calls /\ \A j \in Placed : ~Same(book[j], job[c])
    BY <1>1, Typed DEF Inv, AskedOK, NumbersOK, Pending, Same
  <1>3. Places(i, job[c])
    BY <1>1, <1>2 DEF Accept, Places
  <1> QED  BY <1>3, PlacesInv

\* A book in which one order has moved on.
LEMMA SettleKeeps ==
    ASSUME Inv, NEW i \in Id, book[i] # None, NEW status \in Status, Settle(i, status)
    PROVE  /\ book' \in [Id -> Order \cup {None}]
           /\ Placed' = Placed
           /\ \A j \in Placed : Same(book'[j], book[j]) /\ book'[j].asked = book[j].asked
  <1>1. book[i] \in Order /\ book \in [Id -> Order \cup {None}]
    BY Typed
  <1>2. /\ book' = [book EXCEPT ![i] = [book[i] EXCEPT !.status = status]]
        /\ [book[i] EXCEPT !.status = status] \in Order
        /\ Same([book[i] EXCEPT !.status = status], book[i])
        /\ [book[i] EXCEPT !.status = status].asked = book[i].asked
    BY <1>1 DEF Settle, Order, Same
  <1> QED  BY <1>1, <1>2, NoOrder DEF Placed, Same

LEMMA ServesInv ==
    ASSUME Inv, NEW c \in Client, Reject(c) \/ Serve(c) \/ ServeLook(c)
    PROVE  Inv'
  <1>1. CASE Reject(c)
    <2>1. Keeps /\ Answers(c)
      BY <1>1, Typed DEF Reject, Keeps, Answers, broker, Placed, Same
    <2> QED  BY <2>1, KeepsInv
  <1>2. CASE ServeLook(c)
    <2>1. Keeps /\ Answers(c)
      BY <1>2, Typed DEF ServeLook, Keeps, Answers, broker, Placed, Same
    <2> QED  BY <2>1, KeepsInv
  <1>3. CASE Serve(c)
    <2>1. job[c].arg \in Id
      BY <1>3 DEF Serve, Inv, AskedOK, Outstanding
    <2>2. /\ UNCHANGED <<job, late, history>> /\ wire[c].reply = "asked"
          /\ job[c].op # "create"
      BY <1>3 DEF Serve
    <2>3. CASE UNCHANGED broker
      <3>1. Keeps
        BY <2>2, <2>3, Typed DEF Keeps, broker, Placed, Same
      <3>2. \/ book[job[c].arg] = None /\ Respond(c, "missing", None)
            \/ job[c].op # "cancel" /\ Respond(c, "ok", job[c].arg)
            \/ job[c].op = "cancel" /\ Respond(c, "refused", None)
            \/ /\ job[c].op = "cancel" /\ Respond(c, "ok", job[c].arg)
               /\ canceled' = canceled \cup {job[c].arg}
        BY <1>3, <2>3 DEF Serve
      <3>3. Answers(c)
        BY <2>1, <2>2, <3>2 DEF Answers, Placed
      <3> QED  BY <3>1, <3>3, KeepsInv
    <2>4. CASE /\ book[job[c].arg] # None /\ Respond(c, "ok", job[c].arg)
               /\ Settle(job[c].arg, "canceling")
               /\ canceled' = canceled \cup {job[c].arg}
      <3>1. Keeps
        BY <2>1, <2>2, <2>4, SettleKeeps, Typed DEF Keeps, Status
      <3>2. Answers(c)
        BY <2>1, <2>2, <2>4 DEF Answers
      <3> QED  BY <3>1, <3>2, KeepsInv
    <2> QED  BY <1>3, <2>3, <2>4 DEF Serve
  <1> QED  BY <1>1, <1>2, <1>3

LEMMA ArriveInv ==
    ASSUME Inv, NEW m \in late, Arrive(m)
    PROVE  Inv'
  <1>1. CASE m.op = "create"
    <2>1. PICK i \in Id : Place(i, m)
      BY <1>1 DEF Arrive
    <2>2. m \in LateCreates /\ m \in Job /\ m.arg \in Request /\ Acceptable(m.arg)
      BY <1>1, Typed DEF Inv, AskedOK, LateCreates
    <2>3. m.call \in 1..calls /\ \A j \in Placed : ~Same(book[j], m)
      BY <2>2 DEF Inv, NumbersOK
    <2>4. Places(i, m)
      BY <1>1, <2>1, <2>2, <2>3 DEF Arrive, Places
    <2> QED  BY <2>4, PlacesInv
  <1>2. CASE m.op # "create"
    <2>1. m.arg \in Id /\ book[m.arg] # None /\ Settle(m.arg, "canceling")
      BY <1>2 DEF Arrive, Inv, AskedOK
    <2>2. Keeps
      BY <1>2, <2>1, SettleKeeps, Typed DEF Arrive, Keeps, Status
    <2> QED  BY <2>2, KeepsInv DEF Arrive
  <1> QED  BY <1>1, <1>2

LEMMA CloseInv ==
    ASSUME Inv, NEW i \in Id, NEW status \in Status, Close(i, status)
    PROVE  Inv'
  <1>1. Keeps
    BY SettleKeeps, Typed DEF Close, Keeps
  <1> QED  BY <1>1, KeepsInv DEF Close

LEMMA StutterInv ==
    ASSUME Inv, UNCHANGED vars
    PROVE  Inv'
  <1>1. Keeps /\ wire' = wire
    BY Typed DEF vars, Keeps, broker, Placed, Same
  <1> QED  BY <1>1, KeepsInv

LEMMA StepInv == Inv /\ [Next]_vars => Inv'
  BY CreateInv, NameInv, LookInv, HearOrderInv, HearInv, FailsInv, BreakInv, ResendInv,
     AcceptInv, ServesInv, ArriveInv, CloseInv, StutterInv DEF Next

-----------------------------------------------------------------------------

\* A create places at most one order for each request that alpaca-py's client sends of
\* it, whatever is lost or late, and every order in the book passed the checks of
\* CreateOrder.execute: the code itself submits once.
THEOREM OneOrderEach == Spec => []OneOrderPerRequest
  <1>1. Inv => OneOrderPerRequest
    BY DEF Inv, AskedOK, NumbersOK, Same, OneOrderPerRequest
  <1> QED  BY <1>1, InitInv, StepInv, PTL DEF Spec

\* What a command says of an order is so: get_order, submit_limit_order and cancel_order
\* never promise what the broker does not hold.
THEOREM AnswersMatch == Spec => []AnswersMatchTheBook
  <1>1. Inv => AnswersMatchTheBook
    BY DEF Inv
  <1> QED  BY <1>1, InitInv, StepInv, PTL DEF Spec
=============================================================================
