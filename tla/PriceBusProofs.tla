--------------------------- MODULE PriceBusProofs ---------------------------
(***************************************************************************)
(* PriceBus: no quote is seen out of order or lost from sight, for any     *)
(* number of symbols, streams and quotes.  Of one symbol the quotes a      *)
(* client has seen come before those it was sent, and these before those   *)
(* the broker holds.                                                       *)
(***************************************************************************)
EXTENDS PriceBus, TLAPS, FiniteSetTheorems

Rising(q) == \A i, j \in DOMAIN q : i < j => q[i] < q[j]

WatchOK ==
    /\ watch \in [at: {"off", "connecting", "consuming"}, pos: DOMAIN Wanted]
    /\ watch.at # "consuming" => inbox["watch"] = <<>>

BusTypes ==
    /\ count \in [Symbol -> Nat]
    /\ queues \in [Symbol -> Seq(Nat)]
    /\ inbox \in [Client -> Seq(Nat)]
    /\ last \in [Client -> [Symbol -> Nat]]
    /\ delivered \in [Symbol -> SUBSET Nat]
    /\ lost \in [Symbol -> SUBSET Nat]
    /\ WatchOK

QueuesOK ==
    \A s \in Symbol :
        /\ Rising(queues[s])
        /\ \A q \in Range(queues[s]) : q <= count[s]

SeenOK ==
    \A c \in Client, s \in Symbol :
        /\ last[c][s] <= count[s]
        /\ \A q \in Range(queues[s]) : last[c][s] < q

InboxOK ==
    \A c \in Client :
        /\ Rising(inbox[c])
        /\ \A q \in Range(inbox[c]) :
               /\ last[c][Reads(c)] < q /\ q <= count[Reads(c)]
               /\ \A later \in Range(queues[Reads(c)]) : q < later

\* What two clients of a symbol have been sent is not the same.
ApartOK ==
    \A c, d \in Client :
        c # d /\ Reads(c) = Reads(d) =>
            \A q \in Range(inbox[c]) : q \notin Range(inbox[d])

PlacesOK == ApartOK /\ \A s \in Symbol : InOnePlace(s)

Inv == BusTypes /\ QueuesOK /\ SeenOK /\ InboxOK /\ PlacesOK

\* What a worker could use of its frames is published, dropped or still there.
FramesOK ==
    /\ received \in [Symbol -> 0..MaxQuote]
    /\ dropped \in [Symbol -> Nat]
    /\ frame \in [Symbol -> Seq(ElementOf(Symbol))]
    /\ \A s \in Symbol :
           received[s] = count[s] + dropped[s] + UsableIn(frame[s], s)

ProcessesOK ==
    /\ engine \in {"off", "running"}
    /\ workers \in [Symbol -> {"none", "streaming", "ended"}]
    /\ thread \in [Stream -> {"none", "connecting", "consuming", "stopping", "stopped"}]
    /\ generator \in [Stream -> {"none", "open", "closed"}]
    /\ response \in [Stream -> {"idle", "open", "pinged", "ended"}]
    /\ leaked \subseteq Stream
    /\ \A c \in Stream : response[c] = "open" => generator[c] = "open"

\* What is left in a client's inbox is still read by it.
Kept == \A c \in Client : Reads(c)' = Reads(c) \/ inbox'[c] = <<>>

-----------------------------------------------------------------------------
(* Sequences as sets. *)

LEMMA EmptyFacts == Rising(<<>>) /\ Range(<<>>) = {} /\ \A S : <<>> \in Seq(S)
  BY DEF Rising, Range

LEMMA RangeType ==
    ASSUME NEW q \in Seq(Nat)
    PROVE  Range(q) \subseteq Nat
  BY DEF Range

LEMMA AppendFacts ==
    ASSUME NEW q \in Seq(Nat), NEW n \in Nat
    PROVE  /\ Append(q, n) \in Seq(Nat)
           /\ Range(Append(q, n)) = Range(q) \cup {n}
           /\ Rising(q) /\ (\A m \in Range(q) : m < n) => Rising(Append(q, n))
  <1>1. /\ Append(q, n) \in Seq(Nat)
        /\ DOMAIN q = 1..Len(q) /\ DOMAIN Append(q, n) = 1..(Len(q) + 1)
        /\ \A i \in 1..Len(q) : Append(q, n)[i] = q[i] /\ q[i] \in Nat
        /\ Append(q, n)[Len(q) + 1] = n
        /\ Len(q) \in Nat
    OBVIOUS
  <1>2. Range(Append(q, n)) = Range(q) \cup {n}
    BY <1>1 DEF Range
  <1>3. ASSUME Rising(q), \A m \in Range(q) : m < n
        PROVE  Rising(Append(q, n))
    <2> SUFFICES ASSUME NEW i \in 1..(Len(q) + 1), NEW j \in 1..(Len(q) + 1), i < j
                 PROVE  Append(q, n)[i] < Append(q, n)[j]
      BY <1>1 DEF Rising
    <2>1. i \in 1..Len(q) /\ q[i] \in Range(q)
      BY <1>1 DEF Range
    <2>2. CASE j = Len(q) + 1
      BY <1>1, <1>3, <2>1, <2>2
    <2>3. CASE j \in 1..Len(q)
      BY <1>1, <1>3, <2>1, <2>3 DEF Rising
    <2> QED  BY <1>1, <2>2, <2>3
  <1> QED  BY <1>1, <1>2, <1>3

LEMMA TailFacts ==
    ASSUME NEW q \in Seq(Nat), q # <<>>
    PROVE  /\ Head(q) \in Nat /\ Tail(q) \in Seq(Nat)
           /\ Range(q) = {Head(q)} \cup Range(Tail(q))
           /\ Rising(q) => Rising(Tail(q)) /\ \A m \in Range(Tail(q)) : Head(q) < m
  <1>1. /\ Head(q) \in Nat /\ Tail(q) \in Seq(Nat) /\ Head(q) = q[1]
        /\ Len(q) \in Nat /\ Len(q) >= 1
        /\ DOMAIN q = 1..Len(q) /\ DOMAIN Tail(q) = 1..(Len(q) - 1)
        /\ \A i \in 1..(Len(q) - 1) : Tail(q)[i] = q[i + 1]
    OBVIOUS
  <1>2. Range(q) = {Head(q)} \cup Range(Tail(q))
    <2>1. \A i \in 1..Len(q) : i = 1 \/ (q[i] = Tail(q)[i - 1] /\ i - 1 \in 1..(Len(q) - 1))
      BY <1>1
    <2>2. \A i \in 1..(Len(q) - 1) : i + 1 \in 1..Len(q)
      BY <1>1
    <2>3. \A m \in Range(q) : m = Head(q) \/ m \in Range(Tail(q))
      <3> TAKE m \in Range(q)
      <3>1. PICK i \in 1..Len(q) : m = q[i]
        BY <1>1 DEF Range
      <3>2. CASE i = 1
        BY <1>1, <3>1, <3>2
      <3>3. CASE i # 1
        <4>1. m = Tail(q)[i - 1] /\ i - 1 \in DOMAIN Tail(q)
          BY <1>1, <2>1, <3>1, <3>3
        <4> QED  BY <4>1 DEF Range
      <3> QED  BY <3>2, <3>3
    <2>4. Head(q) \in Range(q) /\ \A m \in Range(Tail(q)) : m \in Range(q)
      BY <1>1, <2>2 DEF Range
    <2> QED  BY <2>3, <2>4
  <1>3. ASSUME Rising(q)
        PROVE  Rising(Tail(q)) /\ \A m \in Range(Tail(q)) : Head(q) < m
    <2>1. \A i \in 1..(Len(q) - 1) : i + 1 \in 1..Len(q) /\ 1 < i + 1 /\ 1 \in 1..Len(q)
      BY <1>1
    <2>2. Rising(Tail(q))
      <3> SUFFICES ASSUME NEW i \in 1..(Len(q) - 1), NEW j \in 1..(Len(q) - 1), i < j
                   PROVE  Tail(q)[i] < Tail(q)[j]
        BY <1>1 DEF Rising
      <3>1. i + 1 < j + 1
        BY <1>1
      <3> QED  BY <1>1, <1>3, <2>1, <3>1 DEF Rising
    <2>3. \A m \in Range(Tail(q)) : Head(q) < m
      BY <1>1, <1>3, <2>1 DEF Rising, Range
    <2> QED  BY <2>2, <2>3
  <1> QED  BY <1>1, <1>2, <1>3

\* A frame has one usable element less when its head was one.
LEMMA UsableFacts ==
    ASSUME NEW T, NEW f \in Seq(ElementOf(T)), NEW s
    PROVE  /\ UsableIn(f, s) \in Nat
           /\ f = <<>> => UsableIn(f, s) = 0
           /\ f # <<>> => UsableIn(f, s) =
                  UsableIn(Tail(f), s) + (IF Usable(Head(f), s) THEN 1 ELSE 0)
  <1> DEFINE U(g) == {i \in DOMAIN g : Usable(g[i], s)}
  <1>1. \A g \in Seq(ElementOf(T)) : IsFiniteSet(U(g)) /\ Cardinality(U(g)) \in Nat
    <2> TAKE g \in Seq(ElementOf(T))
    <2>1. DOMAIN g = 1..Len(g) /\ Len(g) \in Nat
      OBVIOUS
    <2>2. IsFiniteSet(1..Len(g))
      BY <2>1, FS_Interval
    <2>3. IsFiniteSet(U(g))
      BY <2>1, <2>2, FS_Subset
    <2> QED  BY <2>3, FS_CardinalityType
  <1>2. f = <<>> => U(f) = {}
    OBVIOUS
  <1>3. ASSUME f # <<>>
        PROVE  Cardinality(U(f)) =
                   Cardinality(U(Tail(f))) + (IF Usable(Head(f), s) THEN 1 ELSE 0)
    <2>1. /\ Tail(f) \in Seq(ElementOf(T)) /\ Head(f) = f[1]
          /\ DOMAIN f = 1..Len(f) /\ DOMAIN Tail(f) = 1..(Len(f) - 1)
          /\ Len(f) \in Nat /\ Len(f) >= 1
          /\ \A i \in 1..(Len(f) - 1) : Tail(f)[i] = f[i + 1]
      BY <1>3
    <2> DEFINE shift == [i \in U(Tail(f)) |-> i + 1]
    <2>2. shift \in Bijection(U(Tail(f)), U(f) \ {1})
      <3>1. \A i \in U(Tail(f)) : i \in Int /\ i + 1 \in U(f) \ {1}
        BY <2>1
      <3>2. \A j \in U(f) \ {1} : j \in Int /\ j - 1 \in U(Tail(f)) /\ (j - 1) + 1 = j
        BY <2>1
      <3>3. shift \in [U(Tail(f)) -> U(f) \ {1}]
        BY <3>1
      <3>4. \A i, j \in U(Tail(f)) : shift[i] = shift[j] => i = j
        BY <3>1
      <3>5. \A j \in U(f) \ {1} : \E i \in U(Tail(f)) : shift[i] = j
        BY <3>2
      <3> HIDE DEF shift, U
      <3> QED  BY <3>3, <3>4, <3>5 DEF Bijection, Injection, Surjection, IsInjective
    <2>3. Cardinality(U(f) \ {1}) = Cardinality(U(Tail(f)))
      BY <1>1, <2>1, <2>2, FS_Bijection DEF ExistsBijection
    <2>4. 1 \in U(f) <=> Usable(Head(f), s)
      BY <2>1
    <2>5. Cardinality(U(f) \ {1}) =
              IF 1 \in U(f) THEN Cardinality(U(f)) - 1 ELSE Cardinality(U(f))
      BY <1>1, FS_RemoveElement
    <2>6. Cardinality(U(f)) \in Nat
      BY <1>1
    <2> HIDE DEF U
    <2> QED  BY <2>3, <2>4, <2>5, <2>6
  <1> QED  BY <1>1, <1>2, <1>3, FS_EmptySet DEF UsableIn

LEMMA SentOn ==
    ASSUME NEW s \in Symbol
    PROVE  \A q : q \in InFlight(s) <=>
               \/ q \in Range(queues[s])
               \/ \E c \in Client : Reads(c) = s /\ q \in Range(inbox[c])
  BY DEF InFlight

LEMMA SentOnNext ==
    ASSUME NEW s \in Symbol
    PROVE  \A q : q \in InFlight(s)' <=>
               \/ q \in Range(queues'[s])
               \/ \E c \in Client : Reads(c)' = s /\ q \in Range(inbox'[c])
  BY DEF InFlight

LEMMA ReadsSymbol ==
    ASSUME WatchOK, NEW c \in Client
    PROVE  Reads(c) \in Symbol
  BY BusAssumption DEF WatchOK, Reads, Client

LEMMA QueuedIsUnsent ==
    ASSUME BusTypes, InboxOK, NEW c \in Client, NEW q \in Range(queues[Reads(c)])
    PROVE  q \notin Range(inbox[c])
  <1> SUFFICES ASSUME q \in Range(inbox[c])
               PROVE  FALSE
    OBVIOUS
  <1>1. q < q
    BY DEF InboxOK
  <1>2. q \in Nat
    BY RangeType DEF BusTypes
  <1> QED  BY <1>1, <1>2

-----------------------------------------------------------------------------
(* The kinds of steps. *)

\* Threads, connections and frames come and go.
LEMMA QuietInv ==
    ASSUME Inv, UNCHANGED <<count, queues, inbox, account>>, WatchOK', Kept
    PROVE  Inv'
  <1> USE DEF Inv, account
  <1>0. Range(<<>>) = {}
    BY EmptyFacts
  <1>1. BusTypes' /\ QueuesOK' /\ SeenOK'
    BY DEF BusTypes, QueuesOK, SeenOK
  <1>2. InboxOK'
    BY <1>0 DEF InboxOK, Kept
  <1>3. ApartOK'
    BY <1>0 DEF PlacesOK, ApartOK, Kept
  <1>4. ASSUME NEW s \in Symbol
        PROVE  InOnePlace(s)'
    <2>1. InFlight(s)' = InFlight(s)
      BY <1>0, SentOn, SentOnNext DEF Kept
    <2> QED  BY <2>1 DEF PlacesOK, InOnePlace
  <1> QED  BY <1>1, <1>2, <1>3, <1>4 DEF PlacesOK

\* A worker publishes a quote.
LEMMA PublishesInv ==
    ASSUME Inv, NEW s \in Symbol,
           count' = [count EXCEPT ![s] = @ + 1],
           queues' = [queues EXCEPT ![s] = Append(@, count[s] + 1)],
           UNCHANGED <<inbox, watch, account>>
    PROVE  Inv'
  <1> USE DEF Inv, account
  <1> DEFINE n == count[s] + 1
  <1>0. /\ count[s] \in Nat /\ n \in Nat /\ count'[s] = n
        /\ queues[s] \in Seq(Nat) /\ queues'[s] = Append(queues[s], n)
        /\ \A t \in Symbol : t # s => count'[t] = count[t] /\ queues'[t] = queues[t]
        /\ \A c \in Client : Reads(c)' = Reads(c) /\ Reads(c) \in Symbol
    <2>1. \A c \in Client : Reads(c)' = Reads(c) /\ Reads(c) \in Symbol
      BY ReadsSymbol DEF BusTypes, Reads
    <2> QED  BY <2>1 DEF BusTypes
  <1>1. \A q \in Range(queues[s]) : q \in Nat /\ q <= count[s] /\ q < n
    BY <1>0, RangeType DEF QueuesOK
  <1>2. /\ Append(queues[s], n) \in Seq(Nat)
        /\ Range(queues'[s]) = Range(queues[s]) \cup {n}
        /\ Rising(queues'[s])
    BY <1>0, <1>1, AppendFacts DEF QueuesOK
  <1> HIDE DEF n
  <1>3. BusTypes'
    BY <1>0, <1>2 DEF BusTypes, WatchOK, n
  <1>4. QueuesOK'
    <2> SUFFICES ASSUME NEW t \in Symbol
                 PROVE  Rising(queues'[t]) /\ \A q \in Range(queues'[t]) : q <= count'[t]
      BY DEF QueuesOK
    <2> QED  BY <1>0, <1>1, <1>2 DEF QueuesOK, n
  <1>5. SeenOK'
    <2> SUFFICES ASSUME NEW c \in Client, NEW t \in Symbol
                 PROVE  /\ last[c][t] <= count'[t]
                        /\ \A q \in Range(queues'[t]) : last[c][t] < q
      BY DEF SeenOK
    <2>1. last[c][t] \in Nat /\ last[c][t] <= count[t]
      BY DEF BusTypes, SeenOK
    <2> QED  BY <1>0, <1>2, <2>1 DEF SeenOK, n
  <1>6. InboxOK'
    <2> SUFFICES ASSUME NEW c \in Client, NEW q \in Range(inbox[c])
                 PROVE  /\ last[c][Reads(c)] < q /\ q <= count'[Reads(c)]
                        /\ \A later \in Range(queues'[Reads(c)]) : q < later
      BY <1>0 DEF InboxOK
    <2>1. q \in Nat /\ q <= count[Reads(c)]
      BY RangeType DEF BusTypes, InboxOK
    <2> QED  BY <1>0, <1>2, <2>1 DEF InboxOK, n
  <1>7. PlacesOK'
    <2>1. ApartOK'
      <3>1. \A c \in Client : Reads(c)' = Reads(c)
        BY <1>0
      <3>2. ApartOK
        BY DEF PlacesOK
      <3> QED  BY <3>1, <3>2 DEF ApartOK
    <2>2. ASSUME NEW t \in Symbol, t # s
          PROVE  InOnePlace(t)'
      <3>1. \A q : q \in InFlight(t)' <=> q \in InFlight(t)
        BY <1>0, <2>2, SentOn, SentOnNext
      <3> QED  BY <1>0, <2>2, <3>1 DEF PlacesOK, InOnePlace
    <2>3. InOnePlace(s)'
      <3>1. \A q : q \in InFlight(s)' <=> q \in InFlight(s) \cup {n}
        BY <1>0, <1>2, SentOn, SentOnNext
      <3>2. 1..n = 1..count[s] \cup {n} /\ n \notin 1..count[s]
        BY <1>0 DEF n
      <3>3. InFlight(s)' = InFlight(s) \cup {n}
        BY <3>1
      <3> QED  BY <1>0, <3>2, <3>3 DEF PlacesOK, InOnePlace
    <2> QED  BY <2>1, <2>2, <2>3 DEF PlacesOK
  <1> QED  BY <1>3, <1>4, <1>5, <1>6, <1>7

\* A client looks at the first quote it was sent.
LEMMA LooksInv ==
    ASSUME Inv, NEW c \in Client, NEW s \in Symbol, s = Reads(c), inbox[c] # <<>>,
           inbox' = [inbox EXCEPT ![c] = Tail(@)],
           delivered' = [delivered EXCEPT ![s] = @ \cup {Head(inbox[c])}],
           last' = [last EXCEPT ![c][s] = Head(inbox[c])],
           UNCHANGED <<count, queues, watch, lost>>
    PROVE  Inv' /\ \A d \in Client, t \in Symbol : last'[d][t] >= last[d][t]
  <1> USE DEF Inv
  <1> DEFINE q == Head(inbox[c])
  <1>0. /\ inbox[c] \in Seq(Nat) /\ inbox'[c] = Tail(inbox[c])
        /\ \A d \in Client : d # c => inbox'[d] = inbox[d]
        /\ delivered'[s] = delivered[s] \cup {q}
        /\ \A t \in Symbol : t # s => delivered'[t] = delivered[t]
        /\ last'[c][s] = q
        /\ \A d \in Client, t \in Symbol : d # c \/ t # s => last'[d][t] = last[d][t]
        /\ \A d \in Client : Reads(d)' = Reads(d) /\ Reads(d) \in Symbol
    <2>1. \A d \in Client : Reads(d)' = Reads(d) /\ Reads(d) \in Symbol
      BY ReadsSymbol DEF BusTypes, Reads
    <2> QED  BY <2>1 DEF BusTypes
  <1>1. /\ q \in Nat /\ Tail(inbox[c]) \in Seq(Nat)
        /\ Range(inbox[c]) = {q} \cup Range(inbox'[c])
        /\ Rising(inbox'[c]) /\ \A m \in Range(inbox'[c]) : q < m
    BY <1>0, TailFacts DEF InboxOK
  <1> HIDE DEF q
  <1>1a. \A d \in Client : Reads(d)' = Reads(d)
    BY <1>0
  <1>2. /\ last[c][s] < q /\ q <= count[s]
        /\ \A later \in Range(queues[s]) : q < later
    BY <1>1 DEF InboxOK
  <1>3. BusTypes'
    <2>1. WatchOK'
      BY <1>0 DEF BusTypes, WatchOK, q
    <2>2. last' \in [Client -> [Symbol -> Nat]]
      BY <1>1 DEF BusTypes, q
    <2> QED  BY <1>0, <1>1, <2>1, <2>2 DEF BusTypes, q
  <1>4. QueuesOK' /\ SeenOK'
    BY <1>0, <1>2 DEF QueuesOK, SeenOK
  <1>5. InboxOK'
    <2> SUFFICES ASSUME NEW d \in Client
                 PROVE  /\ Rising(inbox'[d])
                        /\ \A m \in Range(inbox'[d]) :
                               /\ last'[d][Reads(d)] < m /\ m <= count[Reads(d)]
                               /\ \A later \in Range(queues[Reads(d)]) : m < later
      BY <1>0 DEF InboxOK
    <2>1. CASE d = c
      BY <1>0, <1>1, <2>1 DEF InboxOK
    <2>2. CASE d # c
      BY <1>0, <2>2 DEF InboxOK
    <2> QED  BY <2>1, <2>2
  <1>6. PlacesOK'
    <2>1. ApartOK'
      <3>1. \A d \in Client : \A m \in Range(inbox'[d]) : m \in Range(inbox[d])
        BY <1>0, <1>1
      <3> QED  BY <1>1a, <3>1 DEF PlacesOK, ApartOK
    <2>2. ASSUME NEW t \in Symbol, t # s
          PROVE  InOnePlace(t)'
      <3>1. \A m : m \in InFlight(t)' <=> m \in InFlight(t)
        BY <1>0, <2>2, SentOn, SentOnNext
      <3> QED  BY <1>0, <2>2, <3>1 DEF PlacesOK, InOnePlace
    <2>3. InOnePlace(s)'
      <3>1. q \notin Range(inbox'[c]) /\ q \notin Range(queues[s])
        BY <1>0, <1>1, <1>2
      <3>2. \A d \in Client : d # c /\ Reads(d) = s => q \notin Range(inbox[d])
        BY <1>1 DEF PlacesOK, ApartOK
      <3>3. q \in InFlight(s) /\ q \notin InFlight(s)'
        <4>1. q \in InFlight(s)
          BY <1>1, SentOn
        <4>2. \A d \in Client : Reads(d)' = s => q \notin Range(inbox'[d])
          BY <1>0, <3>1, <3>2
        <4> QED  BY <3>1, <4>1, <4>2, SentOnNext
      <3>4. \A m : m # q => (m \in InFlight(s) <=> m \in InFlight(s)')
        <4>1. \A d \in Client : \A m :
                  m # q => (m \in Range(inbox[d]) <=> m \in Range(inbox'[d]))
          BY <1>0, <1>1
        <4> QED  BY <1>1a, <4>1, SentOn, SentOnNext
      <3> QED  BY <1>0, <3>3, <3>4 DEF PlacesOK, InOnePlace
    <2> QED  BY <2>1, <2>2, <2>3 DEF PlacesOK
  <1>7. \A d \in Client, t \in Symbol : last'[d][t] >= last[d][t]
    <2> SUFFICES ASSUME NEW d \in Client, NEW t \in Symbol
                 PROVE  last'[d][t] >= last[d][t]
      OBVIOUS
    <2>1. last[d][t] \in Nat
      BY DEF BusTypes
    <2> QED  BY <1>0, <1>1, <1>2, <2>1
  <1> QED  BY <1>3, <1>4, <1>5, <1>6, <1>7

\* A client goes with what it was sent.
LEMMA DiscardsInv ==
    ASSUME Inv, NEW c \in Client, NEW s \in Symbol, s = Reads(c),
           inbox' = [inbox EXCEPT ![c] = <<>>], Discard(c),
           UNCHANGED <<count, queues, delivered, last>>, WatchOK', Kept
    PROVE  Inv'
  <1> USE DEF Inv
  <1>0. /\ inbox'[c] = <<>> /\ Range(inbox'[c]) = {}
        /\ \A d \in Client : d # c => inbox'[d] = inbox[d]
        /\ lost'[s] = lost[s] \cup Range(inbox[c])
        /\ \A t \in Symbol : t # s => lost'[t] = lost[t]
        /\ \A d \in Client : Reads(d)' = Reads(d) \/ Range(inbox'[d]) = {}
        /\ Range(inbox[c]) \subseteq Nat
    BY EmptyFacts, RangeType DEF BusTypes, Discard, Kept
  <1>2. BusTypes'
    <2>1. lost' \in [Symbol -> SUBSET Nat]
      BY <1>0 DEF BusTypes, Discard
    <2> QED  BY <2>1, EmptyFacts DEF BusTypes
  <1>3. QueuesOK' /\ SeenOK'
    BY DEF QueuesOK, SeenOK
  <1>4. InboxOK'
    <2> SUFFICES ASSUME NEW d \in Client
                 PROVE  /\ Rising(inbox'[d])
                        /\ \A m \in Range(inbox'[d]) :
                               /\ last[d][Reads(d)'] < m /\ m <= count[Reads(d)']
                               /\ \A later \in Range(queues[Reads(d)']) : m < later
      BY DEF InboxOK
    <2>1. CASE d = c
      BY <1>0, <2>1, EmptyFacts
    <2>2. CASE d # c
      BY <1>0, <2>2 DEF InboxOK
    <2> QED  BY <2>1, <2>2
  <1>5. /\ \A d \in Client : \A m : m \in Range(inbox'[d]) <=> d # c /\ m \in Range(inbox[d])
        /\ \A d \in Client : \A m \in Range(inbox'[d]) : Reads(d)' = Reads(d)
    BY <1>0
  <1>6. ApartOK'
    BY <1>5 DEF PlacesOK, ApartOK
  <1>7. ASSUME NEW t \in Symbol, t # s
        PROVE  InOnePlace(t)'
    <2>1. \A m : m \in InFlight(t)' <=> m \in InFlight(t)
      BY <1>5, <1>7, SentOn, SentOnNext
    <2> QED  BY <1>0, <1>7, <2>1 DEF PlacesOK, InOnePlace
  <1>8. InOnePlace(s)'
    <2>1. \A m \in Range(inbox[c]) : m \in InFlight(s)
      BY SentOn
    <2>2. \A m \in Range(inbox[c]) : m \notin InFlight(s)'
      <3>1. \A m \in Range(inbox[c]) : m \notin Range(queues[s])
        BY QueuedIsUnsent
      <3>2. \A d \in Client : d # c /\ Reads(d) = s =>
                \A m \in Range(inbox[c]) : m \notin Range(inbox[d])
        BY DEF PlacesOK, ApartOK
      <3> QED  BY <1>5, <3>1, <3>2, SentOnNext
    <2>3. \A m : m \in InFlight(s)' => m \in InFlight(s)
      BY <1>5, SentOn, SentOnNext
    <2>4. \A m : m \in InFlight(s) => m \in InFlight(s)' \/ m \in Range(inbox[c])
      BY <1>5, SentOn, SentOnNext
    <2>5. InFlight(s) = InFlight(s)' \cup Range(inbox[c])
      BY <2>1, <2>3, <2>4
    <2> QED  BY <1>0, <2>2, <2>5 DEF PlacesOK, InOnePlace
  <1> QED  BY <1>2, <1>3, <1>4, <1>6, <1>7, <1>8 DEF PlacesOK

\* The broker hands a quote to a client that looks at it.
LEMMA DeliversInv ==
    ASSUME Inv, NEW c \in Client, NEW s \in Symbol, s = Reads(c), queues[s] # <<>>,
           c = "watch" => watch.at = "consuming",
           queues' = [queues EXCEPT ![s] = Tail(@)],
           inbox' = [inbox EXCEPT ![c] = Append(@, Head(queues[s]))],
           UNCHANGED <<count, watch, account>>
    PROVE  Inv'
  <1> USE DEF Inv, account
  <1> DEFINE q == Head(queues[s])
  <1>0. /\ queues[s] \in Seq(Nat) /\ queues'[s] = Tail(queues[s])
        /\ \A t \in Symbol : t # s => queues'[t] = queues[t]
        /\ inbox[c] \in Seq(Nat) /\ inbox'[c] = Append(inbox[c], q)
        /\ \A d \in Client : d # c => inbox'[d] = inbox[d]
    BY DEF BusTypes
  <1>1. /\ q \in Nat /\ Tail(queues[s]) \in Seq(Nat)
        /\ Range(queues[s]) = {q} \cup Range(queues'[s])
        /\ Rising(queues'[s])
        /\ \A later \in Range(queues'[s]) : q < later
    BY <1>0, TailFacts DEF QueuesOK
  <1> HIDE DEF q
  <1>2. /\ last[c][s] < q /\ q <= count[s]
        /\ \A m \in Range(inbox[c]) : m < q
    BY <1>1 DEF InboxOK, SeenOK, QueuesOK
  <1>3. /\ Append(inbox[c], q) \in Seq(Nat)
        /\ Range(inbox'[c]) = Range(inbox[c]) \cup {q}
        /\ Rising(inbox'[c])
    BY <1>0, <1>1, <1>2, AppendFacts DEF InboxOK
  <1>4. \A d \in Client : Reads(d)' = Reads(d) /\ Reads(d) \in Symbol
    BY ReadsSymbol DEF BusTypes, Reads
  <1>5. BusTypes'
    BY <1>0, <1>1, <1>3 DEF BusTypes, WatchOK, q
  <1>6. QueuesOK' /\ SeenOK'
    <2>1. \A t \in Symbol : \A m \in Range(queues'[t]) : m \in Range(queues[t])
      BY <1>0, <1>1
    <2> QED  BY <1>0, <1>1, <2>1 DEF QueuesOK, SeenOK
  <1>7. InboxOK'
    <2> SUFFICES ASSUME NEW d \in Client
                 PROVE  /\ Rising(inbox'[d])
                        /\ \A m \in Range(inbox'[d]) :
                               /\ last[d][Reads(d)] < m /\ m <= count[Reads(d)]
                               /\ \A later \in Range(queues'[Reads(d)]) : m < later
      BY <1>4 DEF InboxOK
    <2>1. \A later \in Range(queues'[Reads(d)]) : later \in Range(queues[Reads(d)])
      BY <1>0, <1>1, <1>4
    <2>2. CASE d = c
      BY <1>1, <1>2, <1>3, <2>1, <2>2 DEF InboxOK
    <2>3. CASE d # c
      BY <1>0, <2>1, <2>3 DEF InboxOK
    <2> QED  BY <2>2, <2>3
  <1>8. ApartOK'
    <2>1. \A d \in Client : d # c /\ Reads(d) = s => q \notin Range(inbox[d])
      BY <1>1, QueuedIsUnsent
    <2>2. \A d \in Client : \A m :
              m \in Range(inbox'[d]) <=> m \in Range(inbox[d]) \/ (d = c /\ m = q)
      BY <1>0, <1>3
    <2> SUFFICES ASSUME NEW d \in Client, NEW e \in Client, d # e, Reads(d) = Reads(e),
                        NEW m \in Range(inbox'[d]), m \in Range(inbox'[e])
                 PROVE  FALSE
      BY <1>4 DEF ApartOK
    <2>3. CASE m # q
      BY <2>2, <2>3 DEF PlacesOK, ApartOK
    <2>4. CASE m = q
      <3>1. d = c \/ e = c
        BY <2>2, <2>4 DEF PlacesOK, ApartOK
      <3> QED  BY <2>1, <2>2, <2>4, <3>1
    <2> QED  BY <2>3, <2>4
  <1>9. ASSUME NEW t \in Symbol
        PROVE  InOnePlace(t)'
    <2>1. \A m : m \in InFlight(t)' <=> m \in InFlight(t)
      <3>1. \A d \in Client : \A m :
                m \in Range(inbox'[d]) <=> m \in Range(inbox[d]) \/ (d = c /\ m = q)
        BY <1>0, <1>3
      <3>2. \A m : m \in Range(queues[t]) <=>
                m \in Range(queues'[t]) \/ (t = s /\ m = q)
        BY <1>0, <1>1
      <3> QED  BY <1>4, <3>1, <3>2, SentOn, SentOnNext
    <2> QED  BY <2>1 DEF PlacesOK, InOnePlace
  <1> QED  BY <1>5, <1>6, <1>7, <1>8, <1>9 DEF PlacesOK

\* The broker hands a quote to a closed generator.
LEMMA DropsInv ==
    ASSUME Inv, NEW s \in Symbol, queues[s] # <<>>,
           queues' = [queues EXCEPT ![s] = Tail(@)],
           lost' = [lost EXCEPT ![s] = @ \cup {Head(queues[s])}],
           UNCHANGED <<count, watch, inbox, delivered, last>>
    PROVE  Inv'
  <1> USE DEF Inv
  <1> DEFINE q == Head(queues[s])
  <1>0. /\ queues[s] \in Seq(Nat) /\ queues'[s] = Tail(queues[s])
        /\ \A t \in Symbol : t # s => queues'[t] = queues[t] /\ lost'[t] = lost[t]
        /\ lost'[s] = lost[s] \cup {q}
    BY DEF BusTypes
  <1>1. /\ q \in Nat /\ Tail(queues[s]) \in Seq(Nat)
        /\ Range(queues[s]) = {q} \cup Range(queues'[s])
        /\ Rising(queues'[s])
        /\ \A later \in Range(queues'[s]) : q < later
    BY <1>0, TailFacts DEF QueuesOK
  <1>2. BusTypes'
    BY <1>1 DEF BusTypes, WatchOK
  <1> HIDE DEF q
  <1>3. \A t \in Symbol : \A m \in Range(queues'[t]) : m \in Range(queues[t])
    BY <1>0, <1>1
  <1>4. QueuesOK' /\ SeenOK'
    BY <1>0, <1>1, <1>3 DEF QueuesOK, SeenOK
  <1>5. \A d \in Client : Reads(d)' = Reads(d) /\ Reads(d) \in Symbol
    BY ReadsSymbol DEF BusTypes, Reads
  <1>6. InboxOK' /\ ApartOK'
    BY <1>3, <1>5 DEF InboxOK, ApartOK, PlacesOK
  <1>7. ASSUME NEW t \in Symbol, t # s
        PROVE  InOnePlace(t)'
    <2>1. \A m : m \in InFlight(t)' <=> m \in InFlight(t)
      BY <1>0, <1>5, <1>7, SentOn, SentOnNext
    <2> QED  BY <1>0, <1>7, <2>1 DEF PlacesOK, InOnePlace
  <1>8. InOnePlace(s)'
    <2>1. q \in InFlight(s)
      BY <1>1, SentOn
    <2>2. q \notin InFlight(s)'
      <3>1. q \notin Range(queues'[s])
        BY <1>1
      <3>2. \A d \in Client : Reads(d) = s => q \notin Range(inbox[d])
        BY <1>1, QueuedIsUnsent
      <3> QED  BY <1>5, <3>1, <3>2, SentOnNext
    <2>3. \A m : m \in InFlight(s) <=> m \in InFlight(s)' \/ m = q
      BY <1>1, <1>5, <2>1, SentOn, SentOnNext
    <2> QED  BY <1>0, <2>1, <2>2, <2>3 DEF PlacesOK, InOnePlace
  <1> QED  BY <1>2, <1>4, <1>6, <1>7, <1>8 DEF PlacesOK

\* The broker restarts with empty queues, and an open subscription of the watch ends.
LEMMA RestartInv ==
    ASSUME Inv, BrokerRestart
    PROVE  Inv'
  <1> USE DEF Inv
  <1>0. /\ \A s \in Symbol : queues'[s] = <<>> /\ Range(queues'[s]) = {}
        /\ \A s \in Symbol : lost'[s] = lost[s] \cup Range(queues[s])
               \cup (IF Consumes("watch", s) THEN Range(inbox["watch"]) ELSE {})
        /\ UNCHANGED <<count, delivered, last>>
    BY EmptyFacts DEF BrokerRestart
  <1>1. /\ WatchOK'
        /\ inbox' \in [Client -> Seq(Nat)]
        /\ \A c \in Client : c # "watch" \/ watch.at # "consuming" => inbox'[c] = inbox[c]
        /\ watch.at = "consuming" => inbox'["watch"] = <<>>
        /\ watch.at # "consuming" => watch' = watch
    <2>1. "watch" \in Client /\ <<>> \in Seq(Nat)
      BY EmptyFacts DEF Client
    <2>2. CASE watch.at = "consuming"
      <3>1. watch' \in [at: {"off", "connecting"}, pos: DOMAIN Wanted]
        <4>1. Wanted \in Seq(Symbol) /\ Wanted # <<>> /\ DOMAIN Wanted = 1..Len(Wanted)
          BY BusAssumption
        <4>2. watch.pos \in 1..Len(Wanted) /\ 1 \in 1..Len(Wanted)
          BY <4>1 DEF BusTypes, WatchOK
        <4>3. watch.pos < Len(Wanted) => watch.pos + 1 \in 1..Len(Wanted)
          BY <4>1, <4>2
        <4> QED  BY <2>2, <4>1, <4>2, <4>3 DEF BrokerRestart, Off
      <3>2. inbox' = [inbox EXCEPT !["watch"] = <<>>]
        BY <2>2 DEF BrokerRestart
      <3> QED  BY <2>1, <2>2, <3>1, <3>2 DEF BusTypes, WatchOK
    <2>3. CASE watch.at # "consuming"
      BY <2>3 DEF BrokerRestart, BusTypes, WatchOK
    <2> QED  BY <2>2, <2>3
  <1>2. /\ \A c \in Client : \A m \in Range(inbox'[c]) :
                m \in Range(inbox[c]) /\ Reads(c)' = Reads(c)
        /\ \A c \in Client : inbox'[c] = inbox[c] \/ inbox'[c] = <<>>
        /\ \A c \in Client : \A m \in Range(inbox[c]) :
                m \in Range(inbox'[c]) \/ (Consumes(c, Reads(c)) /\ c = "watch")
    <2> SUFFICES ASSUME NEW c \in Client
                 PROVE  /\ \A m \in Range(inbox'[c]) :
                              m \in Range(inbox[c]) /\ Reads(c)' = Reads(c)
                        /\ inbox'[c] = inbox[c] \/ inbox'[c] = <<>>
                        /\ \A m \in Range(inbox[c]) :
                              m \in Range(inbox'[c]) \/ (Consumes(c, Reads(c)) /\ c = "watch")
      OBVIOUS
    <2>1. CASE c = "watch" /\ watch.at = "consuming"
      BY <1>1, <2>1, EmptyFacts DEF Consumes
    <2>2. CASE c # "watch" \/ watch.at # "consuming"
      <3>1. Reads(c)' = Reads(c)
        BY <1>1, <2>2 DEF Reads
      <3> QED  BY <1>1, <2>2, <3>1
    <2> QED  BY <2>1, <2>2
  <1>3. BusTypes'
    <2>1. queues' = [s \in Symbol |-> <<>>] /\ \A s \in Symbol : lost'[s] \subseteq Nat
      <3>1. "watch" \in Client
        BY DEF Client
      <3>2. Range(inbox["watch"]) \subseteq Nat /\ \A s \in Symbol : Range(queues[s]) \subseteq Nat
        BY <3>1, RangeType DEF BusTypes
      <3> QED  BY <1>0, <3>2 DEF BusTypes, BrokerRestart
    <2> QED  BY <1>0, <1>1, <2>1, EmptyFacts DEF BusTypes, BrokerRestart
  <1>4. QueuesOK' /\ SeenOK'
    BY <1>0, EmptyFacts DEF QueuesOK, SeenOK
  <1>5. InboxOK'
    <2> SUFFICES ASSUME NEW c \in Client
                 PROVE  /\ Rising(inbox'[c])
                        /\ \A m \in Range(inbox'[c]) :
                               /\ last[c][Reads(c)'] < m /\ m <= count[Reads(c)']
                               /\ \A later \in Range(queues'[Reads(c)']) : m < later
      BY <1>0 DEF InboxOK
    <2>1. Rising(inbox'[c])
      BY <1>2, EmptyFacts DEF InboxOK
    <2>2. Reads(c) \in Symbol
      BY ReadsSymbol DEF BusTypes
    <2> QED  BY <1>0, <1>2, <2>1, <2>2 DEF InboxOK
  <1>6. ApartOK'
    BY <1>2 DEF PlacesOK, ApartOK
  <1>7. ASSUME NEW s \in Symbol
        PROVE  InOnePlace(s)'
    <2>1. \A m : m \in lost'[s] <=>
              \/ m \in lost[s]
              \/ m \in Range(queues[s])
              \/ (Consumes("watch", s) /\ m \in Range(inbox["watch"]))
      BY <1>0
    <2>2. "watch" \in Client /\ (Consumes("watch", s) => Reads("watch") = s)
      BY DEF Client, Consumes
    <2>3. \A m : m \in InFlight(s)' => m \in InFlight(s)
      <3>1. Range(queues'[s]) = {}
        BY <1>0
      <3> QED  BY <1>2, <3>1, SentOn, SentOnNext
    <2>4. \A m : m \in InFlight(s) => m \in InFlight(s)' \/ m \in lost'[s]
      <3> SUFFICES ASSUME NEW m \in InFlight(s), m \notin lost'[s]
                   PROVE  m \in InFlight(s)'
        OBVIOUS
      <3>1. PICK c \in Client : Reads(c) = s /\ m \in Range(inbox[c])
        BY <2>1, SentOn
      <3>2. ~(Consumes(c, s) /\ c = "watch")
        BY <2>1, <3>1
      <3>3. m \in Range(inbox'[c]) /\ Reads(c)' = Reads(c)
        BY <1>2, <3>1, <3>2
      <3> QED  BY <3>1, <3>3, SentOnNext
    <2>5. \A m : m \in lost'[s] => m \in lost[s] \/ m \in InFlight(s)
      BY <2>1, <2>2, SentOn
    <2>6. \A m \in InFlight(s)' : m \notin lost'[s]
      <3> SUFFICES ASSUME NEW m \in InFlight(s)', m \in lost'[s]
                   PROVE  FALSE
        OBVIOUS
      <3>1. PICK c \in Client : Reads(c)' = s /\ m \in Range(inbox'[c])
        BY <1>0, SentOnNext
      <3>2. m \in Range(inbox[c]) /\ Reads(c) = s
        BY <1>2, <3>1
      <3>3. m \notin Range(queues[s])
        BY <3>2, QueuedIsUnsent
      <3>4. m \notin lost[s]
        BY <2>3 DEF PlacesOK, InOnePlace
      <3>5. Consumes("watch", s) /\ m \in Range(inbox["watch"])
        BY <2>1, <3>3, <3>4
      <3>6. c = "watch"
        BY <2>2, <3>2, <3>5 DEF PlacesOK, ApartOK
      <3> QED  BY <1>1, <3>1, <3>5, <3>6, EmptyFacts DEF Consumes
    <2> QED  BY <1>0, <2>3, <2>4, <2>5, <2>6 DEF PlacesOK, InOnePlace
  <1> QED  BY <1>3, <1>4, <1>5, <1>6, <1>7 DEF PlacesOK

-----------------------------------------------------------------------------
(* The specification. *)

LEMMA InvInit == Init => Inv
  <1> SUFFICES ASSUME Init
               PROVE  Inv
    OBVIOUS
  <1>1. /\ \A s \in Symbol : queues[s] = <<>> /\ Range(queues[s]) = {} /\ count[s] = 0
        /\ \A c \in Client : inbox[c] = <<>> /\ Range(inbox[c]) = {}
        /\ \A c \in Client, s \in Symbol : last[c][s] = 0
        /\ Rising(<<>>) /\ 0 \in Nat
    BY EmptyFacts DEF Init
  <1>2. WatchOK
    <2>1. Wanted \in Seq(Symbol) /\ Wanted # <<>> => 1 \in DOMAIN Wanted
      OBVIOUS
    <2>2. "watch" \in Client
      BY DEF Client
    <2> QED  BY <1>1, <2>1, <2>2, BusAssumption DEF Init, Off, WatchOK
  <1>3. BusTypes
    BY <1>1, <1>2, EmptyFacts DEF Init, BusTypes
  <1>4. QueuesOK /\ SeenOK /\ InboxOK /\ ApartOK
    <2>1. QueuesOK
      BY <1>1, Zenon DEF QueuesOK
    <2>2. SeenOK
      <3>1. 0 <= 0
        OBVIOUS
      <3> QED  BY <1>1, <3>1, Zenon DEF SeenOK
    <2>3. InboxOK /\ ApartOK
      BY <1>1 DEF InboxOK, ApartOK
    <2> QED  BY <2>1, <2>2, <2>3
  <1>5. ASSUME NEW s \in Symbol
        PROVE  InOnePlace(s)
    <2>1. InFlight(s) = {}
      BY <1>1, SentOn
    <2> QED  BY <1>1, <2>1 DEF Init, InOnePlace
  <1> QED  BY <1>3, <1>4, <1>5 DEF Inv, PlacesOK

\* Steps that only concern threads, workers and connections.
LEMMA StaysInv ==
    ASSUME Inv, UNCHANGED <<count, queues, watch, inbox, account>>
    PROVE  Inv'
  <1>1. WatchOK' /\ Kept
    BY DEF Inv, BusTypes, WatchOK, Kept, Reads
  <1> QED  BY <1>1, QuietInv

LEMMA WatchMovesInv ==
    ASSUME Inv, WatchStart \/ WatchConnect
    PROVE  Inv'
  <1>1. UNCHANGED <<count, queues, inbox, account>> /\ watch.at # "consuming"
    BY DEF WatchStart, WatchConnect
  <1>2. inbox'["watch"] = <<>>
    BY <1>1 DEF Inv, BusTypes, WatchOK
  <1>3. WatchOK'
    <2>1. Wanted \in Seq(Symbol) /\ Wanted # <<>> => 1 \in DOMAIN Wanted
      OBVIOUS
    <2> QED  BY <1>2, <2>1, BusAssumption DEF Inv, BusTypes, WatchOK, WatchStart, WatchConnect
  <1>4. Kept
    BY <1>2 DEF Kept, Reads
  <1> QED  BY <1>1, <1>3, <1>4, QuietInv

LEMMA WatchEndInv ==
    ASSUME Inv, WatchEnd
    PROVE  Inv'
  <1>1. "watch" \in Client /\ Reads("watch") \in Symbol
    BY ReadsSymbol DEF Client, Inv, BusTypes
  <1>2. inbox' = [inbox EXCEPT !["watch"] = <<>>] /\ inbox'["watch"] = <<>>
    BY <1>1 DEF WatchEnd, Inv, BusTypes
  <1>3. WatchOK'
    <2>1. Wanted \in Seq(Symbol) /\ Wanted # <<>> => 1 \in DOMAIN Wanted
      OBVIOUS
    <2> QED  BY <1>2, <2>1, BusAssumption DEF WatchOK, WatchEnd, Off
  <1>4. Kept
    BY <1>2 DEF Kept, Reads
  <1> QED  BY <1>1, <1>2, <1>3, <1>4, DiscardsInv DEF WatchEnd

LEMMA ClosesInv ==
    ASSUME Inv, NEW c \in Stream, CloseGenerator(c),
           UNCHANGED <<count, queues, watch, delivered, last>>
    PROVE  Inv'
  <1>1. c \in Client /\ Reads(c) \in Symbol /\ c # "watch"
    BY ReadsSymbol, BusAssumption DEF Client, Inv, BusTypes
  <1>2. WatchOK' /\ Kept
    BY <1>1 DEF CloseGenerator, Inv, BusTypes, WatchOK, Kept, Reads
  <1> QED  BY <1>1, <1>2, DiscardsInv DEF CloseGenerator

LEMMA DeliverInv ==
    ASSUME Inv, NEW c \in Client, NEW s \in Symbol, Deliver(c, s)
    PROVE  Inv'
  <1>1. CASE Listens(c)
    BY <1>1, DeliversInv DEF Deliver, Consumes, account
  <1>2. CASE ~Listens(c)
    BY <1>2, DropsInv DEF Deliver
  <1> QED  BY <1>1, <1>2

LEMMA InvStep ==
    ASSUME Inv, [Next]_vars
    PROVE  Inv' /\ \A c \in Client, s \in Symbol : last'[c][s] >= last[c][s]
  <1> DEFINE Forward == \A c \in Client, s \in Symbol : last'[c][s] >= last[c][s]
  <1>0. last' = last => Forward
    BY DEF Inv, BusTypes
  <1>1. ASSUME NEW s \in Symbol, Publish(s)
        PROVE  Inv' /\ Forward
    BY <1>0, <1>1, PublishesInv DEF Publish, account, web
  <1>2. ASSUME NEW s \in Symbol, PublishFails(s)
        PROVE  Inv' /\ Forward
    BY <1>0, <1>2, PublishesInv, StaysInv DEF PublishFails, account, web
  <1>3. ASSUME WatchQuote
        PROVE  Inv' /\ Forward
    <2>1. "watch" \in Client /\ Wanted[watch.pos] = Reads("watch") /\ Reads("watch") \in Symbol
      BY ReadsSymbol DEF Client, Reads, Inv, BusTypes
    <2> QED  BY <1>3, <2>1, LooksInv DEF WatchQuote
  <1>4. ASSUME NEW c \in Stream, StreamQuote(c)
        PROVE  Inv' /\ Forward
    <2>1. c \in Client /\ SymbolOf[c] = Reads(c) /\ Reads(c) \in Symbol
      BY ReadsSymbol, BusAssumption DEF Client, Reads, Inv, BusTypes
    <2> QED  BY <1>4, <2>1, LooksInv DEF StreamQuote
  <1>5. ASSUME NEW c \in Stream, StreamLeft(c) \/ StreamPing(c)
        PROVE  Inv' /\ Forward
    BY <1>0, <1>5, ClosesInv DEF StreamLeft, StreamPing
  <1>6. ASSUME WatchStart \/ WatchConnect
        PROVE  Inv' /\ Forward
    BY <1>0, <1>6, WatchMovesInv DEF WatchStart, WatchConnect, account
  <1>7. ASSUME WatchEnd
        PROVE  Inv' /\ Forward
    BY <1>0, <1>7, WatchEndInv DEF WatchEnd
  <1>8. ASSUME NEW c \in Client, NEW s \in Symbol, Deliver(c, s)
        PROVE  Inv' /\ Forward
    BY <1>0, <1>8, DeliverInv DEF Deliver
  <1>9. ASSUME BrokerRestart
        PROVE  Inv' /\ Forward
    BY <1>0, <1>9, RestartInv DEF BrokerRestart
  <1>10. ASSUME UNCHANGED <<count, queues, watch, inbox, account>>
         PROVE  Inv' /\ Forward
    BY <1>0, <1>10, StaysInv DEF account
  <1>11. ASSUME NEW s \in Symbol, \/ \E f \in Frame : Receive(s, f)
                                  \/ PassOver(s) \/ FirehoseDrops(s)
         PROVE  Inv' /\ Forward
    BY <1>10, <1>11 DEF Receive, PassOver, FirehoseDrops
  <1>12. ASSUME NEW c \in Stream, \/ StreamOpen(c) \/ StreamEnds(c)
                                  \/ ThreadConnect(c) \/ ThreadFails(c) \/ ThreadStops(c)
         PROVE  Inv' /\ Forward
    BY <1>10, <1>12 DEF StreamOpen, StreamEnds, ThreadConnect, ThreadFails, ThreadStops
  <1>13. ASSUME (\E on \in SUBSET Symbol : EngineStart(on)) \/ EngineStop
         PROVE  Inv' /\ Forward
    BY <1>10, <1>13 DEF EngineStart, EngineStop
  <1>14. ASSUME UNCHANGED vars
         PROVE  Inv' /\ Forward
    BY <1>10, <1>14 DEF vars
  <1> HIDE DEF Forward
  <1>15. ASSUME NEW s \in Symbol, \/ \E f \in Frame : Receive(s, f)
                                  \/ PassOver(s) \/ Publish(s) \/ PublishFails(s)
                                  \/ FirehoseDrops(s)
         PROVE  Inv' /\ Forward
    BY <1>1, <1>2, <1>11, <1>15
  <1>16. ASSUME NEW c \in Stream,
                \/ StreamOpen(c) \/ StreamQuote(c) \/ StreamLeft(c)
                \/ StreamPing(c) \/ StreamEnds(c)
                \/ ThreadConnect(c) \/ ThreadFails(c) \/ ThreadStops(c)
         PROVE  Inv' /\ Forward
    BY <1>4, <1>5, <1>12, <1>16
  <1>17. ASSUME Next
         PROVE  Inv' /\ Forward
    <2>1. CASE \E s \in Symbol : \/ \E f \in Frame : Receive(s, f)
                                 \/ PassOver(s) \/ Publish(s) \/ PublishFails(s)
                                 \/ FirehoseDrops(s)
      BY <1>15, <2>1
    <2>2. CASE \E c \in Stream :
                   \/ StreamOpen(c) \/ StreamQuote(c) \/ StreamLeft(c)
                   \/ StreamPing(c) \/ StreamEnds(c)
                   \/ ThreadConnect(c) \/ ThreadFails(c) \/ ThreadStops(c)
      BY <1>16, <2>2
    <2>3. CASE \E c \in Client, s \in Symbol : Deliver(c, s)
      BY <1>8, <2>3
    <2> QED
      BY <1>3, <1>6, <1>7, <1>9, <1>13, <1>17, <2>1, <2>2, <2>3 DEF Next
  <1> QED  BY <1>14, <1>17 DEF Forward

LEMMA Invariance == Spec => []Inv
  <1>1. Inv /\ [Next]_vars => Inv'
    BY InvStep
  <1> QED  BY InvInit, <1>1, PTL DEF Spec

-----------------------------------------------------------------------------
(* Frames, processes, and the bounds. *)

LEMMA FramesInit == Init => FramesOK /\ ProcessesOK
  <1> SUFFICES ASSUME Init
               PROVE  FramesOK /\ ProcessesOK
    OBVIOUS
  <1>1. \A s \in Symbol : UsableIn(<<>>, s) = 0
    BY UsableFacts, EmptyFacts
  <1>2. FramesOK
    BY <1>1, EmptyFacts, BusAssumption DEF Init, FramesOK
  <1> QED  BY <1>2 DEF Init, ProcessesOK

\* One symbol's part changes, and adds up again.
LEMMA FramesOfOne ==
    ASSUME FramesOK, NEW s \in Symbol, NEW g \in Seq(ElementOf(Symbol)),
           frame' = [frame EXCEPT ![s] = g],
           received' \in [Symbol -> 0..MaxQuote], dropped' \in [Symbol -> Nat],
           \A t \in Symbol : t # s => /\ received'[t] = received[t]
                                     /\ dropped'[t] = dropped[t]
                                     /\ count'[t] = count[t],
           received'[s] = count'[s] + dropped'[s] + UsableIn(g, s)
    PROVE  FramesOK'
  <1>1. frame' \in [Symbol -> Seq(ElementOf(Symbol))]
    BY DEF FramesOK
  <1>2. ASSUME NEW t \in Symbol
        PROVE  received'[t] = count'[t] + dropped'[t] + UsableIn(frame'[t], t)
    <2>1. CASE t = s
      BY <2>1 DEF FramesOK
    <2>2. CASE t # s
      BY <2>2 DEF FramesOK
    <2> QED  BY <2>1, <2>2
  <1> QED  BY <1>1, <1>2 DEF FramesOK

\* A worker looks at the head of its frame, and gives up the rest when publishing
\* fails; the engine gives up the frames of all of them.
LEMMA FramesStep ==
    ASSUME BusTypes, FramesOK, [Next]_vars
    PROVE  FramesOK'
  <1> USE DEF BusTypes, FramesOK
  <1>0. \A s \in Symbol :
            /\ count[s] \in Nat /\ dropped[s] \in Nat /\ received[s] \in 0..MaxQuote
            /\ frame[s] \in Seq(ElementOf(Symbol))
            /\ UsableIn(frame[s], s) \in Nat
            /\ received[s] = count[s] + dropped[s] + UsableIn(frame[s], s)
    BY UsableFacts
  <1>1. /\ <<>> \in Seq(ElementOf(Symbol))
        /\ \A s \in Symbol : UsableIn(<<>>, s) = 0
    BY UsableFacts, EmptyFacts
  <1>2. ASSUME UNCHANGED <<count, firehose>>
        PROVE  FramesOK'
    BY <1>2 DEF firehose
  <1>3. ASSUME NEW s \in Symbol, frame[s] # <<>>
        PROVE  /\ Tail(frame[s]) \in Seq(ElementOf(Symbol))
               /\ UsableIn(Tail(frame[s]), s) \in Nat
               /\ UsableIn(frame[s], s) = UsableIn(Tail(frame[s]), s)
                      + (IF Usable(Head(frame[s]), s) THEN 1 ELSE 0)
    <2>1. Tail(frame[s]) \in Seq(ElementOf(Symbol))
      BY <1>0, <1>3
    <2> QED  BY <1>0, <1>3, <2>1, UsableFacts
  <1>4. ASSUME NEW s \in Symbol, NEW f \in Frame, Receive(s, f)
        PROVE  FramesOK'
    <2>1. f \in Seq(ElementOf(Symbol)) /\ UsableIn(f, s) \in Nat /\ MaxQuote \in Nat
      <3>1. f \in Seq(ElementOf(Symbol)) /\ MaxQuote \in Nat
        BY BusAssumption
      <3> QED  BY <3>1, UsableFacts
    <2>2. /\ frame' = [frame EXCEPT ![s] = f]
          /\ received' = [received EXCEPT ![s] = @ + UsableIn(f, s)]
          /\ UNCHANGED <<count, dropped>>
          /\ UsableIn(frame[s], s) = 0 /\ received[s] + UsableIn(f, s) <= MaxQuote
      BY <1>1, <1>4 DEF Receive
    <2>3. /\ received' \in [Symbol -> 0..MaxQuote]
          /\ received'[s] = received[s] + UsableIn(f, s)
          /\ \A t \in Symbol : t # s => received'[t] = received[t]
      BY <1>0, <2>1, <2>2
    <2>4. received'[s] = count'[s] + dropped'[s] + UsableIn(f, s)
      BY <1>0, <2>1, <2>2, <2>3
    <2> QED  BY <2>1, <2>2, <2>3, <2>4, FramesOfOne
  <1>5. ASSUME NEW s \in Symbol, PassOver(s)
        PROVE  FramesOK'
    <2>1. /\ frame' = [frame EXCEPT ![s] = Tail(frame[s])]
          /\ UNCHANGED <<count, dropped, received>>
          /\ frame[s] # <<>> /\ UsableIn(frame[s], s) = UsableIn(Tail(frame[s]), s)
      BY <1>3, <1>5 DEF PassOver
    <2> QED  BY <1>0, <1>3, <2>1, FramesOfOne
  <1>6. ASSUME NEW s \in Symbol, Publish(s)
        PROVE  FramesOK'
    <2>1. /\ frame' = [frame EXCEPT ![s] = Tail(frame[s])]
          /\ UNCHANGED <<dropped, received>>
          /\ count' = [count EXCEPT ![s] = @ + 1]
          /\ frame[s] # <<>> /\ UsableIn(frame[s], s) = UsableIn(Tail(frame[s]), s) + 1
      BY <1>3, <1>6 DEF Publish
    <2>2. count'[s] = count[s] + 1 /\ \A t \in Symbol : t # s => count'[t] = count[t]
      BY <2>1
    <2>3. received'[s] = count'[s] + dropped'[s] + UsableIn(Tail(frame[s]), s)
      BY <1>0, <1>3, <2>1, <2>2
    <2> QED  BY <1>3, <2>1, <2>2, <2>3, FramesOfOne
  <1>7. ASSUME NEW s \in Symbol, PublishFails(s)
        PROVE  FramesOK'
    <2>1. /\ frame' = [frame EXCEPT ![s] = <<>>] /\ UNCHANGED received
          /\ frame[s] # <<>> /\ UsableIn(frame[s], s) = UsableIn(Tail(frame[s]), s) + 1
          /\ UsableIn(Tail(frame[s]), s) \in Nat
      BY <1>3, <1>7 DEF PublishFails
    <2>2. CASE dropped' = [dropped EXCEPT ![s] = @ + UsableIn(frame[s], s)] /\ UNCHANGED count
      <3>1. received'[s] = count'[s] + dropped'[s] + UsableIn(<<>>, s)
        BY <1>0, <1>1, <2>1, <2>2
      <3>2. dropped' \in [Symbol -> Nat]
        BY <1>0, <2>2
      <3> QED  BY <1>1, <2>1, <2>2, <3>1, <3>2, FramesOfOne
    <2>3. CASE /\ dropped' = [dropped EXCEPT ![s] = @ + UsableIn(Tail(frame[s]), s)]
               /\ count' = [count EXCEPT ![s] = @ + 1]
      <3>1. /\ count'[s] = count[s] + 1
            /\ dropped'[s] = dropped[s] + UsableIn(Tail(frame[s]), s)
        BY <1>0, <2>3
      <3>2. received'[s] = count'[s] + dropped'[s] + UsableIn(<<>>, s)
        BY <1>0, <1>1, <2>1, <3>1
      <3>3. dropped' \in [Symbol -> Nat]
        BY <1>0, <2>1, <2>3
      <3> QED  BY <1>1, <2>1, <2>3, <3>2, <3>3, FramesOfOne
    <2> QED  BY <1>7, <2>2, <2>3 DEF PublishFails
  <1>8. ASSUME EngineEnds, UNCHANGED count
        PROVE  FramesOK'
    BY <1>0, <1>1, <1>8 DEF EngineEnds
  <1>9. CASE \E s \in Symbol : \/ \E f \in Frame : Receive(s, f)
                               \/ PassOver(s) \/ Publish(s) \/ PublishFails(s)
                               \/ FirehoseDrops(s)
    <2>1. ASSUME NEW s \in Symbol, FirehoseDrops(s)
          PROVE  FramesOK'
      BY <1>2, <2>1 DEF FirehoseDrops
    <2> QED  BY <1>4, <1>5, <1>6, <1>7, <1>9, <2>1
  <1>10. CASE EngineStop \/ BrokerRestart
    BY <1>8, <1>10 DEF EngineStop, BrokerRestart
  <1>11. CASE (\E on \in SUBSET Symbol : EngineStart(on)) \/ WatchStart \/ WatchConnect
              \/ WatchQuote \/ WatchEnd \/ UNCHANGED vars
    BY <1>2, <1>11
       DEF EngineStart, WatchStart, WatchConnect, WatchQuote, WatchEnd, server, vars
  <1>12. CASE \E c \in Stream :
                  \/ StreamOpen(c) \/ StreamQuote(c) \/ StreamLeft(c)
                  \/ StreamPing(c) \/ StreamEnds(c)
                  \/ ThreadConnect(c) \/ ThreadFails(c) \/ ThreadStops(c)
    BY <1>2, <1>12
       DEF StreamOpen, StreamQuote, StreamLeft, StreamPing, StreamEnds, ThreadConnect,
           ThreadFails, ThreadStops, server
  <1>13. CASE \E c \in Client, s \in Symbol : Deliver(c, s)
    BY <1>2, <1>13 DEF Deliver, server
  <1> QED  BY <1>9, <1>10, <1>11, <1>12, <1>13 DEF Next

LEMMA ProcessesStep ==
    ASSUME ProcessesOK, [Next]_vars
    PROVE  ProcessesOK'
  <1> USE DEF ProcessesOK
  <1>1. ASSUME NEW c \in Stream, StreamLeft(c) \/ StreamPing(c)
        PROVE  ProcessesOK'
    BY <1>1 DEF StreamLeft, StreamPing, CloseGenerator, server
  <1>2. ASSUME NEW c \in Stream,
               \/ StreamOpen(c) \/ StreamQuote(c) \/ StreamEnds(c)
               \/ ThreadConnect(c) \/ ThreadFails(c) \/ ThreadStops(c)
        PROVE  ProcessesOK'
    BY <1>2
       DEF StreamOpen, StreamQuote, StreamEnds, ThreadConnect, ThreadFails, ThreadStops,
           server, web
  <1>3. CASE \E c \in Stream :
                  \/ StreamOpen(c) \/ StreamQuote(c) \/ StreamLeft(c)
                  \/ StreamPing(c) \/ StreamEnds(c)
                  \/ ThreadConnect(c) \/ ThreadFails(c) \/ ThreadStops(c)
    BY <1>1, <1>2, <1>3
  <1>4. ASSUME NEW s \in Symbol, \/ \E f \in Frame : Receive(s, f)
                                 \/ PassOver(s) \/ Publish(s) \/ PublishFails(s)
                                 \/ FirehoseDrops(s)
        PROVE  ProcessesOK'
    BY <1>4 DEF Receive, PassOver, Publish, PublishFails, FirehoseDrops, web
  <1>5. CASE (\E on \in SUBSET Symbol : EngineStart(on)) \/ EngineStop
             \/ BrokerRestart \/ UNCHANGED vars
    BY <1>5 DEF EngineStart, EngineStop, BrokerRestart, EngineEnds, web, server, vars
  <1>6. CASE WatchStart \/ WatchConnect \/ WatchQuote \/ WatchEnd
    BY <1>6 DEF WatchStart, WatchConnect, WatchQuote, WatchEnd, web, server
  <1>7. CASE \E c \in Client, s \in Symbol : Deliver(c, s)
    BY <1>7 DEF Deliver, web, server
  <1> QED  BY <1>3, <1>4, <1>5, <1>6, <1>7 DEF Next

\* The bounds of the quotes follow from where they are.
LEMMA WithinBounds ==
    ASSUME Inv, FramesOK, ProcessesOK
    PROVE  TypeOK
  <1> USE DEF Inv, BusTypes, FramesOK, PlacesOK
  <1>1. MaxQuote \in Nat
    BY BusAssumption
  <1>2. ASSUME NEW s \in Symbol
        PROVE  count[s] \in 0..MaxQuote /\ dropped[s] \in 0..MaxQuote
    <2>1. /\ count[s] \in Nat /\ dropped[s] \in Nat /\ UsableIn(frame[s], s) \in Nat
          /\ received[s] \in 0..MaxQuote
          /\ received[s] = count[s] + dropped[s] + UsableIn(frame[s], s)
      BY UsableFacts
    <2> QED  BY <1>1, <2>1
  <1>3. ASSUME NEW s \in Symbol
        PROVE  1..count[s] \subseteq Quote
    BY <1>1, <1>2 DEF Quote
  <1>4. ASSUME NEW s \in Symbol
        PROVE  InFlight(s) \subseteq Quote /\ delivered[s] \subseteq Quote /\ lost[s] \subseteq Quote
    BY <1>3 DEF InOnePlace
  <1>5. \A q \in Seq(Nat) : Range(q) \subseteq Quote => q \in Seq(Quote)
    BY DEF Range
  <1>6. queues \in [Symbol -> Seq(Quote)]
    <2>1. \A s \in Symbol : Range(queues[s]) \subseteq Quote
      BY <1>4, SentOn
    <2> QED  BY <1>5, <2>1
  <1>7. inbox \in [Client -> Seq(Quote)]
    <2>1. \A c \in Client : Range(inbox[c]) \subseteq Quote
      BY <1>4, SentOn, ReadsSymbol
    <2> QED  BY <1>5, <2>1
  <1>8. last \in [Client -> [Symbol -> 0..MaxQuote]]
    <2>1. ASSUME NEW c \in Client, NEW s \in Symbol
          PROVE  last[c][s] \in 0..MaxQuote
      <3>1. last[c][s] \in Nat /\ last[c][s] <= count[s]
        BY DEF SeenOK
      <3> QED  BY <1>1, <1>2, <3>1
    <2> QED  BY <2>1
  <1>9. /\ count \in [Symbol -> 0..MaxQuote] /\ dropped \in [Symbol -> 0..MaxQuote]
        /\ delivered \in [Symbol -> SUBSET Quote] /\ lost \in [Symbol -> SUBSET Quote]
    BY <1>2, <1>4
  <1> QED  BY <1>6, <1>7, <1>8, <1>9 DEF TypeOK, ProcessesOK, WatchOK

-----------------------------------------------------------------------------
(* Theorems. *)

LEMMA FullInvariance == Spec => [](Inv /\ FramesOK /\ ProcessesOK)
  <1>1. Inv /\ FramesOK /\ ProcessesOK /\ [Next]_vars => (FramesOK /\ ProcessesOK)'
    BY FramesStep, ProcessesStep DEF Inv
  <1>2. Inv /\ [Next]_vars => Inv'
    BY InvStep
  <1> QED  BY InvInit, FramesInit, <1>1, <1>2, PTL DEF Spec

\* Of any number of symbols, streams and quotes, every published quote is on its way,
\* shown to one client or lost, and in one of these places only (rabbitmq.py,
\* QueuePriceSource, live_ticks), and what a worker could use of its frames was
\* published, dropped or is still to be looked at (_handle_message).
THEOREM QuotesAreAccountedFor == Spec => []EveryQuoteIsAccountedFor
  <1>1. Inv /\ FramesOK /\ ProcessesOK => EveryQuoteIsAccountedFor
    BY WithinBounds DEF Inv, FramesOK, PlacesOK, EveryQuoteIsAccountedFor
  <1> QED  BY FullInvariance, <1>1, PTL

\* No client looks at an older quote of a symbol after a newer one, whatever the
\* broker, the engine and the other consumers of the subject do.
THEOREM SeenInOrder == Spec => QuotesAreSeenInOrder
  <1>1. Inv /\ [Next]_vars =>
            [\A c \in Client, s \in Symbol : last'[c][s] >= last[c][s]]_vars
    BY InvStep
  <1> QED  BY Invariance, <1>1, PTL DEF Spec, QuotesAreSeenInOrder
=============================================================================
