---------------------------- MODULE TriggerProofs ----------------------------
(***************************************************************************)
(* Proofs about TriggerStore and about RemoteTriggers, which extends it,   *)
(* for any number of clients, callers, workers, requests, triggers and     *)
(* sets.                                                                   *)
(*                                                                         *)
(* The store: its three invariants, none of which is inductive alone.      *)
(* What a command read must still hold of the tables when it writes, so    *)
(* the invariant says that ids are never given twice and that a row a      *)
(* command remembers by its id still has the name it had.  And that the    *)
(* store implements the catalog of the in-memory backend when commands     *)
(* take turns.                                                             *)
(*                                                                         *)
(* Remote commands: a definite answer is final, and what it says was so.   *)
(* The first invariant follows the numbers of requests: no two messages in *)
(* flight share one, a caller that waits has nothing of its command in     *)
(* flight but what it waits for, and an answer is in flight only after its *)
(* request is not.                                                         *)
(***************************************************************************)
EXTENDS RemoteTriggers, TLAPS

-----------------------------------------------------------------------------
(* The store. *)

RowsOK ==
    /\ \A r \in rows : r.id < next_id
    /\ \A r, q \in rows : r.id = q.id \/ r.name = q.name => r = q

\* What a command in progress remembers is still so.
CallOK(x) ==
    /\ x.at = "delete_row" =>
           x.id < next_id /\ \A r \in WithId(x.id) : r.name = x.name
    /\ x.at \in {"toggle_delete", "toggle_insert"} =>
           /\ x.row.id < next_id /\ \A r \in WithId(x.row.id) : r.name = x.row.name
           /\ x.row.name \in born \cup raced
    /\ x.at \in {"add_select", "add_insert"} => x.set \in sets

CallsOK == \A c \in Client : CallOK(calls[c])

Inv ==
    /\ RowsOK /\ CallsOK
    /\ MembersAreStored /\ CreatedIsAccountedFor /\ DeletedStaysDeleted

\* The fields of a command in progress.
LEMMA CallFields ==
    ASSUME NEW x \in Call
    PROVE  /\ x.at \in {"idle", "create_select", "delete_list", "delete_row", "toggle_select",
                        "toggle_delete", "toggle_insert", "toggle_refresh", "add_select",
                        "add_insert"}
           /\ x.at = "create_select" => x.key \in Key
           /\ x.at \in {"delete_list", "delete_row", "add_select", "add_insert"}
                  => x.name \in Name
           /\ x.at \in {"delete_row", "toggle_select", "toggle_refresh"} => x.id \in 1..MaxId
           /\ x.at \in {"toggle_select", "toggle_delete", "toggle_insert"}
                  => x.flag \in BOOLEAN
           /\ x.at \in {"toggle_delete", "toggle_insert"} => x.row \in Row
           /\ x.at \in {"add_select", "add_insert"} => x.set \in SetName
           /\ x.at = "toggle_delete" => [x EXCEPT !.at = "toggle_insert"] \in Call
                  /\ [x EXCEPT !.at = "toggle_insert"].row = x.row
                  /\ [x EXCEPT !.at = "toggle_insert"].at = "toggle_insert"
           /\ x.at = "add_select" => [x EXCEPT !.at = "add_insert"] \in Call
                  /\ [x EXCEPT !.at = "add_insert"].set = x.set
                  /\ [x EXCEPT !.at = "add_insert"].at = "add_insert"
  BY DEF Call, Idle

-----------------------------------------------------------------------------
(* The three things a step does. *)

\* The part of the client: it goes on with call, or ends.
Continues(c, call) ==
    /\ call \in Call
    /\ calls' = [calls EXCEPT ![c] = call]
    /\ answer' \in [Client -> Status]
    /\ effect' \in Effect
    /\ UNCHANGED serial

\* A step that leaves the triggers alone.  A toggle may drop a row it had taken out.
Moves(c, call) ==
    /\ Continues(c, call)
    /\ CallOK(call)
    /\ UNCHANGED <<rows, next_id, born, raced>>
    /\ sets \subseteq sets' /\ sets' \subseteq SetName
    /\ members' \subseteq SetName \X Name
    /\ \A m \in members' : m \in members \/ (m[1] \in sets /\ Stored(m[2]))
    /\ lost \subseteq lost' /\ lost' \subseteq Name
    /\ calls[c].at = "toggle_insert" => Stored(calls[c].row.name) \/ calls[c].row.name \in lost'

LEMMA MovesInv ==
    ASSUME Inv, NEW c \in Client, NEW call, Moves(c, call)
    PROVE  Inv'
  <1>1. /\ rows' = rows /\ next_id' = next_id /\ born' = born /\ raced' = raced
        /\ sets \subseteq sets' /\ lost \subseteq lost'
    BY DEF Moves
  <1>2. calls'[c] = call /\ \A d \in Client : d # c => calls'[d] = calls[d]
    BY DEF Moves, Continues, Inv, MembersAreStored, TypeOK
  <1>3. \A n : Stored(n)' <=> Stored(n)
    BY <1>1 DEF Stored
  <1>4. TypeOK'
    BY DEF Moves, Continues, Inv, MembersAreStored, TypeOK
  <1>5. RowsOK'
    BY <1>1 DEF Inv, RowsOK
  <1>6. CallsOK'
    <2>1. \A x : CallOK(x) => CallOK(x)'
      BY <1>1 DEF CallOK, WithId
    <2> QED  BY <2>1, <1>2 DEF Inv, CallsOK, Moves, CallOK, WithId
  <1>7. MembersAreStored'
    BY <1>1, <1>3, <1>4 DEF Moves, Inv, MembersAreStored
  <1>8. CreatedIsAccountedFor'
    <2>1. \A n : InFlight(n) => InFlight(n)' \/ Stored(n) \/ n \in lost'
      BY <1>2 DEF InFlight, Moves
    <2> QED  BY <2>1, <1>1, <1>3 DEF Inv, CreatedIsAccountedFor
  <1>9. DeletedStaysDeleted'
    BY <1>1, <1>3 DEF Inv, DeletedStaysDeleted
  <1> QED  BY <1>5, <1>6, <1>7, <1>8, <1>9 DEF Inv

\* A trigger of a free name gets a row.
Inserts(c, n, k, flag, call) ==
    /\ Continues(c, call) /\ call.at \in {"create_select", "toggle_refresh"}
    /\ n \in Name /\ k \in Key /\ flag \in BOOLEAN /\ ~Stored(n)
    /\ InsertRow(n, k, flag)
    /\ born' \in {born, born \cup {n}}
    /\ lost' = lost \ {n}
    /\ raced \ {n} \subseteq raced' /\ raced' \subseteq raced
    /\ n \in born' \cup raced'
    /\ calls[c].at = "toggle_insert" => calls[c].row.name = n

LEMMA InsertsInv ==
    ASSUME Inv, NEW c \in Client, NEW n, NEW k, NEW flag, NEW call,
           Inserts(c, n, k, flag, call)
    PROVE  Inv'
  <1> DEFINE new == [id |-> next_id, name |-> n, key |-> k, enabled |-> flag]
  <1>1. /\ rows' = rows \cup {new} /\ next_id' = next_id + 1 /\ next_id <= MaxId
        /\ sets' = sets /\ members' = members
    BY DEF Inserts, InsertRow
  <1>2. TypeOK
    BY DEF Inv, MembersAreStored
  <1>3. next_id \in 1..MaxId /\ MaxId \in Nat
    BY <1>1, <1>2, StoreAssumption DEF TypeOK
  <1>4. calls'[c] = call /\ \A d \in Client : d # c => calls'[d] = calls[d]
    BY <1>2 DEF Inserts, Continues, TypeOK
  <1>5. \A m : Stored(m)' <=> Stored(m) \/ m = n
    <2>1. new.name = n
      OBVIOUS
    <2> HIDE DEF new
    <2> QED  BY <1>1, <2>1 DEF Stored
  <1>6. \A m \in Name : m \in born \cup raced => m \in born' \cup raced'
    BY DEF Inserts
  <1>7. TypeOK'
    <2>1. new \in Row
      BY <1>3 DEF Inserts, Row
    <2>2. next_id + 1 \in 1..(MaxId + 1)
      BY <1>3
    <2> QED  BY <1>1, <1>2, <2>1, <2>2 DEF Inserts, Continues, TypeOK
  <1>8. RowsOK'
    <2>1. \A r \in rows : r.id < next_id /\ r.id \in Nat /\ r.name # n
      BY <1>2 DEF Inv, RowsOK, TypeOK, Row, Inserts, Stored
    <2>2. \A r, q \in rows : r.id = q.id \/ r.name = q.name => r = q
      BY DEF Inv, RowsOK
    <2>3. new.id = next_id /\ new.name = n
      OBVIOUS
    <2>4. \A r \in rows' : r.id < next_id'
      BY <1>1, <1>3, <2>1, <2>3
    <2>5. \A r, q \in rows' : r.id = q.id \/ r.name = q.name => r = q
      <3>1. \A r \in rows : r.id # new.id /\ r.name # new.name
        BY <1>3, <2>1, <2>3
      <3> HIDE DEF new
      <3> QED  BY <1>1, <2>2, <3>1
    <2> QED  BY <2>4, <2>5 DEF RowsOK
  <1>9. CallsOK'
    <2>1. \A i : i < next_id /\ i \in Nat => WithId(i)' = WithId(i) /\ i < next_id'
      BY <1>1, <1>3 DEF WithId
    <2>2. ASSUME NEW d \in Client, d # c PROVE CallOK(calls[d])'
      <3>1. calls[d] \in Call /\ CallOK(calls[d]) /\ calls'[d] = calls[d]
        BY <1>2, <1>4, <2>2 DEF Inv, CallsOK, TypeOK
      <3>2. CASE calls[d].at = "delete_row"
        <4>1. calls[d].id \in 1..MaxId
          BY <3>1, <3>2, CallFields
        <4>2. calls[d].id \in Nat
          BY <4>1, <1>3
        <4> QED  BY <2>1, <3>1, <3>2, <4>2 DEF CallOK
      <3>3. CASE calls[d].at \in {"toggle_delete", "toggle_insert"}
        <4>1. calls[d].row \in Row
          BY <3>1, <3>3, CallFields
        <4>2. calls[d].row.id \in Nat /\ calls[d].row.name \in Name
          BY <4>1, <1>3 DEF Row
        <4> QED  BY <2>1, <3>1, <3>3, <4>2, <1>6 DEF CallOK
      <3>4. CASE calls[d].at \notin {"delete_row", "toggle_delete", "toggle_insert"}
        BY <3>1, <3>4, <1>1 DEF CallOK
      <3> QED  BY <3>2, <3>3, <3>4
    <2>3. CallOK(call)'
      BY DEF Inserts, CallOK
    <2> QED  BY <1>4, <2>2, <2>3 DEF CallsOK
  <1>10. MembersAreStored'
    BY <1>1, <1>5, <1>7 DEF Inv, MembersAreStored
  <1>11. CreatedIsAccountedFor'
    <2>1. \A m : InFlight(m) => InFlight(m)' \/ m = n
      BY <1>4 DEF InFlight, Inserts
    <2> QED  BY <2>1, <1>5 DEF Inv, CreatedIsAccountedFor, Inserts
  <1>12. DeletedStaysDeleted'
    BY <1>5, <1>6 DEF Inv, DeletedStaysDeleted, Inserts
  <1> QED  BY <1>8, <1>9, <1>10, <1>11, <1>12 DEF Inv

\* The row of an id goes, for a delete command or into the hands of a toggle.
Deletes(c, i, n, call) ==
    /\ Continues(c, call)
    /\ n \in Name /\ \A r \in WithId(i) : r.name = n
    /\ DeleteRows(WithId(i))
    /\ \/ /\ call = Idle /\ calls[c].at = "delete_row"
          /\ born' = born \ {n} /\ lost' = lost \ {n}
          /\ raced' = IF WithId(i) = {} \/ Toggling(n) THEN raced \cup {n} ELSE raced
       \/ /\ call.at = "toggle_insert" /\ call.row.name = n /\ CallOK(call)
          /\ calls[c].at = "toggle_delete"
          /\ UNCHANGED <<born, lost, raced>>

LEMMA DeletesInv ==
    ASSUME Inv, NEW c \in Client, NEW i, NEW n, NEW call, Deletes(c, i, n, call)
    PROVE  Inv'
  <1>1. /\ rows' = rows \ WithId(i) /\ next_id' = next_id /\ sets' = sets
        /\ members' = {m \in members : \A r \in WithId(i) : m[2] # r.name}
    BY DEF Deletes, DeleteRows
  <1>2. TypeOK
    BY DEF Inv, MembersAreStored
  <1>3. calls'[c] = call /\ \A d \in Client : d # c => calls'[d] = calls[d]
    BY <1>2 DEF Deletes, Continues, TypeOK
  <1>4. \A m : m # n => (Stored(m)' <=> Stored(m))
    BY <1>1 DEF Stored, Deletes
  <1>5. TypeOK'
    BY <1>1, <1>2 DEF Deletes, Continues, TypeOK
  <1>6. RowsOK'
    BY <1>1 DEF Inv, RowsOK
  <1>7. \A j : WithId(j)' \subseteq WithId(j)
    BY <1>1 DEF WithId
  <1>8. CallsOK'
    <2>1. ASSUME NEW d \in Client, d # c PROVE CallOK(calls[d])'
      <3>1. CallOK(calls[d]) /\ calls'[d] = calls[d]
        BY <1>3, <2>1 DEF Inv, CallsOK
      <3>2. calls[d].at \in {"toggle_delete", "toggle_insert"}
                => calls[d].row.name \in born' \cup raced'
        BY <3>1 DEF CallOK, Deletes, Toggling
      <3> QED  BY <1>1, <1>7, <3>1, <3>2 DEF CallOK
    <2>2. CallOK(call)'
      BY <1>1, <1>7 DEF Deletes, CallOK, Idle
    <2> QED  BY <1>3, <2>1, <2>2 DEF CallsOK
  <1>9. MembersAreStored'
    <2>1. ASSUME NEW m \in members' PROVE m[1] \in sets' /\ Stored(m[2])'
      <3>1. m[1] \in sets /\ Stored(m[2])
        BY <1>1, <2>1 DEF Inv, MembersAreStored
      <3>2. PICK r \in rows : r.name = m[2]
        BY <3>1 DEF Stored
      <3>3. r \notin WithId(i)
        BY <1>1, <2>1, <3>2
      <3> QED  BY <1>1, <3>1, <3>2, <3>3 DEF Stored
    <2> QED  BY <1>5, <2>1 DEF MembersAreStored
  <1>10. CreatedIsAccountedFor'
    <2>1. \A m : InFlight(m) => InFlight(m)'
      BY <1>3 DEF InFlight, Deletes
    <2>2. n \in born' => InFlight(n)'
      BY <1>3 DEF InFlight, Deletes
    <2>3. \A m \in born' : m # n => m \in born /\ (m \in lost => m \in lost')
      BY DEF Deletes
    <2> QED  BY <2>1, <2>2, <2>3, <1>4 DEF Inv, CreatedIsAccountedFor
  <1>11. DeletedStaysDeleted'
    <2>1. \A m \in Name : m # n /\ m \in born \cup raced => m \in born' \cup raced'
      BY DEF Deletes
    <2>2. Stored(n)' => n \in born' \cup raced'
      <3> SUFFICES ASSUME Stored(n)' PROVE n \in born' \cup raced'
        OBVIOUS
      <3>1. PICK q \in rows : q.name = n /\ q \notin WithId(i)
        BY <1>1 DEF Stored
      <3>2. WithId(i) = {}
        BY <3>1 DEF Deletes, Inv, RowsOK, WithId
      <3>3. n \in born \cup raced
        BY <3>1 DEF Inv, DeletedStaysDeleted, Stored, Deletes
      <3> QED  BY <3>2, <3>3 DEF Deletes
    <2> QED  BY <1>4, <2>1, <2>2 DEF Inv, DeletedStaysDeleted
  <1> QED  BY <1>6, <1>8, <1>9, <1>10, <1>11 DEF Inv

-----------------------------------------------------------------------------
(* Every step is one of these. *)

LEMMA InitInv == Init => Inv
  <1> SUFFICES ASSUME Init PROVE Inv
    OBVIOUS
  <1>1. TypeOK
    BY StoreAssumption DEF Init, TypeOK, Call, Status, Effect, NoEffect
  <1>2. rows = {} /\ members = {} /\ born = {} /\ \A c \in Client : calls[c].at = "idle"
    BY DEF Init, Idle
  <1> QED
    BY <1>1, <1>2 DEF Inv, RowsOK, CallsOK, CallOK, MembersAreStored, CreatedIsAccountedFor,
                      DeletedStaysDeleted, Stored

\* Idle and every kind of next statement is a call.
LEMMA CallKinds ==
    /\ Idle \in Call /\ Idle.at = "idle"
    /\ \A k \in Key : [at |-> "create_select", key |-> k] \in Call
    /\ \A n \in Name : [at |-> "delete_list", name |-> n] \in Call
    /\ \A i \in 1..MaxId, n \in Name : [at |-> "delete_row", id |-> i, name |-> n] \in Call
    /\ \A i \in 1..MaxId, flag \in BOOLEAN :
           [at |-> "toggle_select", id |-> i, flag |-> flag] \in Call
    /\ \A r \in Row, flag \in BOOLEAN :
           [at |-> "toggle_delete", row |-> r, flag |-> flag] \in Call
    /\ \A i \in 1..MaxId : [at |-> "toggle_refresh", id |-> i] \in Call
    /\ \A s \in SetName, n \in Name : [at |-> "add_select", set |-> s, name |-> n] \in Call
  BY DEF Call, Idle

LEMMA Typed ==
    ASSUME Inv
    PROVE  /\ TypeOK /\ rows \subseteq Row /\ members \subseteq SetName \X Name
           /\ calls \in [Client -> Call] /\ \A c \in Client : calls[c] \in Call
           /\ answer \in [Client -> Status] /\ effect \in Effect
           /\ sets \subseteq SetName /\ lost \subseteq Name
  BY DEF Inv, MembersAreStored, TypeOK

\* GoTo and Return, with what else a step does to the history.
LEMMA Continued ==
    ASSUME Inv, NEW c \in Client, NEW call \in Call, UNCHANGED serial, effect' \in Effect,
           \/ GoTo(c, call)
           \/ call = Idle /\ \E status \in Status : Return(c, status)
    PROVE  Continues(c, call)
  <1>1. answer' \in [Client -> Status]
    BY Typed DEF GoTo, Return, Status
  <1> QED  BY <1>1 DEF GoTo, Return, Continues

\* A statement that only reads.
LEMMA ReadsInv ==
    ASSUME Inv, NEW c \in Client, NEW call \in Call, UNCHANGED <<serial, tables, history>>,
           CallOK(call), calls[c].at # "toggle_insert",
           \/ GoTo(c, call)
           \/ call = Idle /\ \E status \in Status : Return(c, status)
    PROVE  Inv'
  <1>1. UNCHANGED <<rows, next_id, sets, members, born, lost, raced, effect, serial>>
    BY DEF tables, history
  <1>2. Continues(c, call)
    BY <1>1, Continued, Typed
  <1>3. Moves(c, call)
    BY <1>1, <1>2, Typed DEF Moves
  <1> QED  BY <1>3, MovesInv

LEMMA IdleOK == CallOK(Idle)
  BY DEF CallOK, Idle

\* The row a command reads by its id is the only one of that id and has its name.
LEMMA RowOK ==
    ASSUME Inv, NEW r \in rows
    PROVE  /\ r \in Row /\ r.id \in 1..MaxId /\ r.name \in Name
           /\ r.id < next_id /\ \A q \in WithId(r.id) : q.name = r.name
           /\ r.name \in born \cup raced
  <1>1. r \in Row
    BY Typed
  <1>2. r.id \in 1..MaxId /\ r.name \in Name
    BY <1>1 DEF Row
  <1>3. r.id < next_id /\ \A q \in WithId(r.id) : q.name = r.name
    BY DEF Inv, RowsOK, WithId
  <1>4. r.name \in born \cup raced
    BY <1>2 DEF Inv, DeletedStaysDeleted, Stored
  <1> QED  BY <1>1, <1>2, <1>3, <1>4

LEMMA CreateInsertInv ==
    ASSUME Inv, NEW c \in Client, NEW n \in Name, NEW k \in Key, CreateInsert(c, n, k),
           UNCHANGED serial
    PROVE  Inv'
  <1>1. calls[c].at = "idle"
    BY DEF CreateInsert, MayStart, Idle
  <1>2. CASE Taken(n, k)
    BY <1>1, <1>2, ReadsInv, CallKinds, IdleOK DEF CreateInsert, Status
  <1>3. CASE ~Taken(n, k)
    <2> DEFINE call == [at |-> "create_select", key |-> k]
    <2>1. effect' \in Effect /\ ~Stored(n)
      BY <1>3 DEF CreateInsert, Effect, Taken, Stored
    <2>2. call \in Call /\ call.at = "create_select"
      BY CallKinds
    <2>3. Continues(c, call)
      BY <1>3, <2>1, <2>2, Continued DEF CreateInsert
    <2>4. Inserts(c, n, k, TRUE, call)
      BY <1>1, <1>3, <2>1, <2>2, <2>3 DEF CreateInsert, Inserts
    <2> QED  BY <2>4, InsertsInv
  <1> QED  BY <1>2, <1>3

LEMMA CreateSelectInv ==
    ASSUME Inv, NEW c \in Client, CreateSelect(c), UNCHANGED serial
    PROVE  Inv'
  <1>1. PICK status \in Status : Return(c, status)
    BY DEF CreateSelect, Status
  <1> QED  BY <1>1, ReadsInv, CallKinds, IdleOK DEF CreateSelect

LEMMA DeleteByIdInv ==
    ASSUME Inv, NEW c \in Client, NEW i \in 1..MaxId, DeleteById(c, i), UNCHANGED serial
    PROVE  Inv'
  <1>1. calls[c].at = "idle" /\ UNCHANGED <<tables, history>>
    BY DEF DeleteById, MayStart, Idle
  <1>2. CASE WithId(i) = {}
    BY <1>1, <1>2, ReadsInv, CallKinds, IdleOK DEF DeleteById, Status
  <1>3. CASE WithId(i) # {}
    <2>1. PICK r \in rows : GoTo(c, [at |-> "delete_list", name |-> r.name])
      BY <1>3 DEF DeleteById, WithId
    <2>2. CallOK([at |-> "delete_list", name |-> r.name])
      BY DEF CallOK
    <2> QED  BY <1>1, <2>1, <2>2, RowOK, ReadsInv, CallKinds
  <1> QED  BY <1>2, <1>3

LEMMA DeleteByNameInv ==
    ASSUME Inv, NEW c \in Client, NEW n \in Name, DeleteByName(c, n), UNCHANGED serial
    PROVE  Inv'
  <1>1. calls[c].at = "idle" /\ CallOK([at |-> "delete_list", name |-> n])
    BY DEF DeleteByName, MayStart, Idle, CallOK
  <1> QED  BY <1>1, ReadsInv, CallKinds DEF DeleteByName

LEMMA DeleteListInv ==
    ASSUME Inv, NEW c \in Client, DeleteList(c), UNCHANGED serial
    PROVE  Inv'
  <1>1. calls[c].at = "delete_list" /\ UNCHANGED <<tables, history>>
    BY DEF DeleteList
  <1>2. CASE ~Stored(calls[c].name)
    BY <1>1, <1>2, ReadsInv, CallKinds, IdleOK DEF DeleteList, Status
  <1>3. CASE Stored(calls[c].name)
    <2>1. PICK r \in rows :
              /\ r.name = calls[c].name
              /\ GoTo(c, [at |-> "delete_row", id |-> r.id, name |-> r.name])
      BY <1>3 DEF DeleteList
    <2>2. CallOK([at |-> "delete_row", id |-> r.id, name |-> r.name])
      BY RowOK DEF CallOK
    <2> QED  BY <1>1, <2>1, <2>2, RowOK, ReadsInv, CallKinds
  <1> QED  BY <1>2, <1>3

LEMMA DeleteRowInv ==
    ASSUME Inv, NEW c \in Client, DeleteRow(c), UNCHANGED serial
    PROVE  Inv'
  <1> DEFINE n == calls[c].name
             i == calls[c].id
  <1>1. calls[c].at = "delete_row" /\ calls[c] \in Call /\ CallOK(calls[c])
    BY Typed DEF DeleteRow, Inv, CallsOK
  <1>2. n \in Name /\ \A r \in WithId(i) : r.name = n
    BY <1>1, CallFields DEF CallOK
  <1>3. effect' \in Effect
    BY <1>2, Typed DEF DeleteRow, Effect
  <1>4. Continues(c, Idle)
    BY <1>3, Continued, CallKinds DEF DeleteRow, Status
  <1>5. Deletes(c, i, n, Idle)
    BY <1>1, <1>2, <1>4 DEF DeleteRow, Deletes
  <1> QED  BY <1>5, DeletesInv

LEMMA ToggleListInv ==
    ASSUME Inv, NEW c \in Client, NEW i \in 1..MaxId, NEW flag \in BOOLEAN,
           ToggleList(c, i, flag), UNCHANGED serial
    PROVE  Inv'
  <1>1. /\ calls[c].at = "idle" /\ UNCHANGED <<tables, history>>
        /\ CallOK([at |-> "toggle_select", id |-> i, flag |-> flag])
    BY DEF ToggleList, MayStart, Idle, CallOK
  <1>2. CASE WithId(i) = {}
    BY <1>1, <1>2, ReadsInv, CallKinds, IdleOK DEF ToggleList, Status
  <1>3. CASE WithId(i) # {}
    BY <1>1, <1>3, ReadsInv, CallKinds DEF ToggleList
  <1> QED  BY <1>2, <1>3

LEMMA ToggleSelectInv ==
    ASSUME Inv, NEW c \in Client, ToggleSelect(c), UNCHANGED serial
    PROVE  Inv'
  <1>1. calls[c].at = "toggle_select" /\ UNCHANGED <<tables, history>>
    BY DEF ToggleSelect
  <1>2. calls[c].flag \in BOOLEAN
    BY <1>1, Typed, CallFields
  <1>3. CASE WithId(calls[c].id) = {}
    BY <1>1, <1>3, ReadsInv, CallKinds, IdleOK DEF ToggleSelect, Status
  <1>4. CASE WithId(calls[c].id) # {}
    <2>1. PICK r \in rows :
              GoTo(c, [at |-> "toggle_delete", row |-> r, flag |-> calls[c].flag])
      BY <1>4 DEF ToggleSelect, WithId
    <2>2. CallOK([at |-> "toggle_delete", row |-> r, flag |-> calls[c].flag])
      BY RowOK DEF CallOK
    <2> QED  BY <1>1, <1>2, <2>1, <2>2, RowOK, ReadsInv, CallKinds
  <1> QED  BY <1>3, <1>4

LEMMA ToggleDeleteInv ==
    ASSUME Inv, NEW c \in Client, ToggleDelete(c), UNCHANGED serial
    PROVE  Inv'
  <1> DEFINE call == [calls[c] EXCEPT !.at = "toggle_insert"]
             r == calls[c].row
  <1>1. calls[c].at = "toggle_delete" /\ calls[c] \in Call /\ CallOK(calls[c])
    BY Typed DEF ToggleDelete, Inv, CallsOK
  <1>2. /\ call \in Call /\ call.at = "toggle_insert" /\ call.row = r /\ r \in Row
    BY <1>1, CallFields
  <1>3. CallOK(call) /\ r.name \in Name /\ \A q \in WithId(r.id) : q.name = r.name
    BY <1>1, <1>2 DEF CallOK, Row
  <1>4. /\ born' = born /\ lost' = lost /\ raced' = raced /\ effect' \in Effect
    BY Typed DEF ToggleDelete, history
  <1>5. Continues(c, call)
    BY <1>2, <1>4, Continued DEF ToggleDelete
  <1>6. Deletes(c, r.id, r.name, call)
    BY <1>1, <1>2, <1>3, <1>4, <1>5 DEF ToggleDelete, Deletes
  <1> QED  BY <1>6, DeletesInv

LEMMA ToggleInsertInv ==
    ASSUME Inv, NEW c \in Client, ToggleInsert(c), UNCHANGED serial
    PROVE  Inv'
  <1> DEFINE r == calls[c].row
             call == [at |-> "toggle_refresh", id |-> r.id]
  <1>1. calls[c].at = "toggle_insert" /\ calls[c] \in Call /\ CallOK(calls[c])
    BY Typed DEF ToggleInsert, Inv, CallsOK
  <1>2. r \in Row /\ calls[c].flag \in BOOLEAN
    BY <1>1, CallFields
  <1>3. r.name \in Name /\ r.key \in Key /\ r.id \in 1..MaxId /\ r.name \in born \cup raced
    BY <1>1, <1>2 DEF CallOK, Row
  <1>4. CASE Taken(r.name, r.key)
    <2>1. /\ UNCHANGED <<rows, next_id, sets, members, born, raced>> /\ effect' \in Effect
          /\ lost' = IF Stored(r.name) THEN lost ELSE lost \cup {r.name}
          /\ Return(c, "error")
      BY <1>4, Typed DEF ToggleInsert, tables
    <2>2. Continues(c, Idle)
      BY <2>1, Continued, CallKinds DEF Status
    <2>3. Moves(c, Idle)
      BY <1>3, <2>1, <2>2, IdleOK, Typed DEF Moves
    <2> QED  BY <2>3, MovesInv
  <1>5. CASE ~Taken(r.name, r.key)
    <2>1. /\ InsertRow(r.name, r.key, calls[c].flag) /\ lost' = lost \ {r.name}
          /\ born' = born /\ raced' = raced /\ GoTo(c, call)
          /\ effect' = [op |-> IF calls[c].flag THEN "enable" ELSE "disable",
                         name |-> r.name]
      BY <1>5 DEF ToggleInsert
    <2>2. effect' \in Effect
      BY <1>3, <2>1 DEF Effect
    <2>3. call \in Call /\ call.at = "toggle_refresh" /\ ~Stored(r.name)
      BY <1>3, <1>5, CallKinds DEF Taken, Stored
    <2>4. Continues(c, call)
      BY <2>1, <2>2, <2>3, Continued
    <2>5. Inserts(c, r.name, r.key, calls[c].flag, call)
      BY <1>2, <1>3, <2>1, <2>3, <2>4 DEF Inserts
    <2> QED  BY <2>5, InsertsInv
  <1> QED  BY <1>4, <1>5

LEMMA ToggleRefreshInv ==
    ASSUME Inv, NEW c \in Client, ToggleRefresh(c), UNCHANGED serial
    PROVE  Inv'
  <1>1. PICK status \in Status : Return(c, status)
    BY DEF ToggleRefresh, Status
  <1> QED  BY <1>1, ReadsInv, CallKinds, IdleOK DEF ToggleRefresh

\* Trigger sets.
LEMMA SetsInv ==
    ASSUME Inv, NEW c \in Client, NEW s \in SetName, UNCHANGED serial,
           CreateSet(c, s) \/ \E n \in Name : RemoveFromSet(c, s, n)
    PROVE  Inv'
  <1>1. calls[c].at = "idle"
    <2>1. MayStart(c)
      BY Zenon DEF CreateSet, RemoveFromSet
    <2> QED  BY <2>1 DEF MayStart, Idle
  <1>2. /\ UNCHANGED <<rows, next_id, born, lost, raced>> /\ effect' \in Effect
        /\ sets \subseteq sets' /\ sets' \subseteq SetName /\ members' \subseteq members
    BY Typed DEF CreateSet, RemoveFromSet, tables, history
  <1>3. PICK status \in Status : Return(c, status)
    BY DEF CreateSet, RemoveFromSet, Status
  <1>4. Continues(c, Idle)
    BY <1>2, <1>3, Continued, CallKinds
  <1>5. Moves(c, Idle)
    BY <1>1, <1>2, <1>4, IdleOK, Typed DEF Moves
  <1> QED  BY <1>5, MovesInv

LEMMA AddCheckInv ==
    ASSUME Inv, NEW c \in Client, NEW s \in SetName, NEW n \in Name, AddCheck(c, s, n),
           UNCHANGED serial
    PROVE  Inv'
  <1>1. calls[c].at = "idle" /\ UNCHANGED <<tables, history>>
    BY DEF AddCheck, MayStart, Idle
  <1>2. CASE s \in sets /\ Stored(n)
    <2>1. CallOK([at |-> "add_select", set |-> s, name |-> n])
      BY <1>2 DEF CallOK
    <2> QED  BY <1>1, <1>2, <2>1, ReadsInv, CallKinds DEF AddCheck
  <1>3. CASE ~(s \in sets /\ Stored(n))
    BY <1>1, <1>3, ReadsInv, CallKinds, IdleOK DEF AddCheck, Status
  <1> QED  BY <1>2, <1>3

LEMMA AddSelectInv ==
    ASSUME Inv, NEW c \in Client, AddSelect(c), UNCHANGED serial
    PROVE  Inv'
  <1> DEFINE call == [calls[c] EXCEPT !.at = "add_insert"]
  <1>1. calls[c].at = "add_select" /\ calls[c] \in Call /\ CallOK(calls[c])
        /\ UNCHANGED <<tables, history>>
    BY Typed DEF AddSelect, Inv, CallsOK
  <1>2. call \in Call /\ CallOK(call)
    BY <1>1, CallFields DEF CallOK
  <1>3. CASE Stored(calls[c].name)
    BY <1>1, <1>2, <1>3, ReadsInv DEF AddSelect
  <1>4. CASE ~Stored(calls[c].name)
    BY <1>1, <1>4, ReadsInv, CallKinds, IdleOK DEF AddSelect, Status
  <1> QED  BY <1>3, <1>4

LEMMA AddInsertInv ==
    ASSUME Inv, NEW c \in Client, AddInsert(c), UNCHANGED serial
    PROVE  Inv'
  <1> DEFINE m == <<calls[c].set, calls[c].name>>
  <1>1. calls[c].at = "add_insert" /\ calls[c] \in Call /\ CallOK(calls[c])
    BY Typed DEF AddInsert, Inv, CallsOK
  <1>2. calls[c].set \in sets /\ calls[c].name \in Name
    BY <1>1, CallFields DEF CallOK
  <1>3. /\ UNCHANGED <<rows, next_id, sets, born, lost, raced>> /\ effect' \in Effect
        /\ members' = members \/ (members' = members \cup {m} /\ Stored(calls[c].name))
    BY Typed DEF AddInsert, history
  <1>4. PICK status \in Status : Return(c, status)
    BY DEF AddInsert, Status
  <1>5. Continues(c, Idle)
    BY <1>3, <1>4, Continued, CallKinds
  <1>6. Moves(c, Idle)
    BY <1>1, <1>2, <1>3, <1>5, IdleOK, Typed DEF Moves
  <1> QED  BY <1>6, MovesInv

LEMMA CrashInv ==
    ASSUME Inv, NEW c \in Client, Crash(c), UNCHANGED serial
    PROVE  Inv'
  <1>1. calls[c] \in Call
    BY Typed
  <1>2. calls[c].at = "toggle_insert" => calls[c].row.name \in Name
    BY <1>1, CallFields DEF Row
  <1>3. /\ UNCHANGED <<rows, next_id, sets, members, born, raced, effect, answer>>
        /\ calls' = [calls EXCEPT ![c] = Idle]
        /\ lost \subseteq lost' /\ lost' \subseteq Name
        /\ calls[c].at = "toggle_insert"
               => Stored(calls[c].row.name) \/ calls[c].row.name \in lost'
    BY <1>2, Typed DEF Crash, tables
  <1>4. Continues(c, Idle)
    BY <1>3, CallKinds, Typed DEF Continues
  <1>5. Moves(c, Idle)
    BY <1>3, <1>4, IdleOK, Typed DEF Moves
  <1> QED  BY <1>5, MovesInv

LEMMA StepInv ==
    ASSUME Inv, Step, UNCHANGED serial
    PROVE  Inv'
  <1>1. PICK c \in Client :
           \/ \E n \in Name, k \in Key : CreateInsert(c, n, k)
           \/ CreateSelect(c)
           \/ \E n \in Name : DeleteByName(c, n)
           \/ \E i \in 1..MaxId : DeleteById(c, i)
           \/ DeleteList(c) \/ DeleteRow(c)
           \/ \E i \in 1..MaxId, flag \in BOOLEAN : ToggleList(c, i, flag)
           \/ ToggleSelect(c) \/ ToggleDelete(c) \/ ToggleInsert(c) \/ ToggleRefresh(c)
           \/ \E s \in SetName : CreateSet(c, s)
           \/ \E s \in SetName, n \in Name : AddCheck(c, s, n) \/ RemoveFromSet(c, s, n)
           \/ AddSelect(c) \/ AddInsert(c) \/ Crash(c)
    BY DEF Step
  <1> QED
    BY <1>1, CreateInsertInv, CreateSelectInv, DeleteByNameInv, DeleteByIdInv,
       DeleteListInv, DeleteRowInv, ToggleListInv, ToggleSelectInv, ToggleDeleteInv,
       ToggleInsertInv, ToggleRefreshInv, SetsInv, AddCheckInv, AddSelectInv,
       AddInsertInv, CrashInv

LEMMA NextInv ==
    ASSUME Inv, [Next]_vars
    PROVE  Inv'
  <1>1. CASE Next
    BY <1>1, StepInv DEF Next
  <1>2. CASE UNCHANGED vars
    <2>1. /\ rows' = rows /\ next_id' = next_id /\ sets' = sets /\ members' = members
          /\ calls' = calls /\ answer' = answer /\ born' = born /\ lost' = lost
          /\ raced' = raced /\ effect' = effect /\ serial' = serial
      BY <1>2 DEF vars, tables, history
    <2> QED
      BY <2>1 DEF Inv, RowsOK, CallsOK, CallOK, WithId, MembersAreStored, TypeOK,
                  CreatedIsAccountedFor, DeletedStaysDeleted, Stored, InFlight
  <1> QED  BY <1>1, <1>2

-----------------------------------------------------------------------------

\* However the statements of any number of clients interleave and wherever they die: a
\* member of a trigger set is a stored trigger of a stored set (add_to_set, migration12).
THEOREM MembersStayStored == Spec => []MembersAreStored
  <1>1. Inv => MembersAreStored
    BY DEF Inv
  <1> QED  BY <1>1, InitInv, NextInv, PTL DEF Spec

\* No trigger vanishes unnoticed (set_trigger_enabled).
THEOREM CreatedAccountedFor == Spec => []CreatedIsAccountedFor
  <1>1. Inv => CreatedIsAccountedFor
    BY DEF Inv
  <1> QED  BY <1>1, InitInv, NextInv, PTL DEF Spec

\* A deleted trigger comes back only through a toggle its delete overlapped
\* (DeleteTrigger.execute, set_trigger_enabled).
THEOREM DeletedStay == Spec => []DeletedStaysDeleted
  <1>1. Inv => DeletedStaysDeleted
    BY DEF Inv
  <1> QED  BY <1>1, InitInv, NextInv, PTL DEF Spec

-----------------------------------------------------------------------------
(* The refinement.  Commands that take turns make of the Postgres tables   *)
(* what TriggerCatalog promises, for any number of clients, triggers and   *)
(* sets: every statement is a step of the catalog, or one it does not see. *)

\* What the command in progress has found is what the tables say.
TurnOK(x, table) ==
    /\ x.at = "delete_row" => \E r \in table : r.id = x.id /\ r.name = x.name
    /\ x.at = "toggle_delete" => x.row \in table
    /\ x.at = "toggle_insert" =>
           \A q \in table : q.name # x.row.name /\ q.key # x.row.key

\* Everyone else is between two commands.
Alone(c) == \A d \in Client : d # c => calls[d] = Idle

TurnsOK ==
    serial =>
        /\ \A r, q \in rows : r.key = q.key => r = q
        /\ \A c \in Client : TurnOK(calls[c], rows) /\ (calls[c] # Idle => Alone(c))

\* What the catalog sees.
Seen == {AsTrigger(r) : r \in rows \cup HeldRows}

Unseen == Seen' = Seen /\ sets' = sets /\ members' = members /\ effect' = effect

CatalogStep == serial => Unseen \/ Catalog!Next

-----------------------------------------------------------------------------
(* A client's turn. *)

LEMMA MyTurn ==
    ASSUME Inv, TurnsOK, serial, NEW c \in Client, MayStart(c) \/ calls[c] # Idle
    PROVE  Alone(c)
  BY DEF TurnsOK, MayStart, Alone

\* After a step of c on its own, only what c does next has to be looked at.
LEMMA TurnGoesOn ==
    ASSUME Inv, serial, serial' = serial, NEW c \in Client, Alone(c), NEW call,
           calls' = [calls EXCEPT ![c] = call], TurnOK(call, rows'),
           \A r, q \in rows' : r.key = q.key => r = q
    PROVE  TurnsOK'
  <1>1. calls'[c] = call /\ \A d \in Client : d # c => calls'[d] = Idle
    BY Typed DEF Alone
  <1>2. TurnOK(Idle, rows')
    BY DEF TurnOK, Idle
  <1> QED  BY <1>1, <1>2 DEF TurnsOK, Alone

\* The rows a turn has in hand.
LEMMA Held ==
    ASSUME Inv, NEW c \in Client, Alone(c)
    PROVE  HeldRows = IF calls[c].at = "toggle_insert" THEN {calls[c].row} ELSE {}
  BY DEF HeldRows, Alone, Idle

LEMMA HeldNext ==
    ASSUME Inv, NEW c \in Client, Alone(c), NEW call, calls' = [calls EXCEPT ![c] = call]
    PROVE  HeldRows' = IF call.at = "toggle_insert" THEN {call.row} ELSE {}
  <1>1. calls'[c] = call /\ \A d \in Client : d # c => calls'[d] = Idle
    BY Typed DEF Alone
  <1> QED  BY <1>1 DEF HeldRows, Idle

\* A statement that only reads is not seen.
Reads(c, call) ==
    /\ MayStart(c) \/ calls[c] # Idle
    /\ UNCHANGED <<tables, history>>
    /\ calls' = [calls EXCEPT ![c] = call]
    /\ TurnOK(call, rows)
    /\ calls[c].at # "toggle_insert" /\ call.at # "toggle_insert"

LEMMA ReadsUnseen ==
    ASSUME Inv, TurnsOK, UNCHANGED serial, NEW c \in Client, NEW call, Reads(c, call)
    PROVE  TurnsOK' /\ CatalogStep
  <1>1. /\ serial' = serial /\ rows' = rows /\ sets' = sets /\ members' = members
        /\ effect' = effect /\ calls' = [calls EXCEPT ![c] = call]
        /\ TurnOK(call, rows)
    BY DEF Reads, tables, history
  <1>2. CASE ~serial
    BY <1>1, <1>2 DEF TurnsOK, CatalogStep
  <1>3. CASE serial
    <2>1. Alone(c)
      BY <1>3, MyTurn DEF Reads
    <2>2. TurnOK(call, rows')
      BY <1>1
    <2>3. \A r, q \in rows' : r.key = q.key => r = q
      BY <1>1, <1>3 DEF TurnsOK
    <2>4. TurnsOK'
      BY <1>1, <1>3, <2>1, <2>2, <2>3, TurnGoesOn
    <2>5. HeldRows' = HeldRows
      <3>1. HeldRows = {}
        BY <2>1, Held DEF Reads
      <3> QED  BY <1>1, <2>1, <3>1, HeldNext DEF Reads
    <2>6. Unseen
      BY <1>1, <2>5 DEF Unseen, Seen
    <2> QED  BY <2>4, <2>6 DEF CatalogStep
  <1> QED  BY <1>2, <1>3

LEMMA IdleTurn == \A table : TurnOK(Idle, table)
  BY DEF TurnOK, Idle

-----------------------------------------------------------------------------
(* The statements the catalog sees. *)

LEMMA CreateInsertTurn ==
    ASSUME Inv, TurnsOK, NEW c \in Client, NEW n \in Name, NEW k \in Key,
           CreateInsert(c, n, k), UNCHANGED serial
    PROVE  TurnsOK' /\ CatalogStep
  <1>1. calls[c] = Idle /\ calls[c].at = "idle" /\ MayStart(c)
    BY DEF CreateInsert, MayStart, Idle
  <1>2. CASE Taken(n, k)
    <2>1. Reads(c, Idle)
      BY <1>1, <1>2, IdleTurn DEF CreateInsert, Return, Reads
    <2> QED  BY <2>1, ReadsUnseen
  <1>3. CASE ~serial
    BY <1>3 DEF TurnsOK, CatalogStep
  <1>4. CASE ~Taken(n, k) /\ serial
    <2> DEFINE new == [id |-> next_id, name |-> n, key |-> k, enabled |-> TRUE]
               call == [at |-> "create_select", key |-> k]
    <2>1. /\ rows' = rows \cup {new} /\ sets' = sets /\ members' = members
          /\ effect' = [op |-> "add", name |-> n]
          /\ calls' = [calls EXCEPT ![c] = call]
      BY <1>4 DEF CreateInsert, InsertRow, GoTo
    <2>2. Alone(c)
      BY <1>1, <1>4, MyTurn
    <2>3. HeldRows = {} /\ HeldRows' = {}
      <3>1. HeldRows = {}
        BY <1>1, <2>2, Held
      <3>2. call.at = "create_select"
        OBVIOUS
      <3> HIDE DEF call
      <3> QED  BY <2>1, <2>2, <3>1, <3>2, HeldNext
    <2>4. \A r \in rows : r.name # n /\ r.key # k
      BY <1>4 DEF Taken
    <2>5. TurnsOK'
      <3>1. \A r, q \in rows' : r.key = q.key => r = q
        <4>1. new.key = k
          OBVIOUS
        <4>2. \A r, q \in rows : r.key = q.key => r = q
          BY <1>4 DEF TurnsOK
        <4> HIDE DEF new
        <4> QED  BY <2>1, <2>4, <4>1, <4>2
      <3>2. TurnOK(call, rows')
        BY DEF TurnOK
      <3> QED  BY <1>4, <2>1, <2>2, <3>1, <3>2, TurnGoesOn
    <2>6. Seen' = Seen \cup {[name |-> n, key |-> k, enabled |-> TRUE]}
      <3>1. AsTrigger(new) = [name |-> n, key |-> k, enabled |-> TRUE]
        BY DEF AsTrigger
      <3> HIDE DEF new
      <3> QED  BY <2>1, <2>3, <3>1 DEF Seen
    <2>7. \A t \in Seen : t.name # n /\ t.key # k
      BY <2>3, <2>4 DEF Seen, AsTrigger
    <2>8. Catalog!AddTrigger(n, k)
      BY <1>4, <2>1, <2>6, <2>7 DEF Catalog!AddTrigger, Seen
    <2> QED  BY <2>5, <2>8 DEF CatalogStep, Catalog!Next
  <1> QED  BY <1>2, <1>3, <1>4

LEMMA DeleteRowTurn ==
    ASSUME Inv, TurnsOK, NEW c \in Client, DeleteRow(c), UNCHANGED serial
    PROVE  TurnsOK' /\ CatalogStep
  <1> DEFINE n == calls[c].name
             i == calls[c].id
  <1>1. calls[c].at = "delete_row" /\ calls[c] # Idle /\ n \in Name
    <2>1. calls[c].at = "delete_row" /\ calls[c] \in Call
      BY Typed DEF DeleteRow
    <2>2. n \in Name
      BY <2>1, CallFields
    <2> QED  BY <2>1, <2>2 DEF Idle
  <1>2. CASE ~serial
    BY <1>2 DEF TurnsOK, CatalogStep
  <1>3. CASE serial
    <2>1. Alone(c)
      BY <1>1, <1>3, MyTurn
    <2>2. PICK r \in rows : r.id = i /\ r.name = n
      BY <1>1, <1>3 DEF TurnsOK, TurnOK
    <2>3. WithId(i) = {q \in rows : q.name = n} /\ r \in WithId(i)
      BY <2>2 DEF WithId, Inv, RowsOK
    <2>4. /\ rows' = {q \in rows : q.name # n} /\ sets' = sets
          /\ members' = {m \in members : m[2] # n}
          /\ effect' = [op |-> "remove", name |-> n]
          /\ calls' = [calls EXCEPT ![c] = Idle]
      BY <2>3 DEF DeleteRow, DeleteRows, Return
    <2>5. HeldRows = {} /\ HeldRows' = {}
      <3>1. HeldRows = {}
        BY <1>1, <2>1, Held
      <3>2. Idle.at # "toggle_insert"
        BY DEF Idle
      <3> QED  BY <2>1, <2>4, <3>1, <3>2, HeldNext
    <2>6. TurnsOK'
      <3>1. \A p, q \in rows' : p.key = q.key => p = q
        BY <1>3, <2>4 DEF TurnsOK
      <3>2. TurnOK(Idle, rows')
        BY DEF TurnOK, Idle
      <3> QED  BY <1>3, <2>1, <2>4, <3>1, <3>2, TurnGoesOn
    <2>7. Seen' = Seen \ {t \in Seen : t.name = n} /\ {t \in Seen : t.name = n} # {}
      <3>1. \A q \in rows : AsTrigger(q).name = q.name
        BY DEF AsTrigger
      <3> QED  BY <2>2, <2>4, <2>5, <3>1 DEF Seen
    <2>8. Catalog!RemoveTrigger(n)
      BY <1>3, <2>4, <2>7 DEF Catalog!RemoveTrigger, Catalog!Named, Seen
    <2> QED  BY <1>1, <2>6, <2>8 DEF CatalogStep, Catalog!Next
  <1> QED  BY <1>2, <1>3

\* A row in the hands of a toggle is still seen; its memberships are lost.
LEMMA ToggleDeleteTurn ==
    ASSUME Inv, TurnsOK, NEW c \in Client, ToggleDelete(c), UNCHANGED serial
    PROVE  TurnsOK' /\ CatalogStep
  <1> DEFINE r == calls[c].row
             call == [calls[c] EXCEPT !.at = "toggle_insert"]
  <1>1. /\ calls[c].at = "toggle_delete" /\ calls[c] # Idle
        /\ call.at = "toggle_insert" /\ call.row = r /\ r \in Row /\ r.name \in Name
    <2>1. calls[c].at = "toggle_delete" /\ calls[c] \in Call
      BY Typed DEF ToggleDelete
    <2>2. r \in Row
      BY <2>1, CallFields
    <2> QED  BY <2>1, <2>2, CallFields DEF Idle, Row
  <1> HIDE DEF call
  <1>2. calls' = [calls EXCEPT ![c] = call] /\ effect' = effect
    BY DEF ToggleDelete, GoTo, history, call
  <1>3. CASE ~serial
    BY <1>3 DEF TurnsOK, CatalogStep
  <1>4. CASE serial
    <2>1. Alone(c) /\ r \in rows
      BY <1>1, <1>4, MyTurn DEF TurnsOK, TurnOK
    <2>2. WithId(r.id) = {r}
      BY <2>1 DEF WithId, Inv, RowsOK
    <2>3. /\ rows' = rows \ {r} /\ sets' = sets
          /\ members' = {m \in members : m[2] # r.name}
      BY <2>2 DEF ToggleDelete, DeleteRows
    <2>4. HeldRows = {} /\ HeldRows' = {r}
      BY <1>1, <1>2, <2>1, Held, HeldNext
    <2>5. TurnsOK'
      <3>1. \A p, q \in rows' : p.key = q.key => p = q
        BY <1>4, <2>3 DEF TurnsOK
      <3>2. TurnOK(call, rows')
        <4>1. \A q \in rows' : q.name # r.name /\ q.key # r.key
          BY <1>4, <2>1, <2>3 DEF TurnsOK, Inv, RowsOK
        <4> QED  BY <1>1, <4>1 DEF TurnOK
      <3> QED  BY <1>2, <1>4, <2>1, <3>1, <3>2, TurnGoesOn
    <2>6. Seen' = Seen /\ {t \in Seen : t.name = r.name} # {}
      <3>1. rows' \cup HeldRows' = rows \cup HeldRows
        BY <2>1, <2>3, <2>4
      <3>2. AsTrigger(r).name = r.name /\ AsTrigger(r) \in Seen
        BY <2>1 DEF AsTrigger, Seen
      <3> QED  BY <3>1, <3>2 DEF Seen
    <2>7. Catalog!LoseMembers(r.name)
      BY <1>2, <1>4, <2>3, <2>6 DEF Catalog!LoseMembers, Catalog!Named, Seen
    <2> QED  BY <1>1, <2>5, <2>7 DEF CatalogStep, Catalog!Next
  <1> QED  BY <1>3, <1>4

LEMMA ToggleInsertTurn ==
    ASSUME Inv, TurnsOK, NEW c \in Client, ToggleInsert(c), UNCHANGED serial
    PROVE  TurnsOK' /\ CatalogStep
  <1> DEFINE r == calls[c].row
             flag == calls[c].flag
             new == [id |-> next_id, name |-> r.name, key |-> r.key, enabled |-> flag]
             call == [at |-> "toggle_refresh", id |-> r.id]
  <1>1. /\ calls[c].at = "toggle_insert" /\ calls[c] # Idle
        /\ r.name \in Name /\ flag \in BOOLEAN
    <2>1. calls[c].at = "toggle_insert" /\ calls[c] \in Call
      BY Typed DEF ToggleInsert
    <2>2. r \in Row /\ flag \in BOOLEAN
      BY <2>1, CallFields
    <2> QED  BY <2>1, <2>2 DEF Idle, Row
  <1>2. CASE ~serial
    BY <1>2 DEF TurnsOK, CatalogStep
  <1>3. CASE serial
    <2>1. Alone(c) /\ \A q \in rows : q.name # r.name /\ q.key # r.key
      BY <1>1, <1>3, MyTurn DEF TurnsOK, TurnOK
    <2>2. /\ rows' = rows \cup {new} /\ sets' = sets /\ members' = members
          /\ effect' = [op |-> IF flag THEN "enable" ELSE "disable", name |-> r.name]
          /\ calls' = [calls EXCEPT ![c] = call]
      BY <2>1 DEF ToggleInsert, InsertRow, GoTo, Taken
    <2>3. HeldRows = {r} /\ HeldRows' = {}
      <3>1. HeldRows = {r}
        BY <1>1, <2>1, Held
      <3>2. call.at = "toggle_refresh"
        OBVIOUS
      <3> HIDE DEF call
      <3> QED  BY <2>1, <2>2, <3>1, <3>2, HeldNext
    <2>5. TurnsOK'
      <3>1. \A p, q \in rows' : p.key = q.key => p = q
        <4>1. new.key = r.key
          OBVIOUS
        <4>2. \A p, q \in rows : p.key = q.key => p = q
          BY <1>3 DEF TurnsOK
        <4> HIDE DEF new
        <4> QED  BY <2>1, <2>2, <4>1, <4>2
      <3>2. TurnOK(call, rows')
        BY DEF TurnOK
      <3> QED  BY <1>3, <2>1, <2>2, <3>1, <3>2, TurnGoesOn
    <2>6. /\ {t \in Seen : t.name = r.name} = {AsTrigger(r)}
          /\ Seen' = (Seen \ {AsTrigger(r)}) \cup {[AsTrigger(r) EXCEPT !.enabled = flag]}
      <3>1. AsTrigger(new) = [AsTrigger(r) EXCEPT !.enabled = flag]
        BY DEF AsTrigger
      <3>2. \A q \in rows : AsTrigger(q).name # r.name
        BY <2>1 DEF AsTrigger
      <3>3. AsTrigger(r).name = r.name
        BY DEF AsTrigger
      <3>4. Seen = {AsTrigger(q) : q \in rows} \cup {AsTrigger(r)}
        BY <2>3 DEF Seen
      <3>5. Seen' = {AsTrigger(q) : q \in rows} \cup {AsTrigger(new)}
        <4> HIDE DEF new
        <4> QED  BY <2>2, <2>3 DEF Seen
      <3> HIDE DEF new
      <3> QED  BY <3>1, <3>2, <3>3, <3>4, <3>5
    <2>7. Catalog!SetTriggerEnabled(r.name, flag)
      <3>1. Seen' = (Seen \ {t \in Seen : t.name = r.name})
                        \cup {[t EXCEPT !.enabled = flag] : t \in {u \in Seen : u.name = r.name}}
        BY <2>6
      <3> QED
        BY <1>3, <2>2, <2>6, <3>1 DEF Catalog!SetTriggerEnabled, Catalog!Named, Seen
    <2> QED  BY <1>1, <2>5, <2>7 DEF CatalogStep, Catalog!Next
  <1> QED  BY <1>2, <1>3

-----------------------------------------------------------------------------
(* The statements on sets. *)

\* A statement on sets or members ends its command.
LEMMA SetsTurn ==
    ASSUME Inv, TurnsOK, NEW c \in Client, MayStart(c) \/ calls[c] # Idle,
           UNCHANGED <<serial, rows, effect>>, calls[c].at # "toggle_insert",
           calls' = [calls EXCEPT ![c] = Idle],
           \/ UNCHANGED <<sets, members>>
           \/ \E s \in SetName : s \notin sets /\ sets' = sets \cup {s} /\ members' = members
           \/ \E s \in SetName, n \in Name :
                  /\ sets' = sets
                  /\ \/ s \in sets /\ Stored(n) /\ members' = members \cup {<<s, n>>}
                     \/ <<s, n>> \in members /\ members' = members \ {<<s, n>>}
    PROVE  TurnsOK' /\ CatalogStep
  <1>1. CASE ~serial
    BY <1>1 DEF TurnsOK, CatalogStep
  <1>2. CASE serial
    <2>1. Alone(c)
      BY <1>2, MyTurn
    <2>2. HeldRows' = HeldRows
      <3>1. HeldRows = {}
        BY <2>1, Held
      <3>2. Idle.at # "toggle_insert"
        BY DEF Idle
      <3> QED  BY <2>1, <3>1, <3>2, HeldNext
    <2>3. Seen' = Seen
      BY <2>2 DEF Seen
    <2>4. TurnsOK'
      <3>1. \A p, q \in rows' : p.key = q.key => p = q
        BY <1>2 DEF TurnsOK
      <3> QED  BY <1>2, <2>1, <3>1, IdleTurn, TurnGoesOn
    <2>5. CASE UNCHANGED <<sets, members>>
      BY <2>3, <2>4, <2>5 DEF CatalogStep, Unseen
    <2>6. ASSUME NEW s \in SetName, s \notin sets, sets' = sets \cup {s}, members' = members
          PROVE  CatalogStep
      <3>1. Catalog!CreateSet(s)
        BY <1>2, <2>3, <2>6 DEF Catalog!CreateSet, Seen
      <3> QED  BY <3>1 DEF CatalogStep, Catalog!Next
    <2>7. ASSUME NEW s \in SetName, NEW n \in Name, sets' = sets,
                 s \in sets, Stored(n), members' = members \cup {<<s, n>>}
          PROVE  CatalogStep
      <3>1. {t \in Seen : t.name = n} # {}
        <4>1. PICK r \in rows : r.name = n
          BY <2>7 DEF Stored
        <4>2. AsTrigger(r) \in Seen /\ AsTrigger(r).name = n
          BY <4>1 DEF Seen, AsTrigger
        <4> QED  BY <4>2
      <3>2. Catalog!AddToSet(s, n)
        BY <1>2, <2>3, <2>7, <3>1 DEF Catalog!AddToSet, Catalog!Named, Seen
      <3> QED  BY <3>2 DEF CatalogStep, Catalog!Next
    <2>8. ASSUME NEW s \in SetName, NEW n \in Name, sets' = sets,
                 <<s, n>> \in members, members' = members \ {<<s, n>>}
          PROVE  CatalogStep
      <3>1. Catalog!RemoveFromSet(s, n)
        BY <1>2, <2>3, <2>8 DEF Catalog!RemoveFromSet, Seen
      <3> QED  BY <3>1 DEF CatalogStep, Catalog!Next
    <2> QED  BY <2>4, <2>5, <2>6, <2>7, <2>8
  <1> QED  BY <1>1, <1>2

LEMMA SetStatementTurn ==
    ASSUME Inv, TurnsOK, NEW c \in Client, UNCHANGED serial,
           \/ \E s \in SetName : CreateSet(c, s)
           \/ \E s \in SetName, n \in Name : RemoveFromSet(c, s, n)
           \/ AddInsert(c)
    PROVE  TurnsOK' /\ CatalogStep
  <1>1. ASSUME NEW s \in SetName, CreateSet(c, s)
        PROVE  TurnsOK' /\ CatalogStep
    <2>1. calls[c].at # "toggle_insert"
      BY <1>1 DEF CreateSet, MayStart, Idle
    <2> QED  BY <1>1, <2>1, SetsTurn DEF CreateSet, Return, tables, history
  <1>2. ASSUME NEW s \in SetName, NEW n \in Name, RemoveFromSet(c, s, n)
        PROVE  TurnsOK' /\ CatalogStep
    <2>1. calls[c].at # "toggle_insert" /\ MayStart(c)
      BY <1>2 DEF RemoveFromSet, MayStart, Idle
    <2>2. /\ UNCHANGED <<rows, sets, effect>> /\ calls' = [calls EXCEPT ![c] = Idle]
          /\ members' = members \ {<<s, n>>}
      BY <1>2 DEF RemoveFromSet, Return, history
    <2> QED  BY <2>1, <2>2, SetsTurn
  <1>3. CASE AddInsert(c)
    <2>1. calls[c].at = "add_insert" /\ calls[c] \in Call /\ CallOK(calls[c])
      BY <1>3, Typed DEF AddInsert, Inv, CallsOK
    <2>2. calls[c].set \in sets /\ calls[c].set \in SetName /\ calls[c].name \in Name
          /\ calls[c] # Idle
      <3>1. calls[c].set \in SetName /\ calls[c].name \in Name
        BY <2>1, CallFields
      <3> QED  BY <2>1, <3>1 DEF CallOK, Idle
    <2>3. /\ UNCHANGED <<rows, sets, effect>> /\ calls' = [calls EXCEPT ![c] = Idle]
          /\ \/ members' = members
             \/ Stored(calls[c].name)
                    /\ members' = members \cup {<<calls[c].set, calls[c].name>>}
      BY <1>3 DEF AddInsert, Return, history
    <2> QED  BY <2>1, <2>2, <2>3, SetsTurn
  <1> QED  BY <1>1, <1>2, <1>3

-----------------------------------------------------------------------------
(* The statements that only read. *)

LEMMA ReadTurn ==
    ASSUME Inv, TurnsOK, NEW c \in Client, UNCHANGED serial,
           \/ CreateSelect(c) \/ DeleteList(c) \/ ToggleSelect(c) \/ ToggleRefresh(c)
           \/ AddSelect(c)
           \/ \E n \in Name : DeleteByName(c, n)
           \/ \E i \in 1..MaxId : DeleteById(c, i)
           \/ \E i \in 1..MaxId, flag \in BOOLEAN : ToggleList(c, i, flag)
           \/ \E s \in SetName, n \in Name : AddCheck(c, s, n)
    PROVE  TurnsOK' /\ CatalogStep
  <1> SUFFICES \E call : Reads(c, call)
    BY ReadsUnseen
  <1>1. Idle.at = "idle" /\ TurnOK(Idle, rows)
    BY IdleTurn DEF Idle
  <1>2. calls[c].at # "idle" => calls[c] # Idle
    BY DEF Idle
  <1>3. MayStart(c) => calls[c].at = "idle"
    BY <1>1 DEF MayStart
  <1>4. CASE CreateSelect(c) \/ ToggleRefresh(c)
    <2>1. Reads(c, Idle)
      BY <1>1, <1>2, <1>4 DEF CreateSelect, ToggleRefresh, Return, Reads
    <2> QED  BY <2>1
  <1>5. ASSUME NEW n \in Name, DeleteByName(c, n) PROVE \E call : Reads(c, call)
    <2>1. Reads(c, [at |-> "delete_list", name |-> n])
      BY <1>3, <1>5 DEF DeleteByName, GoTo, Reads, TurnOK
    <2> QED  BY <2>1
  <1>6. ASSUME NEW i \in 1..MaxId, DeleteById(c, i) PROVE \E call : Reads(c, call)
    <2>1. CASE WithId(i) = {}
      <3>1. Reads(c, Idle)
        BY <1>1, <1>3, <1>6, <2>1 DEF DeleteById, Return, Reads
      <3> QED  BY <3>1
    <2>2. CASE WithId(i) # {}
      <3>1. PICK r \in rows : GoTo(c, [at |-> "delete_list", name |-> r.name])
        BY <1>6, <2>2 DEF DeleteById, WithId
      <3>2. Reads(c, [at |-> "delete_list", name |-> r.name])
        BY <1>3, <1>6, <3>1 DEF DeleteById, GoTo, Reads, TurnOK
      <3> QED  BY <3>2
    <2> QED  BY <2>1, <2>2
  <1>7. CASE DeleteList(c)
    <2>1. CASE ~Stored(calls[c].name)
      <3>1. Reads(c, Idle)
        BY <1>1, <1>2, <1>7, <2>1 DEF DeleteList, Return, Reads
      <3> QED  BY <3>1
    <2>2. CASE Stored(calls[c].name)
      <3>1. PICK r \in rows :
                /\ r.name = calls[c].name
                /\ GoTo(c, [at |-> "delete_row", id |-> r.id, name |-> r.name])
        BY <1>7, <2>2 DEF DeleteList
      <3>2. Reads(c, [at |-> "delete_row", id |-> r.id, name |-> r.name])
        BY <1>2, <1>7, <3>1 DEF DeleteList, GoTo, Reads, TurnOK
      <3> QED  BY <3>2
    <2> QED  BY <2>1, <2>2
  <1>8. ASSUME NEW i \in 1..MaxId, NEW flag \in BOOLEAN, ToggleList(c, i, flag)
        PROVE  \E call : Reads(c, call)
    <2>1. CASE WithId(i) = {}
      <3>1. Reads(c, Idle)
        BY <1>1, <1>3, <1>8, <2>1 DEF ToggleList, Return, Reads
      <3> QED  BY <3>1
    <2>2. CASE WithId(i) # {}
      <3>1. Reads(c, [at |-> "toggle_select", id |-> i, flag |-> flag])
        BY <1>3, <1>8, <2>2 DEF ToggleList, GoTo, Reads, TurnOK
      <3> QED  BY <3>1
    <2> QED  BY <2>1, <2>2
  <1>9. CASE ToggleSelect(c)
    <2>1. CASE WithId(calls[c].id) = {}
      <3>1. Reads(c, Idle)
        BY <1>1, <1>2, <1>9, <2>1 DEF ToggleSelect, Return, Reads
      <3> QED  BY <3>1
    <2>2. CASE WithId(calls[c].id) # {}
      <3>1. PICK r \in rows :
                GoTo(c, [at |-> "toggle_delete", row |-> r, flag |-> calls[c].flag])
        BY <1>9, <2>2 DEF ToggleSelect, WithId
      <3>2. Reads(c, [at |-> "toggle_delete", row |-> r, flag |-> calls[c].flag])
        BY <1>2, <1>9, <3>1 DEF ToggleSelect, GoTo, Reads, TurnOK
      <3> QED  BY <3>2
    <2> QED  BY <2>1, <2>2
  <1>10. ASSUME NEW s \in SetName, NEW n \in Name, AddCheck(c, s, n)
         PROVE  \E call : Reads(c, call)
    <2>1. Reads(c, Idle) \/ Reads(c, [at |-> "add_select", set |-> s, name |-> n])
      BY <1>1, <1>3, <1>10 DEF AddCheck, GoTo, Return, Reads, TurnOK
    <2> QED  BY <2>1
  <1>11. CASE AddSelect(c)
    <2> DEFINE call == [calls[c] EXCEPT !.at = "add_insert"]
    <2>1. calls[c].at = "add_select" /\ calls[c] \in Call
      BY <1>11, Typed DEF AddSelect
    <2>2. call.at = "add_insert"
      BY <2>1, CallFields
    <2> HIDE DEF call
    <2>3. calls' = [calls EXCEPT ![c] = call] \/ calls' = [calls EXCEPT ![c] = Idle]
      BY <1>11 DEF AddSelect, GoTo, Return, call
    <2>4. Reads(c, Idle) \/ Reads(c, call)
      BY <1>1, <1>2, <1>11, <2>1, <2>2, <2>3 DEF AddSelect, Reads, TurnOK
    <2> QED  BY <2>4
  <1> QED
    BY <1>4, <1>5, <1>6, <1>7, <1>8, <1>9, <1>10, <1>11

-----------------------------------------------------------------------------
(* The theorem. *)

LEMMA StepTurn ==
    ASSUME Inv, TurnsOK, [Next]_vars
    PROVE  TurnsOK' /\ CatalogStep
  <1>1. CASE Next
    <2>1. UNCHANGED serial
      BY <1>1 DEF Next
    <2>2. PICK c \in Client :
             \/ \E n \in Name, k \in Key : CreateInsert(c, n, k)
             \/ CreateSelect(c)
             \/ \E n \in Name : DeleteByName(c, n)
             \/ \E i \in 1..MaxId : DeleteById(c, i)
             \/ DeleteList(c) \/ DeleteRow(c)
             \/ \E i \in 1..MaxId, flag \in BOOLEAN : ToggleList(c, i, flag)
             \/ ToggleSelect(c) \/ ToggleDelete(c) \/ ToggleInsert(c) \/ ToggleRefresh(c)
             \/ \E s \in SetName : CreateSet(c, s)
             \/ \E s \in SetName, n \in Name : AddCheck(c, s, n) \/ RemoveFromSet(c, s, n)
             \/ AddSelect(c) \/ AddInsert(c) \/ Crash(c)
      BY <1>1 DEF Next, Step
    <2>3. Crash(c) => TurnsOK' /\ CatalogStep
      BY <2>1 DEF Crash, TurnsOK, CatalogStep
    <2> QED
      BY <2>1, <2>2, <2>3, CreateInsertTurn, DeleteRowTurn, ToggleDeleteTurn,
         ToggleInsertTurn, SetStatementTurn, ReadTurn
  <1>2. CASE UNCHANGED vars
    <2>1. /\ rows' = rows /\ sets' = sets /\ members' = members /\ effect' = effect
          /\ calls' = calls /\ serial' = serial
      BY <1>2 DEF vars, tables, history
    <2>2. TurnsOK'
      BY <2>1 DEF TurnsOK, TurnOK, Alone
    <2>3. Unseen
      BY <2>1 DEF Unseen, Seen, HeldRows
    <2> QED  BY <2>2, <2>3 DEF CatalogStep
  <1> QED  BY <1>1, <1>2

\* Without turns the catalog sees nothing at all.
LEMMA StepRefines ==
    ASSUME Inv, TurnsOK, [Next]_vars
    PROVE  [Catalog!Next]_(Catalog!vars)
  <1>1. CatalogStep /\ serial' = serial
    BY StepTurn DEF Next, vars
  <1>2. CASE serial /\ Unseen
    BY <1>1, <1>2 DEF Unseen, Seen, Catalog!vars
  <1>3. CASE ~serial
    BY <1>1, <1>3 DEF Catalog!vars
  <1> QED
    BY <1>1, <1>2, <1>3 DEF CatalogStep

\* The Postgres store implements what the repositories promise when commands take
\* turns: each of its statements is a step of TriggerCatalog or a stutter, whatever
\* the numbers of clients, triggers, sets and ids (PostgresTriggerRepository,
\* PostgresTriggerSetRepository).
THEOREM StoreImplementsCatalog == Spec => ImplementsCatalog
  <1>1. Init => TurnsOK /\ Catalog!Init
    <2> SUFFICES ASSUME Init PROVE TurnsOK /\ Catalog!Init
      OBVIOUS
    <2>1. rows = {} /\ sets = {} /\ members = {} /\ effect = NoEffect
          /\ \A c \in Client : calls[c] = Idle
      BY DEF Init
    <2>2. HeldRows = {}
      BY <2>1 DEF HeldRows, Idle
    <2>3. TurnsOK
      BY <2>1, IdleTurn DEF TurnsOK, Alone
    <2> QED
      BY <2>1, <2>2, <2>3
      DEF Catalog!Init, Catalog!NoEffect, NoEffect
  <1>2. Inv /\ TurnsOK /\ [Next]_vars => TurnsOK' /\ [Catalog!Next]_(Catalog!vars)
    BY StepTurn, StepRefines
  <1> QED
    BY <1>1, <1>2, InitInv, NextInv, PTL DEF Spec, ImplementsCatalog, Catalog!Spec

-----------------------------------------------------------------------------
(* Remote commands. *)

Ats == {"idle", "create_post", "delete_get", "delete_delete", "disable_patch",
        "toggle_get", "toggle_get_again", "toggle_patch"}
Cmd == [at: Ats, goal: Goals \cup {NoGoal}, first: Nat, no: Nat, said: Spoken]

\* What was sent and has not been answered.
Underway(m) == m \in requests \/ \E c \in Client : ~Free(c) /\ m = serving[c]

CmdOK ==
    /\ cmd \in [Caller -> Cmd] /\ sent \in Nat /\ DOMAIN serving = Client
    /\ \A p \in Caller : Waiting(p) => cmd[p].said = "none" /\ cmd[p].no <= sent

NumberedOK ==
    /\ \A m : Underway(m) => m.no \in 1..sent
    /\ \A r \in replies : r.no \in 1..sent

\* A number is in flight once.
UniqueOK ==
    /\ \A m, n \in requests : m.no = n.no => m = n
    /\ \A m \in requests, c \in Client : ~Free(c) => m.no # serving[c].no
    /\ \A c, d \in Client : ~Free(c) /\ ~Free(d) /\ c # d => serving[c].no # serving[d].no

\* Of the command of a waiting caller only the request it waits for is in flight.
WaitingOK ==
    \A p \in Caller : \A m : Waiting(p) /\ Underway(m) /\ m.by = p =>
        m.no < cmd[p].first \/ m.no = cmd[p].no

AnsweredOK == \A r \in replies : \A m : Underway(m) => m.no # r.no

FinalOK ==
    \A p \in Caller : \A m :
        ~Waiting(p) /\ cmd[p].said \in {"success", "not_found", "invalid"}
            /\ Underway(m) /\ m.by = p => m.no < cmd[p].first

WireInv == CmdOK /\ NumberedOK /\ UniqueOK /\ WaitingOK /\ AnsweredOK /\ FinalOK

-----------------------------------------------------------------------------
(* The three things a step does to the messages. *)

\* Of p's command nothing is in flight.
Settled(p) == \A m : Underway(m) /\ m.by = p => m.no < cmd[p].first

\* Caller p sends a request, of a new command or of one that is settled.
Sends(p, command, request) ==
    /\ Send(p, command, request)
    /\ UNCHANGED serving /\ replies' \subseteq replies
    /\ command \in Cmd /\ command.at # "idle" /\ command.said = "none"
    /\ \/ command.first = sent + 1
       \/ command.first = cmd[p].first /\ Settled(p)

LEMMA SendsInv ==
    ASSUME WireInv, NEW p \in Caller, NEW command, NEW request, Sends(p, command, request)
    PROVE  WireInv'
  <1> DEFINE new == [no |-> sent + 1, by |-> p, asks |-> request]
  <1>1. /\ sent' = sent + 1 /\ requests' = requests \cup {new}
        /\ cmd' = [cmd EXCEPT ![p] = [command EXCEPT !.no = sent + 1]]
        /\ serving' = serving /\ replies' \subseteq replies /\ sent \in Nat
    BY DEF Sends, Send, WireInv, CmdOK
  <1>2. \A m : Underway(m)' => Underway(m) \/ m = new
    BY <1>1 DEF Underway, Free
  <1>3. \A q \in Caller : q # p => cmd'[q] = cmd[q]
    BY <1>1 DEF WireInv, CmdOK
  <1>4. /\ cmd'[p].no = sent + 1 /\ cmd'[p].at # "idle" /\ cmd'[p].said = "none"
        /\ cmd'[p].first = command.first /\ cmd'[p] \in Cmd
    <2>1. cmd'[p] = [command EXCEPT !.no = sent + 1]
      BY <1>1 DEF WireInv, CmdOK
    <2>2. sent + 1 \in Nat
      BY <1>1
    <2> QED  BY <2>1, <2>2 DEF Sends, Cmd
  <1>5. CmdOK'
    <2>1. cmd' \in [Caller -> Cmd]
      BY <1>1, <1>3, <1>4 DEF WireInv, CmdOK
    <2>2. \A q \in Caller : Waiting(q)' => cmd'[q].said = "none" /\ cmd'[q].no <= sent'
      <3> SUFFICES ASSUME NEW q \in Caller, Waiting(q)'
                   PROVE  cmd'[q].said = "none" /\ cmd'[q].no <= sent'
        OBVIOUS
      <3>1. CASE q = p
        BY <3>1, <1>1, <1>4
      <3>2. CASE q # p
        <4>1. cmd[q].said = "none" /\ cmd[q].no <= sent /\ cmd[q].no \in Nat
          BY <3>2, <1>3 DEF WireInv, CmdOK, Waiting, Cmd
        <4> QED  BY <3>2, <4>1, <1>1, <1>3
      <3> QED  BY <3>1, <3>2
    <2>3. sent' \in Nat /\ DOMAIN serving' = Client
      BY <1>1 DEF WireInv, CmdOK
    <2> QED  BY <2>1, <2>2, <2>3 DEF CmdOK
  <1>6. NumberedOK'
    BY <1>1, <1>2 DEF WireInv, NumberedOK
  <1>7. UniqueOK'
    <2>1. \A m \in requests : m.no # new.no
      BY <1>1 DEF WireInv, NumberedOK, Underway
    <2>2. \A c \in Client : ~Free(c) => serving[c].no # new.no
      BY <1>1 DEF WireInv, NumberedOK, Underway
    <2> QED  BY <1>1, <2>1, <2>2 DEF WireInv, UniqueOK, Free
  <1>8. WaitingOK'
    <2> SUFFICES ASSUME NEW q \in Caller, NEW m, Waiting(q)', Underway(m)', m.by = q
                 PROVE  (m.no < cmd[q].first \/ m.no = cmd[q].no)'
      BY DEF WaitingOK
    <2>1. CASE m = new
      BY <2>1, <1>4
    <2>2. CASE Underway(m) /\ q # p
      BY <2>2, <1>3 DEF WireInv, WaitingOK, Waiting
    <2>3. CASE Underway(m) /\ q = p
      <3>1. m.no \in 1..sent
        BY <2>3 DEF WireInv, NumberedOK
      <3>2. CASE command.first = sent + 1
        BY <3>1, <3>2, <1>4, <1>1, <2>3
      <3>3. CASE command.first = cmd[p].first /\ Settled(p)
        BY <3>3, <1>4, <2>3 DEF Settled
      <3> QED  BY <3>2, <3>3 DEF Sends
    <2> QED  BY <1>2, <2>1, <2>2, <2>3
  <1>9. AnsweredOK'
    <2>1. \A r \in replies : r.no # new.no
      BY <1>1 DEF WireInv, NumberedOK
    <2> QED  BY <1>1, <1>2, <2>1 DEF WireInv, AnsweredOK
  <1>10. FinalOK'
    <2> SUFFICES ASSUME NEW q \in Caller, NEW m, ~Waiting(q)', Underway(m)', m.by = q,
                        cmd'[q].said \in {"success", "not_found", "invalid"}
                 PROVE  m.no < cmd'[q].first
      BY DEF FinalOK
    <2>1. q # p
      BY <1>4 DEF Waiting
    <2> QED  BY <2>1, <1>2, <1>3 DEF WireInv, FinalOK, Waiting
  <1> QED  BY <1>5, <1>6, <1>7, <1>8, <1>9, <1>10 DEF WireInv

\* Caller p ends its command, with a definite word only if it is settled.
Ends(p, said) ==
    /\ Waiting(p) /\ Finish(p, said)
    /\ UNCHANGED serving /\ replies' \subseteq replies
    /\ said \in Spoken
    /\ said \in {"success", "not_found", "invalid"} => Settled(p)

LEMMA EndsInv ==
    ASSUME WireInv, NEW p \in Caller, NEW said, Ends(p, said)
    PROVE  WireInv'
  <1>1. /\ cmd' = [cmd EXCEPT ![p] = [@ EXCEPT !.at = "idle", !.said = said]]
        /\ requests' = requests /\ sent' = sent
        /\ serving' = serving /\ replies' \subseteq replies
    BY DEF Ends, Finish
  <1>2. \A m : Underway(m)' <=> Underway(m)
    BY <1>1 DEF Underway, Free
  <1>3. \A q \in Caller : q # p => cmd'[q] = cmd[q]
    BY <1>1 DEF WireInv, CmdOK
  <1>4. /\ cmd'[p].at = "idle" /\ cmd'[p].said = said
        /\ cmd'[p].first = cmd[p].first /\ cmd'[p] \in Cmd
    <2>1. cmd[p] \in Cmd
      BY DEF WireInv, CmdOK
    <2>2. cmd'[p] = [cmd[p] EXCEPT !.at = "idle", !.said = said]
      BY <1>1 DEF WireInv, CmdOK
    <2> QED  BY <2>1, <2>2 DEF Ends, Cmd, Ats
  <1>5. CmdOK'
    <2>1. cmd' \in [Caller -> Cmd]
      BY <1>1, <1>3, <1>4 DEF WireInv, CmdOK
    <2> QED  BY <2>1, <1>1, <1>3, <1>4 DEF WireInv, CmdOK, Waiting
  <1>6. NumberedOK'
    BY <1>1, <1>2 DEF WireInv, NumberedOK
  <1>7. UniqueOK'
    BY <1>1 DEF WireInv, UniqueOK, Free
  <1>8. WaitingOK'
    <2> SUFFICES ASSUME NEW q \in Caller, NEW m, Waiting(q)', Underway(m)', m.by = q
                 PROVE  (m.no < cmd[q].first \/ m.no = cmd[q].no)'
      BY DEF WaitingOK
    <2>1. q # p
      BY <1>4 DEF Waiting
    <2> QED  BY <2>1, <1>2, <1>3 DEF WireInv, WaitingOK, Waiting
  <1>9. AnsweredOK'
    BY <1>1, <1>2 DEF WireInv, AnsweredOK
  <1>10. FinalOK'
    <2> SUFFICES ASSUME NEW q \in Caller, NEW m, ~Waiting(q)', Underway(m)', m.by = q,
                        cmd'[q].said \in {"success", "not_found", "invalid"}
                 PROVE  m.no < cmd'[q].first
      BY DEF FinalOK
    <2>1. CASE q = p
      BY <2>1, <1>2, <1>4 DEF Ends, Settled
    <2>2. CASE q # p
      BY <2>2, <1>2, <1>3 DEF WireInv, FinalOK, Waiting
    <2> QED  BY <2>1, <2>2
  <1> QED  BY <1>5, <1>6, <1>7, <1>8, <1>9, <1>10 DEF WireInv

\* A worker takes, carries or answers requests; what it answers is in flight no more.
Forwards ==
    /\ UNCHANGED <<cmd, sent>>
    /\ DOMAIN serving' = Client
    /\ \A m : Underway(m)' => Underway(m)
    /\ UniqueOK'
    /\ \A r \in replies' : r \in replies \/ \E m : /\ Underway(m) /\ r.no = m.no
                                                   /\ \A n : Underway(n)' => n.no # m.no

LEMMA ForwardsInv ==
    ASSUME WireInv, Forwards
    PROVE  WireInv'
  <1>1. cmd' = cmd /\ sent' = sent
    BY DEF Forwards
  <1>2. \A m : Underway(m)' => Underway(m)
    BY DEF Forwards
  <1>3. CmdOK'
    BY <1>1 DEF Forwards, WireInv, CmdOK, Waiting
  <1>4. NumberedOK'
    BY <1>1, <1>2 DEF Forwards, WireInv, NumberedOK
  <1>5. WaitingOK'
    BY <1>1, <1>2 DEF WireInv, WaitingOK, Waiting
  <1>6. AnsweredOK'
    BY <1>1, <1>2 DEF Forwards, WireInv, AnsweredOK
  <1>7. FinalOK'
    BY <1>1, <1>2 DEF WireInv, FinalOK, Waiting
  <1> QED  BY <1>3, <1>4, <1>5, <1>6, <1>7 DEF Forwards, WireInv

-----------------------------------------------------------------------------
(* Every step is one of these. *)

LEMMA WireInit == RemoteInit => WireInv
  <1> SUFFICES ASSUME RemoteInit PROVE WireInv
    OBVIOUS
  <1>1. \A m : ~Underway(m)
    BY DEF RemoteInit, Underway, Free
  <1>2. CmdOK
    BY DEF RemoteInit, CmdOK, Cmd, Ats, Spoken, Waiting
  <1>3. UniqueOK
    BY DEF RemoteInit, UniqueOK, Free
  <1> QED
    BY <1>1, <1>2, <1>3 DEF RemoteInit, WireInv, NumberedOK, WaitingOK, AnsweredOK, FinalOK

\* What a waiting caller hears is the answer of the one request of its command that was
\* in flight.
LEMMA HearsSettles ==
    ASSUME WireInv, NEW p \in Caller, NEW m, Hears(p, m)
    PROVE  Settled(p)
  BY DEF WireInv, WaitingOK, AnsweredOK, Hears, Settled

\* A new command.
LEMMA BeginInv ==
    ASSUME WireInv, NEW p \in Caller, NEW at \in Ats \ {"idle"}, NEW goal \in Goals, NEW request,
           Begin(p, at, goal, request)
    PROVE  WireInv'
  <1> DEFINE command == [at |-> at, goal |-> goal, first |-> sent + 1, no |-> 0, said |-> "none"]
  <1>1. command \in Cmd /\ command.at # "idle" /\ command.said = "none"
        /\ command.first = sent + 1
    BY DEF WireInv, CmdOK, Cmd, Spoken
  <1>2. Sends(p, command, request)
    BY <1>1 DEF Begin, Sends
  <1> QED  BY <1>2, SendsInv

\* The next request of a command.
LEMMA NextRequestInv ==
    ASSUME WireInv, NEW p \in Caller, NEW m, Hears(p, m), NEW at \in Ats \ {"idle"}, NEW request,
           Send(p, [cmd[p] EXCEPT !.at = at], request)
    PROVE  WireInv'
  <1> DEFINE command == [cmd[p] EXCEPT !.at = at]
  <1>1. command \in Cmd /\ command.at # "idle" /\ command.said = "none"
        /\ command.first = cmd[p].first
    BY DEF WireInv, CmdOK, Cmd, Hears
  <1>2. Settled(p)
    BY HearsSettles
  <1>3. replies' \subseteq replies /\ serving' = serving
    BY DEF Hears
  <1>4. Sends(p, command, request)
    BY <1>1, <1>2, <1>3 DEF Sends
  <1> QED  BY <1>4, SendsInv

\* The last answer of a command.
LEMMA FinishInv ==
    ASSUME WireInv, NEW p \in Caller, NEW m, Hears(p, m), NEW said \in Spoken, Finish(p, said)
    PROVE  WireInv'
  <1>1. Settled(p)
    BY HearsSettles
  <1>2. Ends(p, said)
    BY <1>1 DEF Ends, Hears
  <1> QED  BY <1>2, EndsInv

LEMMA GiveUpInv ==
    ASSUME WireInv, NEW p \in Caller, GiveUp(p)
    PROVE  WireInv'
  <1>1. PICK said \in {"raised", "error"} : Finish(p, said)
    BY DEF GiveUp
  <1>2. Ends(p, said)
    BY <1>1 DEF Ends, GiveUp, Spoken
  <1> QED  BY <1>2, EndsInv

LEMMA CallsInv ==
    ASSUME WireInv, NEW p \in Caller, Calls(p)
    PROVE  WireInv'
  <1>1. ASSUME NEW n \in Name, NEW k \in Key, StartCreate(p, n, k)
        PROVE  WireInv'
    <2>1. [op |-> "create", name |-> n, key |-> k] \in Goals
      BY DEF Goals
    <2> QED  BY <1>1, <2>1, BeginInv DEF StartCreate, Ats
  <1>2. ASSUME NEW n \in Name, StartDelete(p, n)
        PROVE  WireInv'
    <2>1. [op |-> "delete", name |-> n] \in Goals
      BY DEF Goals
    <2> QED  BY <1>2, <2>1, BeginInv DEF StartDelete, Ats
  <1>3. ASSUME NEW i \in ListedIds, NEW flag \in BOOLEAN, StartToggle(p, i, flag)
        PROVE  WireInv'
    <2>1. [op |-> "toggle", id |-> i, flag |-> flag] \in Goals
      BY DEF Goals, ListedIds
    <2> QED  BY <1>3, <2>1, BeginInv DEF StartToggle, Ats
  <1>4. ASSUME NEW i \in ListedIds, StartDisable(p, i)
        PROVE  WireInv'
    <2>1. [op |-> "disable", id |-> i] \in Goals
      BY DEF Goals, ListedIds
    <2> QED  BY <1>4, <2>1, BeginInv DEF StartDisable, Ats
  <1>5. ASSUME NEW m, HearCreated(p, m)
        PROVE  WireInv'
    <2>1. Judged(m.code) \in Spoken
      BY DEF Judged, Spoken
    <2> QED  BY <1>5, <2>1, FinishInv DEF HearCreated
  <1>6. ASSUME NEW m, HearDeleteList(p, m)
        PROVE  WireInv'
    <2>1. Hears(p, m)
      BY <1>6 DEF HearDeleteList
    <2>2. CASE \E said \in {"error", "not_found"} : Finish(p, said)
      BY <2>1, <2>2, FinishInv DEF Spoken
    <2>3. CASE \E t : Send(p, [cmd[p] EXCEPT !.at = "delete_delete"], DeleteTrigger(t.id))
      <3>1. PICK t : Send(p, [cmd[p] EXCEPT !.at = "delete_delete"], DeleteTrigger(t.id))
        BY <2>3
      <3> QED  BY <2>1, <3>1, NextRequestInv DEF Ats
    <2> QED  BY <1>6, <2>2, <2>3 DEF HearDeleteList
  <1>7. ASSUME NEW m, HearDeleted(p, m)
        PROVE  WireInv'
    <2>1. PICK said \in {"success", "raised"} : Finish(p, said)
      BY <1>7 DEF HearDeleted
    <2> QED  BY <1>7, <2>1, FinishInv DEF HearDeleted, Spoken
  <1>8. ASSUME NEW m, HearToggleList(p, m)
        PROVE  WireInv'
    <2>1. Hears(p, m)
      BY <1>8 DEF HearToggleList
    <2>2. CASE \E said \in {"error", "not_found", "success"} : Finish(p, said)
      BY <2>1, <2>2, FinishInv DEF Spoken
    <2>3. CASE Send(p, [cmd[p] EXCEPT !.at = "toggle_patch"],
                    PatchTrigger(cmd[p].goal.id, cmd[p].goal.flag))
      BY <2>1, <2>3, NextRequestInv DEF Ats
    <2> QED  BY <1>8, <2>2, <2>3 DEF HearToggleList
  <1>9. ASSUME NEW m, HearToggled(p, m)
        PROVE  WireInv'
    <2>1. Hears(p, m)
      BY <1>9 DEF HearToggled
    <2>2. CASE \E said \in {"error", "not_found"} : Finish(p, said)
      BY <2>1, <2>2, FinishInv DEF Spoken
    <2>3. CASE Send(p, [cmd[p] EXCEPT !.at = "toggle_get_again"], GetTriggers)
      BY <2>1, <2>3, NextRequestInv DEF Ats
    <2> QED  BY <1>9, <2>2, <2>3 DEF HearToggled
  <1> QED
    BY <1>1, <1>2, <1>3, <1>4, <1>5, <1>6, <1>7, <1>8, <1>9, GiveUpInv DEF Calls

\* A reply can only be the answer of the request it is numbered by.
LEMMA AnswerReplies ==
    ASSUME NEW m, NEW code, NEW listed, Answer(m, code, listed), NEW r \in replies'
    PROVE  r \in replies \/ r.no = m.no
  BY DEF Answer

LEMMA ServeListInv ==
    ASSUME WireInv, NEW c \in Client, NEW m \in requests, ServeList(c, m)
    PROVE  WireInv'
  <1>1. /\ requests' = requests \ {m} /\ serving' = serving /\ UNCHANGED <<cmd, sent>>
        /\ \E code, listed : Answer(m, code, listed)
    BY DEF ServeList
  <1>2. \A n : Underway(n)' => Underway(n)
    BY <1>1 DEF Underway, Free
  <1>3. \A n : Underway(n)' => n.no # m.no
    BY <1>1 DEF WireInv, UniqueOK, Underway, Free
  <1>4. UniqueOK'
    BY <1>1 DEF WireInv, UniqueOK, Free
  <1>5. \A r \in replies' : r \in replies \/ r.no = m.no
    BY <1>1, AnswerReplies
  <1>6. Underway(m) /\ DOMAIN serving' = Client
    BY <1>1 DEF Underway, WireInv, CmdOK
  <1> QED  BY <1>1, <1>2, <1>3, <1>4, <1>5, <1>6, ForwardsInv DEF Forwards

LEMMA ServeInv ==
    ASSUME WireInv, NEW c \in Client, NEW m \in requests, Serve(c, m)
    PROVE  WireInv'
  <1>1. /\ requests' = requests \ {m} /\ serving' = [serving EXCEPT ![c] = m]
        /\ UNCHANGED <<cmd, sent>> /\ replies' = replies /\ Free(c)
    BY DEF Serve
  <1>2. /\ DOMAIN serving' = Client /\ serving'[c] = m
        /\ \A d \in Client : d # c => serving'[d] = serving[d]
    BY <1>1 DEF WireInv, CmdOK
  <1>3. \A n : Underway(n)' => Underway(n)
    BY <1>1, <1>2 DEF Underway, Free
  <1>4. \A d \in Client : d # c /\ ~Free(d) => serving[d].no # m.no
    BY DEF WireInv, UniqueOK
  <1>5. \A n \in requests' : n.no # m.no
    BY <1>1 DEF WireInv, UniqueOK
  <1>6. UniqueOK'
    <2>1. \A n, k \in requests' : n.no = k.no => n = k
      BY <1>1 DEF WireInv, UniqueOK
    <2>2. \A n \in requests', d \in Client : ~Free(d)' => n.no # serving'[d].no
      BY <1>1, <1>2, <1>5 DEF WireInv, UniqueOK, Free
    <2>3. \A d, e \in Client :
              ~Free(d)' /\ ~Free(e)' /\ d # e => serving'[d].no # serving'[e].no
      BY <1>2, <1>4 DEF WireInv, UniqueOK, Free
    <2> QED  BY <2>1, <2>2, <2>3 DEF UniqueOK
  <1> QED  BY <1>1, <1>2, <1>3, <1>6, ForwardsInv DEF Forwards

LEMMA RespondInv ==
    ASSUME WireInv, NEW c \in Client, Respond(c)
    PROVE  WireInv'
  <1> DEFINE m == serving[c]
  <1>1. /\ requests' = requests /\ serving' = [serving EXCEPT ![c] = None]
        /\ UNCHANGED <<cmd, sent>> /\ ~Free(c)
        /\ \E code, listed : Answer(m, code, listed)
    BY DEF Respond
  <1>2. /\ DOMAIN serving' = Client /\ serving'[c] = None
        /\ \A d \in Client : d # c => serving'[d] = serving[d]
    BY <1>1 DEF WireInv, CmdOK
  <1>3. \A n : Underway(n)' => Underway(n)
    BY <1>1, <1>2 DEF Underway, Free
  <1>4. \A n : Underway(n)' => n.no # m.no
    BY <1>1, <1>2 DEF WireInv, UniqueOK, Underway, Free
  <1>5. UniqueOK'
    BY <1>1, <1>2 DEF WireInv, UniqueOK, Free
  <1>6. \A r \in replies' : r \in replies \/ r.no = m.no
    BY <1>1, AnswerReplies
  <1>7. Underway(m)
    BY <1>1 DEF Underway
  <1> QED  BY <1>1, <1>2, <1>3, <1>4, <1>5, <1>6, <1>7, ForwardsInv DEF Forwards

\* A step that leaves the messages alone.
LEMMA RestInv ==
    ASSUME WireInv, UNCHANGED remote
    PROVE  WireInv'
  BY DEF remote, WireInv, CmdOK, NumberedOK, UniqueOK, WaitingOK, AnsweredOK, FinalOK,
         Underway, Waiting, Free

LEMMA WireStep ==
    ASSUME WireInv, [RemoteNext]_RemoteVars
    PROVE  WireInv'
  <1>1. ASSUME NEW p \in Caller, Calls(p) PROVE WireInv'
    BY <1>1, CallsInv
  <1>2. ASSUME NEW c \in Client, Serves(c) PROVE WireInv'
    <2>1. CASE \E m \in requests : ServeList(c, m) \/ Serve(c, m)
      BY <2>1, ServeListInv, ServeInv
    <2>2. CASE Work(c)
      BY <2>2, RestInv DEF Work
    <2>3. CASE Respond(c)
      BY <2>3, RespondInv
    <2> QED  BY <1>2, <2>1, <2>2, <2>3 DEF Serves
  <1>3. CASE UNCHANGED RemoteVars
    BY <1>3, RestInv DEF RemoteVars
  <1> QED  BY <1>1, <1>2, <1>3 DEF RemoteNext

\* A caller that said something definite does not wait.
LEMMA InvFinal == WireInv => AnswersAreFinal
  <1> SUFFICES ASSUME WireInv, NEW p \in Caller,
                      cmd[p].said \in {"success", "not_found", "invalid"},
                      NEW m \in requests \cup {serving[c] : c \in {d \in Client : ~Free(d)}},
                      m.by = p
               PROVE  m.no < cmd[p].first
    BY DEF AnswersAreFinal
  <1>1. ~Waiting(p)
    BY DEF WireInv, CmdOK
  <1>2. Underway(m)
    BY DEF Underway
  <1> QED  BY <1>1, <1>2 DEF WireInv, FinalOK

\* When a remote trigger command says success, not found or invalid (ApiMrMktBackend and
\* the commands above it), none of its requests is on its way or being handled, so
\* nothing it asked for happens after its answer.
THEOREM FinalAnswers == RemoteSpec => []AnswersAreFinal
  <1>1. RemoteInit => WireInv
    BY WireInit
  <1>2. WireInv /\ [RemoteNext]_RemoteVars => WireInv'
    BY WireStep
  <1>3. WireInv => AnswersAreFinal
    BY InvFinal
  <1> QED  BY <1>1, <1>2, <1>3, PTL DEF RemoteSpec

-----------------------------------------------------------------------------
(* What is said was so.  The second invariant goes along with a command: what *)
(* its caller has seen of the table, what its request asks for, how far the   *)
(* worker got with it and what the answer will say.  A row the command knows  *)
(* by its id keeps its name until it goes, since ids are never given twice.   *)

\* What p's goal finds in the table now, p has seen.
NowSeen(p) ==
    LET goal == cmd[p].goal IN
    /\ goal.op = "create" =>
           /\ (\E r \in rows : r.name = goal.name) => seen[p].stored
           /\ (\E r \in rows : r.name = goal.name \/ r.key = goal.key) => seen[p].taken
    /\ goal.op = "delete" /\ (\A r \in rows : r.name # goal.name) => seen[p].absent
    /\ goal.op = "toggle" /\ (\A r \in rows : r.id # goal.id) => seen[p].absent
    /\ goal.op = "disable" /\ (\A r \in rows : r.id = goal.id => ~r.enabled) => seen[p].absent

\* Row i has the name p wants deleted, if it is there; else p has seen it gone.
IdHolds(p, i) ==
    /\ i \in Int /\ i < next_id
    /\ \A r \in rows : r.id = i => r.name = cmd[p].goal.name
    /\ (\E r \in rows : r.id = i) \/ seen[p].absent

\* The goal of a waiting caller, by where its command is.
GoalOK(p) ==
    LET at == cmd[p].at
        op == cmd[p].goal.op
    IN  \/ at = "create_post" /\ op = "create"
        \/ at \in {"delete_get", "delete_delete"} /\ op = "delete"
        \/ at \in {"toggle_get", "toggle_patch", "toggle_get_again"} /\ op = "toggle"
        \/ at = "disable_patch" /\ op = "disable"

\* The request p waits for asks for a.
Asks(p, a) ==
    LET at == cmd[p].at
        goal == cmd[p].goal
    IN  /\ at = "create_post" =>
               a.op = "post" /\ a.body.name = goal.name /\ a.body.key = goal.key
        /\ at \in {"delete_get", "toggle_get", "toggle_get_again"} => a.op = "get"
        /\ at = "delete_delete" => a.op = "delete" /\ IdHolds(p, a.id)
        /\ at \in {"disable_patch", "toggle_patch"} => a.op = "patch" /\ a.id = goal.id

\* A worker with the call x and the answer a handles the request p waits for.
Serving(p, x, a) ==
    LET at == cmd[p].at
        goal == cmd[p].goal
    IN  /\ at = "create_post" =>
               /\ x = Idle \/ (x.at = "create_select" /\ seen[p].stored)
               /\ a # "not_found"
               /\ a = "success" => seen[p].stored
               /\ a = "invalid" => seen[p].taken
        /\ at = "delete_delete" =>
               /\ \/ x = Idle
                  \/ x.at = "delete_list" /\ x.name = goal.name
                  \/ x.at = "delete_row" /\ IdHolds(p, x.id)
               /\ a \in {"success", "not_found"} => seen[p].absent
        /\ at \in {"disable_patch", "toggle_patch"} =>
               /\ \/ x = Idle
                  \/ x.at = "toggle_select" /\ x.id = goal.id
                  \/ x.at = "toggle_delete" /\ x.row.id = goal.id
                  \/ x.at \in {"toggle_insert", "toggle_refresh"} /\ seen[p].absent
               /\ a \in {"success", "not_found"} => seen[p].absent

\* m is the answer p waits for.
Replied(p, m) ==
    LET at == cmd[p].at
        goal == cmd[p].goal
    IN  /\ m.code \in {200, 201, 400, 404, 500}
        /\ at = "create_post" => /\ m.code < 400 => seen[p].stored
                                 /\ m.code \in {400, 404} => seen[p].taken
        /\ at = "delete_get" /\ m.code = 200 =>
               /\ (\A t \in m.listed : t.name # goal.name) => seen[p].absent
               /\ \A t \in m.listed : t.name = goal.name => IdHolds(p, t.id)
        /\ at = "toggle_get" /\ m.code = 200 /\ (\A t \in m.listed : t.id # goal.id) =>
               seen[p].absent
        /\ at \in {"delete_delete", "disable_patch"} /\ m.code \in {200, 201, 404} =>
               seen[p].absent
        /\ at = "toggle_patch" /\ m.code = 404 => seen[p].absent

KeysOK ==
    /\ next_id \in Int
    /\ \A r \in rows : r.id \in Int /\ r.id < next_id
    /\ \A q, r \in rows : q.id = r.id \/ q.name = r.name => q = r

StoreOK ==
    /\ DOMAIN calls = Client /\ DOMAIN answer = Client
    /\ \A c \in Client : "at" \in DOMAIN calls[c]
    /\ \A c \in Client : ~Free(c) => serving[c].asks.op # "get"

Glance == [absent: BOOLEAN, stored: BOOLEAN, taken: BOOLEAN]

\* What p may say as far as seen[p] goes.
MaySay(p, said) ==
    LET op == cmd[p].goal.op
    IN  /\ said = "not_found" => seen[p].absent
        /\ said = "success" /\ op \in {"delete", "disable"} => seen[p].absent
        /\ said = "success" /\ op = "create" => seen[p].stored
        /\ said = "invalid" => seen[p].taken

TrueOf(p) == MaySay(p, cmd[p].said)

\* What holds of a caller that waits.
CallerOK(p) ==
    /\ NowSeen(p) /\ GoalOK(p)
    /\ \A m : Underway(m) /\ m.no = cmd[p].no => m.by = p /\ Asks(p, m.asks)
    /\ \A c \in Client : ~Free(c) /\ serving[c].no = cmd[p].no =>
           Serving(p, calls[c], answer[c])
    /\ \A m \in replies : m.no = cmd[p].no => Replied(p, m)

TruthOK ==
    /\ KeysOK /\ StoreOK
    /\ seen \in [Caller -> Glance]
    /\ \A p \in Caller : (Waiting(p) => CallerOK(p)) /\ TrueOf(p)

-----------------------------------------------------------------------------
(* The table and what is seen of it. *)

\* What a statement does to the table.
RowsMove ==
    \/ rows' = rows /\ next_id' = next_id
    \/ \E r : /\ r.id = next_id /\ \A q \in rows : q.name # r.name
              /\ rows' = rows \cup {r} /\ next_id' = next_id + 1
    \/ \E i : rows' = rows \ WithId(i) /\ next_id' = next_id

LEMMA RowsStep ==
    ASSUME KeysOK, RowsMove
    PROVE  KeysOK' /\ next_id <= next_id'
  <1>1. CASE rows' = rows /\ next_id' = next_id
    BY <1>1 DEF KeysOK
  <1>2. CASE \E r : /\ r.id = next_id /\ \A q \in rows : q.name # r.name
                    /\ rows' = rows \cup {r} /\ next_id' = next_id + 1
    <2>1. PICK r : /\ r.id = next_id /\ \A q \in rows : q.name # r.name
                   /\ rows' = rows \cup {r} /\ next_id' = next_id + 1
      BY <1>2
    <2>2. next_id' \in Int /\ next_id <= next_id'
      BY <2>1 DEF KeysOK
    <2>3. \A q \in rows' : q.id \in Int /\ q.id < next_id'
      BY <2>1 DEF KeysOK
    <2>4. \A q \in rows : q.id # r.id /\ q.name # r.name
      BY <2>1 DEF KeysOK
    <2>5. \A q, s \in rows' : q.id = s.id \/ q.name = s.name => q = s
      BY <2>1, <2>4 DEF KeysOK
    <2> QED  BY <2>2, <2>3, <2>5 DEF KeysOK
  <1>3. CASE \E i : rows' = rows \ WithId(i) /\ next_id' = next_id
    BY <1>3 DEF KeysOK
  <1> QED  BY <1>1, <1>2, <1>3 DEF RowsMove

\* A look at the table shows what is there and forgets nothing.
LEMMA LookSees ==
    ASSUME NEW s \in Glance, NEW goal, NEW table
    PROVE  /\ Look(s, goal, table) \in Glance
           /\ s.absent => Look(s, goal, table).absent
           /\ s.stored => Look(s, goal, table).stored
           /\ s.taken => Look(s, goal, table).taken
           /\ goal.op = "create" =>
                  /\ (\E r \in table : r.name = goal.name) => Look(s, goal, table).stored
                  /\ (\E r \in table : r.name = goal.name \/ r.key = goal.key)
                         => Look(s, goal, table).taken
           /\ goal.op = "delete" /\ (\A r \in table : r.name # goal.name)
                  => Look(s, goal, table).absent
           /\ goal.op = "toggle" /\ (\A r \in table : r.id # goal.id)
                  => Look(s, goal, table).absent
           /\ goal.op = "disable" /\ (\A r \in table : r.id = goal.id => ~r.enabled)
                  => Look(s, goal, table).absent
  <1> DEFINE hit == {r \in table :
                        CASE goal.op = "toggle"  -> r.id = goal.id
                          [] goal.op = "disable" -> r.id = goal.id /\ r.enabled
                          [] OTHER               -> r.name = goal.name}
             absent == s.absent \/ (~(goal.op = "create") /\ hit = {})
             stored == s.stored \/ (goal.op = "create" /\ hit # {})
             taken == s.taken \/ (goal.op = "create"
                                     /\ (hit # {} \/ \E r \in table : r.key = goal.key))
  <1>1. Look(s, goal, table) = [absent |-> absent, stored |-> stored, taken |-> taken]
    BY Zenon DEF Look
  <1>2. goal.op = "create" => hit = {r \in table : r.name = goal.name}
    OBVIOUS
  <1>3. goal.op = "delete" => hit = {r \in table : r.name = goal.name}
    OBVIOUS
  <1>4. goal.op = "toggle" => hit = {r \in table : r.id = goal.id}
    OBVIOUS
  <1>5. goal.op = "disable" => hit = {r \in table : r.id = goal.id /\ r.enabled}
    OBVIOUS
  <1> HIDE DEF hit
  <1>6. absent \in BOOLEAN /\ stored \in BOOLEAN /\ taken \in BOOLEAN
    BY DEF Glance
  <1>7. (s.absent => absent) /\ (s.stored => stored) /\ (s.taken => taken)
    OBVIOUS
  <1>8. goal.op = "create" =>
            /\ (\E r \in table : r.name = goal.name) => stored
            /\ (\E r \in table : r.name = goal.name \/ r.key = goal.key) => taken
    BY <1>2
  <1>9. goal.op = "delete" /\ (\A r \in table : r.name # goal.name) => absent
    BY <1>3
  <1>10. goal.op = "toggle" /\ (\A r \in table : r.id # goal.id) => absent
    BY <1>4
  <1>11. goal.op = "disable" /\ (\A r \in table : r.id = goal.id => ~r.enabled) => absent
    BY <1>5
  <1> HIDE DEF absent, stored, taken
  <1> QED  BY <1>1, <1>6, <1>7, <1>8, <1>9, <1>10, <1>11 DEF Glance

\* seen of p forgets nothing.
Keeps(p) ==
    /\ seen[p].absent => seen'[p].absent
    /\ seen[p].stored => seen'[p].stored
    /\ seen[p].taken => seen'[p].taken

LEMMA Observed ==
    ASSUME seen \in [Caller -> Glance], Observe, NEW p \in Caller
    PROVE  /\ seen'[p] \in Glance
           /\ ~Waiting(p) /\ ~Waiting(p)' => seen'[p] = seen[p]
           /\ Waiting(p) => Keeps(p)
           /\ Waiting(p) \/ Waiting(p)' => NowSeen(p)'
  <1>1. seen[p] \in Glance /\ Nothing \in Glance
    BY DEF Glance, Nothing
  <1>2. CASE ~Waiting(p) /\ ~Waiting(p)'
    BY <1>1, <1>2 DEF Observe, Waiting
  <1>3. CASE Waiting(p) \/ Waiting(p)'
    <2>1. PICK s \in Glance : /\ seen'[p] = Look(s, cmd'[p].goal, rows')
                              /\ Waiting(p) => s = seen[p]
      BY <1>1, <1>3 DEF Observe, Waiting
    <2> QED  BY <2>1, <1>3, LookSees DEF Keeps, NowSeen
  <1> QED  BY <1>2, <1>3

\* Of a waiting caller whose command stays where it is, in a step of the table.
Stays(p) ==
    /\ KeysOK /\ RowsMove
    /\ Waiting(p) /\ cmd'[p] = cmd[p]
    /\ Keeps(p) /\ NowSeen(p)'

\* A row p read the id of keeps its name, or goes while p looks.
LEMMA IdStays ==
    ASSUME NEW p, KeysOK, RowsMove, Keeps(p), NowSeen(p)',
           cmd'[p].goal = cmd[p].goal, cmd[p].goal.op = "delete",
           NEW i, IdHolds(p, i)
    PROVE  IdHolds(p, i)'
  <1> DEFINE n == cmd[p].goal.name
  <1>1. cmd'[p].goal.name = n /\ cmd'[p].goal.op = "delete"
    OBVIOUS
  <1>2. (\A r \in rows' : r.name # n) => seen'[p].absent
    BY <1>1 DEF NowSeen
  <1>3. i \in Int /\ i < next_id'
    BY RowsStep DEF IdHolds, KeysOK
  <1>4. \A r \in rows' : r.id = i => r.name = n
    <2>1. \A r \in rows' : r \in rows \/ r.id = next_id
      BY DEF RowsMove
    <2> QED  BY <2>1 DEF IdHolds, KeysOK
  <1>5. (\E r \in rows' : r.id = i) \/ seen'[p].absent
    <2>1. CASE seen[p].absent
      BY <2>1 DEF Keeps
    <2>2. CASE \E r \in rows : r.id = i
      <3>1. PICK r \in rows : r.id = i /\ r.name = n
        BY <2>2 DEF IdHolds
      <3>2. CASE r \in rows'
        BY <3>1, <3>2
      <3>3. CASE r \notin rows'
        <4>1. rows' \subseteq rows
          BY <3>1, <3>3 DEF RowsMove
        <4>2. \A q \in rows' : q.name # n
          BY <3>1, <3>3, <4>1 DEF KeysOK
        <4> QED  BY <4>2, <1>2
      <3> QED  BY <3>2, <3>3
    <2> QED  BY <2>1, <2>2 DEF IdHolds
  <1> QED  BY <1>1, <1>3, <1>4, <1>5 DEF IdHolds

LEMMA AsksStays ==
    ASSUME NEW p, Stays(p), GoalOK(p), NEW a, Asks(p, a)
    PROVE  Asks(p, a)'
  <1>1. cmd'[p] = cmd[p]
    BY DEF Stays
  <1>2. cmd[p].at = "delete_delete" => IdHolds(p, a.id)'
    BY <1>1, IdStays DEF Stays, Asks, GoalOK
  <1> QED  BY <1>1, <1>2 DEF Asks

LEMMA ServingStays ==
    ASSUME NEW p, Stays(p), GoalOK(p), NEW x, NEW a, Serving(p, x, a)
    PROVE  Serving(p, x, a)'
  <1>1. cmd'[p] = cmd[p] /\ Keeps(p)
    BY DEF Stays
  <1>2. cmd[p].at = "delete_delete" /\ IdHolds(p, x.id) => IdHolds(p, x.id)'
    BY <1>1, IdStays DEF Stays, GoalOK
  <1> QED  BY <1>1, <1>2 DEF Serving, Keeps

LEMMA RepliedStays ==
    ASSUME NEW p, Stays(p), GoalOK(p), NEW m, Replied(p, m)
    PROVE  Replied(p, m)'
  <1>1. cmd'[p] = cmd[p] /\ Keeps(p)
    BY DEF Stays
  <1>2. ASSUME cmd[p].at = "delete_get", m.code = 200
        PROVE  /\ (\A t \in m.listed : t.name # cmd[p].goal.name) => seen'[p].absent
               /\ \A t \in m.listed : t.name = cmd[p].goal.name => IdHolds(p, t.id)'
    <2>1. \A i : IdHolds(p, i) => IdHolds(p, i)'
      BY <1>1, <1>2, IdStays DEF Stays, GoalOK
    <2> QED  BY <1>1, <1>2, <2>1 DEF Replied, Keeps
  <1> QED  BY <1>1, <1>2 DEF Replied, Keeps

-----------------------------------------------------------------------------
(* What a step does for a caller. *)

\* A message of p's number is an old one, or says what is so.
LEMMA CallerKept ==
    ASSUME NEW p \in Caller, Stays(p), CallerOK(p),
           \A m : Underway(m)' => Underway(m) \/ m.no # cmd[p].no,
           \A c \in Client : ~Free(c)' /\ serving'[c].no = cmd[p].no =>
               \/ Serving(p, calls[c], answer[c])'
               \/ /\ ~Free(c) /\ serving[c].no = cmd[p].no
                  /\ calls'[c] = calls[c] /\ answer'[c] = answer[c],
           \A m \in replies' : m.no = cmd[p].no => m \in replies \/ Replied(p, m)'
    PROVE  CallerOK(p)'
  <1>1. cmd'[p] = cmd[p] /\ GoalOK(p)
    BY DEF Stays, CallerOK
  <1>2. NowSeen(p)' /\ GoalOK(p)'
    BY <1>1 DEF Stays, GoalOK
  <1>3. ASSUME NEW m, Underway(m)', m.no = cmd[p].no
        PROVE  m.by = p /\ Asks(p, m.asks)'
    BY <1>1, <1>3, AsksStays DEF CallerOK
  <1>4. ASSUME NEW c \in Client, ~Free(c)', serving'[c].no = cmd[p].no
        PROVE  Serving(p, calls[c], answer[c])'
    <2>1. CASE Serving(p, calls[c], answer[c])'
      BY <2>1
    <2>2. CASE /\ ~Free(c) /\ serving[c].no = cmd[p].no
               /\ calls'[c] = calls[c] /\ answer'[c] = answer[c]
      <3>1. Serving(p, calls[c], answer[c])
        BY <2>2 DEF CallerOK
      <3>2. \A x, a : Serving(p, x, a) => Serving(p, x, a)'
        BY <1>1, ServingStays
      <3>3. ASSUME NEW x, NEW a, x = calls'[c], a = answer'[c], Serving(p, x, a)'
            PROVE  Serving(p, calls[c], answer[c])'
        BY <3>3
      <3> QED  BY <2>2, <3>1, <3>2, <3>3
    <2> QED  BY <1>4, <2>1, <2>2
  <1>5. ASSUME NEW m \in replies', m.no = cmd[p].no
        PROVE  Replied(p, m)'
    BY <1>1, <1>5, RepliedStays DEF CallerOK
  <1> QED  BY <1>1, <1>2, <1>3, <1>4, <1>5 DEF CallerOK

LEMMA SeenTyped ==
    ASSUME seen \in [Caller -> Glance], Observe
    PROVE  seen' \in [Caller -> Glance]
  <1>1. \A p \in Caller : seen'[p] \in Glance
    BY Observed
  <1>2. seen' = [p \in Caller |-> seen'[p]]
    BY DEF Observe
  <1> QED  BY <1>1, <1>2

LEMMA StaysStill ==
    ASSUME TruthOK, RowsMove, Observe, NEW p \in Caller, Waiting(p), cmd'[p] = cmd[p]
    PROVE  Stays(p)
  BY Observed DEF TruthOK, Stays

\* What a caller said stays true while it says nothing else.
LEMMA TrueKept ==
    ASSUME WireInv, TruthOK, Observe, NEW p \in Caller, cmd'[p] = cmd[p]
    PROVE  TrueOf(p)'
  <1>1. CASE Waiting(p)
    <2>1. cmd[p].said = "none"
      BY <1>1 DEF WireInv, CmdOK
    <2> QED  BY <2>1 DEF TrueOf, MaySay
  <1>2. CASE ~Waiting(p)
    <2>1. seen'[p] = seen[p]
      BY <1>2, Observed DEF TruthOK, Waiting
    <2> QED  BY <2>1 DEF TrueOf, MaySay, TruthOK
  <1> QED  BY <1>1, <1>2

\* What all steps of a caller p leave so: the others, and the table.
CallerMoves(p) ==
    /\ Observe /\ UNCHANGED <<vars, serving>> /\ replies' \subseteq replies
    /\ \A q \in Caller : q # p => cmd'[q] = cmd[q]
    /\ \A m \in requests' : m \in requests \/ m.no = sent + 1

LEMMA OthersKept ==
    ASSUME WireInv, TruthOK, NEW p \in Caller, CallerMoves(p),
           Waiting(p)' => CallerOK(p)', TrueOf(p)'
    PROVE  TruthOK'
  <1>1. /\ rows' = rows /\ next_id' = next_id /\ calls' = calls /\ answer' = answer
        /\ serving' = serving /\ replies' \subseteq replies /\ Observe
    BY DEF CallerMoves, vars, tables
  <1>2. KeysOK' /\ StoreOK' /\ RowsMove
    BY <1>1 DEF TruthOK, KeysOK, StoreOK, RowsMove, Free
  <1>3. seen' \in [Caller -> Glance]
    BY <1>1, SeenTyped DEF TruthOK
  <1>4. ASSUME NEW q \in Caller, q # p
        PROVE  (Waiting(q)' => CallerOK(q)') /\ TrueOf(q)'
    <2>1. cmd'[q] = cmd[q]
      BY <1>4 DEF CallerMoves
    <2>2. TrueOf(q)'
      BY <1>1, <2>1, TrueKept
    <2>3. ASSUME Waiting(q)' PROVE CallerOK(q)'
      <3>1. Waiting(q) /\ CallerOK(q) /\ cmd[q].no <= sent /\ cmd[q].no \in Nat /\ sent \in Nat
        BY <2>1, <2>3 DEF Waiting, TruthOK, WireInv, CmdOK, Cmd
      <3>2. Stays(q)
        BY <1>1, <1>2, <2>1, <3>1, StaysStill
      <3>3. \A m : Underway(m)' => Underway(m) \/ m.no # cmd[q].no
        BY <1>1, <3>1 DEF CallerMoves, Underway, Free
      <3>4. \A c \in Client : ~Free(c)' => ~Free(c)
        BY <1>1 DEF Free
      <3> QED  BY <1>1, <3>1, <3>2, <3>3, <3>4, CallerKept
    <2> QED  BY <2>2, <2>3
  <1> QED  BY <1>2, <1>3, <1>4 DEF TruthOK

\* Caller p sends a request that its command calls for.
LEMMA SendsTrue ==
    ASSUME WireInv, TruthOK, Observe, UNCHANGED <<vars, serving>>, replies' \subseteq replies,
           NEW p \in Caller, NEW command, NEW request, Send(p, command, request),
           command \in Cmd, command.at # "idle", command.said = "none",
           GoalOK(p)', Asks(p, request)'
    PROVE  TruthOK'
  <1> DEFINE new == [no |-> sent + 1, by |-> p, asks |-> request]
  <1>1. /\ sent \in Nat /\ requests' = requests \cup {new}
        /\ cmd' = [cmd EXCEPT ![p] = [command EXCEPT !.no = sent + 1]]
        /\ cmd \in [Caller -> Cmd]
    BY DEF Send, WireInv, CmdOK
  <1>2. cmd'[p].no = sent + 1 /\ cmd'[p].at # "idle" /\ cmd'[p].said = "none"
    BY <1>1 DEF Cmd
  <1>3. \A q \in Caller : q # p => cmd'[q] = cmd[q]
    BY <1>1
  <1>4. serving' = serving /\ replies' \subseteq replies
    OBVIOUS
  <1>5. CallerMoves(p)
    BY <1>1, <1>3 DEF CallerMoves
  <1>6. \A m : Underway(m) => m.no # sent + 1
    BY <1>1 DEF WireInv, NumberedOK
  <1>7. CallerOK(p)'
    <2>1. NowSeen(p)'
      BY <1>2, Observed DEF TruthOK, Waiting
    <2>2. ASSUME NEW m, Underway(m)', m.no = cmd'[p].no
          PROVE  m.by = p /\ Asks(p, m.asks)'
      <3>1. Underway(m) \/ m = new
        BY <1>1, <1>4, <2>2 DEF Underway, Free
      <3>2. m = new
        BY <3>1, <2>2, <1>2, <1>6
      <3>3. m.by = p /\ m.asks = request
        BY <3>2
      <3> QED  BY <3>3
    <2>3. \A c \in Client : ~(~Free(c)' /\ serving'[c].no = cmd'[p].no)
      BY <1>2, <1>4, <1>6 DEF Underway, Free
    <2>4. \A m \in replies' : m.no # cmd'[p].no
      BY <1>1, <1>2 DEF WireInv, NumberedOK
    <2> QED  BY <2>1, <2>2, <2>3, <2>4 DEF CallerOK
  <1>8. TrueOf(p)'
    BY <1>2 DEF TrueOf, MaySay
  <1> QED  BY <1>5, <1>7, <1>8, OthersKept

\* Caller p ends its command with what it may say.
LEMMA EndsTrue ==
    ASSUME WireInv, TruthOK, Observe, UNCHANGED <<vars, serving>>, replies' \subseteq replies,
           NEW p \in Caller, Waiting(p), NEW said, Finish(p, said), MaySay(p, said)
    PROVE  TruthOK'
  <1>1. /\ requests' = requests /\ cmd \in [Caller -> Cmd]
        /\ cmd' = [cmd EXCEPT ![p] = [@ EXCEPT !.at = "idle", !.said = said]]
    BY DEF Finish, WireInv, CmdOK
  <1>2. cmd'[p].at = "idle" /\ cmd'[p].said = said /\ cmd'[p].goal = cmd[p].goal
    <2>1. cmd'[p] = [cmd[p] EXCEPT !.at = "idle", !.said = said] /\ cmd[p] \in Cmd
      BY <1>1
    <2> QED  BY <2>1 DEF Cmd
  <1>3. \A q \in Caller : q # p => cmd'[q] = cmd[q]
    BY <1>1
  <1>4. CallerMoves(p)
    BY <1>1, <1>3 DEF CallerMoves
  <1>5. Keeps(p)
    BY Observed DEF TruthOK
  <1>6. TrueOf(p)'
    BY <1>2, <1>5 DEF TrueOf, MaySay, Keeps
  <1>7. ~Waiting(p)'
    BY <1>2 DEF Waiting
  <1> QED  BY <1>4, <1>6, <1>7, OthersKept

-----------------------------------------------------------------------------
(* A caller's steps. *)

LEMMA BeginTrue ==
    ASSUME WireInv, TruthOK, Observe, NEW p \in Caller, NEW at \in Ats \ {"idle"},
           NEW goal \in Goals, NEW request, Begin(p, at, goal, request),
           cmd'[p].at = at /\ cmd'[p].goal = goal => GoalOK(p)' /\ Asks(p, request)'
    PROVE  TruthOK'
  <1> DEFINE command == [at |-> at, goal |-> goal, first |-> sent + 1, no |-> 0, said |-> "none"]
  <1>1. command \in Cmd /\ command.at # "idle" /\ command.said = "none"
    BY DEF WireInv, CmdOK, Cmd, Spoken
  <1>2. Send(p, command, request) /\ UNCHANGED <<vars, serving>> /\ replies' \subseteq replies
    BY DEF Begin
  <1>3. cmd'[p].at = at /\ cmd'[p].goal = goal
    <2>1. cmd'[p] = [command EXCEPT !.no = sent + 1]
      BY <1>2 DEF Send, WireInv, CmdOK
    <2> QED  BY <2>1
  <1> HIDE DEF command
  <1> QED  BY <1>1, <1>2, <1>3, SendsTrue

\* What p hears is what it waits for.
LEMMA HearsTrue ==
    ASSUME TruthOK, NEW p \in Caller, NEW m, Hears(p, m)
    PROVE  /\ Waiting(p) /\ CallerOK(p) /\ GoalOK(p) /\ Replied(p, m)
           /\ UNCHANGED <<vars, serving>> /\ replies' \subseteq replies
  BY DEF TruthOK, Hears, CallerOK

\* The next request of a command.
LEMMA NextTrue ==
    ASSUME WireInv, TruthOK, Observe, NEW p \in Caller, NEW m, Hears(p, m),
           NEW at \in Ats \ {"idle"}, NEW request, Send(p, [cmd[p] EXCEPT !.at = at], request),
           cmd'[p].at = at /\ cmd'[p].goal = cmd[p].goal => GoalOK(p)' /\ Asks(p, request)'
    PROVE  TruthOK'
  <1> DEFINE command == [cmd[p] EXCEPT !.at = at]
  <1>1. command \in Cmd /\ command.at # "idle" /\ command.said = "none"
    BY DEF WireInv, CmdOK, Cmd, Hears
  <1>2. UNCHANGED <<vars, serving>> /\ replies' \subseteq replies
    BY HearsTrue
  <1>3. cmd'[p].at = at /\ cmd'[p].goal = cmd[p].goal
    <2>1. cmd'[p] = [command EXCEPT !.no = sent + 1] /\ cmd[p] \in Cmd
      BY DEF Send, WireInv, CmdOK
    <2> QED  BY <2>1 DEF Cmd
  <1>4. Send(p, command, request)
    OBVIOUS
  <1> HIDE DEF command
  <1> QED  BY <1>1, <1>2, <1>3, <1>4, SendsTrue

LEMMA FinishTrue ==
    ASSUME WireInv, TruthOK, Observe, NEW p \in Caller, NEW m, Hears(p, m),
           NEW said, Finish(p, said), MaySay(p, said)
    PROVE  TruthOK'
  BY HearsTrue, EndsTrue

LEMMA CallsTrue ==
    ASSUME WireInv, TruthOK, Observe, NEW p \in Caller, Calls(p)
    PROVE  TruthOK'
  <1>1. ASSUME NEW n \in Name, NEW k \in Key, StartCreate(p, n, k)
        PROVE  TruthOK'
    <2> DEFINE goal == [op |-> "create", name |-> n, key |-> k]
    <2>1. goal \in Goals /\ "create_post" \in Ats \ {"idle"}
      BY DEF Goals, Ats
    <2>2. cmd'[p].at = "create_post" /\ cmd'[p].goal = goal
              => GoalOK(p)' /\ Asks(p, PostTrigger(n, k))'
      BY DEF GoalOK, Asks, PostTrigger, CreateTriggerDto
    <2> QED  BY <1>1, <2>1, <2>2, BeginTrue DEF StartCreate
  <1>2. ASSUME NEW n \in Name, StartDelete(p, n)
        PROVE  TruthOK'
    <2> DEFINE goal == [op |-> "delete", name |-> n]
    <2>1. goal \in Goals /\ "delete_get" \in Ats \ {"idle"}
      BY DEF Goals, Ats
    <2>2. cmd'[p].at = "delete_get" /\ cmd'[p].goal = goal
              => GoalOK(p)' /\ Asks(p, GetTriggers)'
      BY DEF GoalOK, Asks, GetTriggers
    <2> QED  BY <1>2, <2>1, <2>2, BeginTrue DEF StartDelete
  <1>3. ASSUME NEW i \in ListedIds, NEW flag \in BOOLEAN, StartToggle(p, i, flag)
        PROVE  TruthOK'
    <2> DEFINE goal == [op |-> "toggle", id |-> i, flag |-> flag]
    <2>1. goal \in Goals /\ "toggle_get" \in Ats \ {"idle"}
      BY DEF Goals, Ats, ListedIds
    <2>2. cmd'[p].at = "toggle_get" /\ cmd'[p].goal = goal
              => GoalOK(p)' /\ Asks(p, GetTriggers)'
      BY DEF GoalOK, Asks, GetTriggers
    <2> QED  BY <1>3, <2>1, <2>2, BeginTrue DEF StartToggle
  <1>4. ASSUME NEW i \in ListedIds, StartDisable(p, i)
        PROVE  TruthOK'
    <2> DEFINE goal == [op |-> "disable", id |-> i]
    <2>1. goal \in Goals /\ "disable_patch" \in Ats \ {"idle"}
      BY DEF Goals, Ats, ListedIds
    <2>2. cmd'[p].at = "disable_patch" /\ cmd'[p].goal = goal
              => GoalOK(p)' /\ Asks(p, PatchTrigger(i, FALSE))'
      BY DEF GoalOK, Asks, PatchTrigger
    <2> QED  BY <1>4, <2>1, <2>2, BeginTrue DEF StartDisable
  <1>5. ASSUME NEW m, HearCreated(p, m)
        PROVE  TruthOK'
    <2>1. Hears(p, m) /\ Finish(p, Judged(m.code)) /\ cmd[p].at = "create_post"
      BY <1>5 DEF HearCreated
    <2>2. GoalOK(p) /\ Replied(p, m)
      BY <2>1, HearsTrue
    <2>3. m.code \in {200, 201, 400, 404, 500} /\ cmd[p].goal.op = "create"
      BY <2>1, <2>2 DEF GoalOK, Replied
    <2>4. MaySay(p, Judged(m.code))
      BY <2>1, <2>2, <2>3 DEF Replied, MaySay, Judged
    <2> QED  BY <2>1, <2>4, FinishTrue
  <1>6. ASSUME NEW m, HearDeleteList(p, m)
        PROVE  TruthOK'
    <2> DEFINE named == {t \in m.listed : t.name = cmd[p].goal.name}
    <2>1. Hears(p, m) /\ cmd[p].at = "delete_get"
      BY <1>6 DEF HearDeleteList
    <2>2. GoalOK(p) /\ Replied(p, m) /\ cmd[p].goal.op = "delete"
      BY <2>1, HearsTrue DEF GoalOK
    <2>3. CASE Finish(p, "error")
      BY <2>1, <2>3, FinishTrue DEF MaySay
    <2>4. CASE m.code = 200 /\ named = {} /\ Finish(p, "not_found")
      <3>1. seen[p].absent
        BY <2>1, <2>2, <2>4 DEF Replied
      <3> QED  BY <2>1, <2>4, <3>1, FinishTrue DEF MaySay
    <2>5. CASE m.code = 200 /\ \E t \in named :
                   Send(p, [cmd[p] EXCEPT !.at = "delete_delete"], DeleteTrigger(t.id))
      <3>1. PICK t \in named :
                   Send(p, [cmd[p] EXCEPT !.at = "delete_delete"], DeleteTrigger(t.id))
        BY <2>5
      <3>2. IdHolds(p, t.id)
        BY <2>1, <2>2, <2>5 DEF Replied
      <3>3. KeysOK /\ RowsMove /\ Keeps(p) /\ NowSeen(p)'
        BY <2>1, Observed DEF TruthOK, Hears, RowsMove, vars, tables
      <3>4. cmd'[p].goal = cmd[p].goal => IdHolds(p, t.id)'
        BY <2>2, <3>2, <3>3, IdStays
      <3>5. cmd'[p].at = "delete_delete" /\ cmd'[p].goal = cmd[p].goal
                => GoalOK(p)' /\ Asks(p, DeleteTrigger(t.id))'
        BY <2>2, <3>4 DEF GoalOK, Asks, DeleteTrigger
      <3> QED  BY <2>1, <3>1, <3>5, NextTrue DEF Ats
    <2> QED  BY <1>6, <2>3, <2>4, <2>5 DEF HearDeleteList
  <1>7. ASSUME NEW m, HearDeleted(p, m)
        PROVE  TruthOK'
    <2>1. Hears(p, m) /\ cmd[p].at \in {"delete_delete", "disable_patch"}
      BY <1>7 DEF HearDeleted, Unguarded
    <2>2. Replied(p, m)
      BY <2>1, HearsTrue
    <2>3. m.code \in {200, 201, 400, 404, 500}
      BY <2>2 DEF Replied
    <2>4. CASE Finish(p, "raised")
      BY <2>1, <2>4, FinishTrue DEF MaySay
    <2>5. CASE m.code \in {200, 201, 404} /\ Finish(p, "success")
      <3>1. GoalOK(p) /\ seen[p].absent
        BY <2>1, <2>2, <2>5, HearsTrue DEF Replied
      <3>2. cmd[p].goal.op # "create"
        BY <2>1, <3>1 DEF GoalOK
      <3> QED  BY <2>1, <2>5, <3>1, <3>2, FinishTrue DEF MaySay
    <2> QED  BY <1>7, <2>3, <2>4, <2>5 DEF HearDeleted, Judged
  <1>8. ASSUME NEW m, HearToggleList(p, m)
        PROVE  TruthOK'
    <2>1. Hears(p, m) /\ cmd[p].at \in {"toggle_get", "toggle_get_again"}
      BY <1>8 DEF HearToggleList
    <2>2. GoalOK(p) /\ Replied(p, m) /\ cmd[p].goal.op = "toggle"
      BY <2>1, HearsTrue DEF GoalOK
    <2>3. CASE \E said \in {"error", "success"} : Finish(p, said)
      BY <2>1, <2>2, <2>3, FinishTrue DEF MaySay
    <2>4. CASE /\ cmd[p].at = "toggle_get" /\ m.code = 200
               /\ \A t \in m.listed : t.id # cmd[p].goal.id
               /\ Finish(p, "not_found")
      <3>1. seen[p].absent
        BY <2>2, <2>4 DEF Replied
      <3> QED  BY <2>1, <2>4, <3>1, FinishTrue DEF MaySay
    <2>5. CASE Send(p, [cmd[p] EXCEPT !.at = "toggle_patch"],
                    PatchTrigger(cmd[p].goal.id, cmd[p].goal.flag))
      <3>1. cmd'[p].at = "toggle_patch" /\ cmd'[p].goal = cmd[p].goal
                => GoalOK(p)' /\ Asks(p, PatchTrigger(cmd[p].goal.id, cmd[p].goal.flag))'
        BY <2>2 DEF GoalOK, Asks, PatchTrigger
      <3> QED  BY <2>1, <2>5, <3>1, NextTrue DEF Ats
    <2> QED  BY <1>8, <2>3, <2>4, <2>5 DEF HearToggleList
  <1>9. ASSUME NEW m, HearToggled(p, m)
        PROVE  TruthOK'
    <2>1. Hears(p, m) /\ cmd[p].at = "toggle_patch"
      BY <1>9 DEF HearToggled
    <2>2. GoalOK(p) /\ Replied(p, m) /\ cmd[p].goal.op = "toggle"
      BY <2>1, HearsTrue DEF GoalOK
    <2>3. CASE Finish(p, "error")
      BY <2>1, <2>3, FinishTrue DEF MaySay
    <2>4. CASE m.code = 404 /\ Finish(p, "not_found")
      <3>1. seen[p].absent
        BY <2>1, <2>2, <2>4 DEF Replied
      <3> QED  BY <2>1, <2>4, <3>1, FinishTrue DEF MaySay
    <2>5. CASE Send(p, [cmd[p] EXCEPT !.at = "toggle_get_again"], GetTriggers)
      <3>1. cmd'[p].at = "toggle_get_again" /\ cmd'[p].goal = cmd[p].goal
                => GoalOK(p)' /\ Asks(p, GetTriggers)'
        BY <2>2 DEF GoalOK, Asks, GetTriggers
      <3> QED  BY <2>1, <2>5, <3>1, NextTrue DEF Ats
    <2> QED  BY <1>9, <2>3, <2>4, <2>5 DEF HearToggled
  <1>10. ASSUME GiveUp(p)
         PROVE  TruthOK'
    <2>1. PICK said \in {"raised", "error"} : Finish(p, said)
      BY <1>10 DEF GiveUp
    <2>2. MaySay(p, said)
      BY DEF MaySay
    <2> QED  BY <1>10, <2>1, <2>2, EndsTrue DEF GiveUp
  <1> QED
    BY <1>1, <1>2, <1>3, <1>4, <1>5, <1>6, <1>7, <1>8, <1>9, <1>10 DEF Calls

-----------------------------------------------------------------------------
(* A worker's steps. *)

\* Worker c moves: only its request, its call and its answer change.
WorkerMoves(c) ==
    /\ Observe /\ RowsMove /\ StoreOK' /\ UNCHANGED cmd
    /\ \A m : Underway(m)' => Underway(m)
    /\ \A d \in Client : d # c =>
           serving'[d] = serving[d] /\ calls'[d] = calls[d] /\ answer'[d] = answer[d]

LEMMA WorkerTrue ==
    ASSUME WireInv, TruthOK, NEW c \in Client, WorkerMoves(c),
           \A p \in Caller : Stays(p) /\ CallerOK(p) =>
               /\ ~Free(c)' /\ serving'[c].no = cmd[p].no => Serving(p, calls[c], answer[c])'
               /\ \A m \in replies' : m.no = cmd[p].no => m \in replies \/ Replied(p, m)'
    PROVE  TruthOK'
  <1>1. cmd' = cmd /\ RowsMove /\ Observe /\ StoreOK' /\ \A m : Underway(m)' => Underway(m)
    BY DEF WorkerMoves
  <1>2. KeysOK' /\ seen' \in [Caller -> Glance]
    BY <1>1, RowsStep, SeenTyped DEF TruthOK
  <1>3. ASSUME NEW p \in Caller
        PROVE  (Waiting(p)' => CallerOK(p)') /\ TrueOf(p)'
    <2>1. TrueOf(p)'
      BY <1>1, TrueKept
    <2>2. ASSUME Waiting(p)' PROVE CallerOK(p)'
      <3>1. Stays(p) /\ CallerOK(p)
        BY <1>1, <2>2, StaysStill DEF Waiting, TruthOK
      <3>2. \A d \in Client : ~Free(d)' /\ serving'[d].no = cmd[p].no =>
                \/ Serving(p, calls[d], answer[d])'
                \/ /\ ~Free(d) /\ serving[d].no = cmd[p].no
                   /\ calls'[d] = calls[d] /\ answer'[d] = answer[d]
        <4> SUFFICES ASSUME NEW d \in Client, ~Free(d)' /\ serving'[d].no = cmd[p].no
                     PROVE  \/ Serving(p, calls[d], answer[d])'
                            \/ /\ ~Free(d) /\ serving[d].no = cmd[p].no
                               /\ calls'[d] = calls[d] /\ answer'[d] = answer[d]
          OBVIOUS
        <4>1. CASE d = c
          BY <3>1, <4>1
        <4>2. CASE d # c
          BY <4>2 DEF WorkerMoves, Free
        <4> QED  BY <4>1, <4>2
      <3>3. \A m \in replies' : m.no = cmd[p].no => m \in replies \/ Replied(p, m)'
        BY <3>1
      <3> QED  BY <1>1, <3>1, <3>2, <3>3, CallerKept
    <2> QED  BY <2>1, <2>2
  <1> QED  BY <1>1, <1>2, <1>3 DEF TruthOK

\* The request of a waiting caller's number is the caller's, and calls for its answer.
LEMMA AnswerTrue ==
    ASSUME NEW m, Underway(m), NEW code, NEW listed, Answer(m, code, listed),
           NEW p \in Caller, CallerOK(p), NEW r \in replies', r.no = cmd[p].no, r \notin replies
    PROVE  m.by = p /\ m.no = cmd[p].no /\ r.code = code /\ r.listed = listed
  <1>1. r = [no |-> m.no, code |-> code, listed |-> listed]
    BY DEF Answer
  <1> QED  BY <1>1 DEF CallerOK

LEMMA ServeListTrue ==
    ASSUME WireInv, TruthOK, Observe, NEW c \in Client, NEW m \in requests, ServeList(c, m)
    PROVE  TruthOK'
  <1>1. /\ rows' = rows /\ next_id' = next_id /\ calls' = calls /\ answer' = answer
        /\ cmd' = cmd /\ serving' = serving /\ requests' = requests \ {m}
        /\ m.asks.op = "get" /\ Free(c)
    BY DEF ServeList, vars, tables
  <1>2. WorkerMoves(c)
    <2>1. \A n : Underway(n)' => Underway(n)
      BY <1>1 DEF Underway, Free
    <2>2. StoreOK'
      BY <1>1 DEF TruthOK, StoreOK, Free
    <2> QED  BY <1>1, <2>1, <2>2 DEF WorkerMoves, RowsMove
  <1>3. ASSUME NEW p \in Caller, Stays(p), CallerOK(p)
        PROVE  /\ ~Free(c)' /\ serving'[c].no = cmd[p].no => Serving(p, calls[c], answer[c])'
               /\ \A r \in replies' : r.no = cmd[p].no => r \in replies \/ Replied(p, r)'
    <2>1. Free(c)'
      BY <1>1 DEF Free
    <2>2. ASSUME NEW r \in replies', r.no = cmd[p].no, r \notin replies
          PROVE  Replied(p, r)'
      <3>1. Underway(m) /\ NowSeen(p)' /\ cmd[p].goal = cmd'[p].goal
        BY <1>3 DEF Underway, Stays
      <3>2. CASE Answer(m, 200, {TriggerDto(q) : q \in rows})
        <4>1. /\ m.no = cmd[p].no /\ r.code = 200 /\ r.listed = {TriggerDto(q) : q \in rows}
          BY <1>3, <2>2, <3>1, <3>2, AnswerTrue
        <4>2. cmd[p].at \in {"delete_get", "toggle_get", "toggle_get_again"}
          BY <1>1, <1>3, <3>1, <4>1 DEF CallerOK, Asks, GoalOK
        <4>3. CASE cmd[p].at = "delete_get"
          <5>1. cmd[p].goal.op = "delete"
            BY <1>3, <4>3 DEF CallerOK, GoalOK
          <5>2. \A q \in rows : TriggerDto(q).id = q.id /\ TriggerDto(q).name = q.name
            BY DEF TriggerDto
          <5>3. (\A t \in r.listed : t.name # cmd[p].goal.name) => seen'[p].absent
            BY <1>1, <3>1, <4>1, <5>1, <5>2 DEF NowSeen
          <5>4. ASSUME NEW t \in r.listed, t.name = cmd[p].goal.name
                PROVE  IdHolds(p, t.id)'
            <6>1. PICK q \in rows : t.id = q.id /\ t.name = q.name
              BY <4>1, <5>2, <5>4
            <6> QED  BY <1>1, <3>1, <5>4, <6>1 DEF IdHolds, TruthOK, KeysOK
          <5> QED  BY <1>1, <4>1, <4>3, <5>3, <5>4 DEF Replied
        <4>4. CASE cmd[p].at = "toggle_get"
          <5>1. cmd[p].goal.op = "toggle"
            BY <1>3, <4>4 DEF CallerOK, GoalOK
          <5>2. \A q \in rows : TriggerDto(q).id = q.id
            BY DEF TriggerDto
          <5>3. (\A t \in r.listed : t.id # cmd[p].goal.id) => seen'[p].absent
            BY <1>1, <3>1, <4>1, <5>1, <5>2 DEF NowSeen
          <5> QED  BY <1>1, <4>1, <4>4, <5>3 DEF Replied
        <4>5. CASE cmd[p].at = "toggle_get_again"
          BY <1>1, <4>1, <4>5 DEF Replied
        <4> QED  BY <4>2, <4>3, <4>4, <4>5
      <3>3. CASE Answer(m, 500, {})
        <4>1. r.code = 500
          BY <1>3, <2>2, <3>1, <3>3, AnswerTrue
        <4> QED  BY <4>1 DEF Replied
      <3> QED  BY <3>2, <3>3 DEF ServeList
    <2> QED  BY <2>1, <2>2
  <1> QED  BY <1>2, <1>3, WorkerTrue

\* The answer of a request is judged by where its caller is.
LEMMA RespondTrue ==
    ASSUME WireInv, TruthOK, Observe, NEW c \in Client, Respond(c)
    PROVE  TruthOK'
  <1> DEFINE m == serving[c]
             code == CodeOf(serving[c].asks.op, answer[c])
  <1>1. /\ rows' = rows /\ next_id' = next_id /\ calls' = calls
        /\ cmd' = cmd /\ requests' = requests /\ ~Free(c)
        /\ answer' = [answer EXCEPT ![c] = "none"]
        /\ serving' = [serving EXCEPT ![c] = None]
        /\ Answer(m, code, {})
    BY DEF Respond, tables
  <1>2. DOMAIN serving = Client /\ DOMAIN calls = Client /\ DOMAIN answer = Client
    BY DEF WireInv, CmdOK, TruthOK, StoreOK
  <1>3. /\ Free(c)' /\ \A d \in Client : d # c => serving'[d] = serving[d]
        /\ \A d \in Client : d # c => answer'[d] = answer[d]
    BY <1>1, <1>2 DEF Free
  <1>4. WorkerMoves(c)
    <2>1. \A n : Underway(n)' => Underway(n)
      BY <1>1, <1>3 DEF Underway, Free
    <2>2. StoreOK'
      BY <1>1, <1>2, <1>3 DEF TruthOK, StoreOK, Free
    <2> QED  BY <1>1, <1>3, <2>1, <2>2 DEF WorkerMoves, RowsMove
  <1>5. ASSUME NEW p \in Caller, Stays(p), CallerOK(p)
        PROVE  /\ ~Free(c)' /\ serving'[c].no = cmd[p].no => Serving(p, calls[c], answer[c])'
               /\ \A r \in replies' : r.no = cmd[p].no => r \in replies \/ Replied(p, r)'
    <2>1. ASSUME NEW r \in replies', r.no = cmd[p].no, r \notin replies
          PROVE  Replied(p, r)'
      <3>1. Underway(m)
        BY <1>1 DEF Underway
      <3>2. m.no = cmd[p].no /\ r.code = code
        BY <1>1, <1>5, <2>1, <3>1, AnswerTrue
      <3>3. /\ Serving(p, calls[c], answer[c]) /\ Asks(p, m.asks) /\ GoalOK(p)
            /\ m.asks.op # "get"
        BY <1>1, <1>5, <3>1, <3>2 DEF CallerOK, TruthOK, StoreOK
      <3>4. Replied(p, r)
        <4>1. /\ answer[c] = "success" => code = IF m.asks.op = "post" THEN 201 ELSE 200
              /\ answer[c] = "invalid" => code = 400
              /\ answer[c] = "not_found" => code = 404
              /\ answer[c] \notin {"success", "invalid", "not_found"} => code = 500
          BY DEF CodeOf
        <4> HIDE DEF code, m
        <4>2. code \in {200, 201, 400, 404, 500}
          BY <4>1
        <4>3. code < 400 => answer[c] = "success"
          BY <4>1
        <4>4. code \in {400, 404} => answer[c] \in {"invalid", "not_found"}
          BY <4>1
        <4>5. code \in {200, 201, 404} => answer[c] \in {"success", "not_found"}
          BY <4>1
        <4>6. code = 404 => answer[c] = "not_found"
          BY <4>1
        <4>7. cmd[p].at \notin {"delete_get", "toggle_get"}
          BY <3>3 DEF Asks
        <4> QED  BY <3>2, <3>3, <4>2, <4>3, <4>4, <4>5, <4>6, <4>7 DEF Serving, Replied
      <3> QED  BY <1>5, <3>4, RepliedStays DEF CallerOK
    <2> QED  BY <1>3, <2>1
  <1> QED  BY <1>4, <1>5, WorkerTrue

\* Worker c runs a statement: its call is x next, and its answer a.
Does(c, x, a) ==
    /\ RowsMove /\ "at" \in DOMAIN x
    /\ DOMAIN calls' = Client /\ DOMAIN answer' = Client
    /\ calls'[c] = x /\ answer'[c] = a
    /\ \A d \in Client : d # c => calls'[d] = calls[d] /\ answer'[d] = answer[d]

LEMMA GoesOn ==
    ASSUME StoreOK, RowsMove, NEW c \in Client, NEW x, GoTo(c, x), "at" \in DOMAIN x
    PROVE  Does(c, x, "none")
  BY DEF StoreOK, GoTo, Does

LEMMA Returns ==
    ASSUME StoreOK, RowsMove, NEW c \in Client, NEW a, Return(c, a)
    PROVE  Does(c, Idle, a)
  BY DEF StoreOK, Return, Does, Idle

LEMMA DoesTrue ==
    ASSUME WireInv, TruthOK, Observe, UNCHANGED <<cmd, replies>>, NEW c \in Client,
           NEW x, NEW a, Does(c, x, a),
           \A m : Underway(m)' => Underway(m),
           \A d \in Client : d # c => serving'[d] = serving[d],
           serving'[c].asks.op # "get",
           \A p \in Caller : Stays(p) /\ CallerOK(p) /\ serving'[c].no = cmd[p].no =>
               Serving(p, x, a)'
    PROVE  TruthOK'
  <1>1. WorkerMoves(c)
    <2>1. StoreOK'
      BY DEF TruthOK, StoreOK, Does, Free
    <2> QED  BY <2>1 DEF WorkerMoves, Does
  <1>2. ASSUME NEW p \in Caller, Stays(p), CallerOK(p)
        PROVE  /\ ~Free(c)' /\ serving'[c].no = cmd[p].no => Serving(p, calls[c], answer[c])'
               /\ \A m \in replies' : m.no = cmd[p].no => m \in replies \/ Replied(p, m)'
    BY <1>2 DEF Does
  <1> QED  BY <1>1, <1>2, WorkerTrue

\* The statements that leave the table, insert, and delete.
LEMMA StatementRows ==
    /\ UNCHANGED tables => RowsMove
    /\ \A n, k, flag : ~Taken(n, k) /\ InsertRow(n, k, flag) => RowsMove
    /\ \A i : DeleteRows(WithId(i)) => RowsMove
  <1>1. UNCHANGED tables => RowsMove
    BY DEF tables, RowsMove
  <1>2. ASSUME NEW n, NEW k, NEW flag, ~Taken(n, k), InsertRow(n, k, flag)
        PROVE  RowsMove
    <2> DEFINE r == [id |-> next_id, name |-> n, key |-> k, enabled |-> flag]
    <2>1. r.id = next_id /\ r.name = n
      OBVIOUS
    <2>2. rows' = rows \cup {r} /\ next_id' = next_id + 1 /\ \A q \in rows : q.name # n
      BY <1>2 DEF InsertRow, Taken
    <2> HIDE DEF r
    <2> QED  BY <2>1, <2>2 DEF RowsMove
  <1>3. ASSUME NEW i, DeleteRows(WithId(i))
        PROVE  RowsMove
    BY <1>3 DEF DeleteRows, RowsMove
  <1> QED  BY <1>1, <1>2, <1>3

LEMMA ServeTrue ==
    ASSUME WireInv, TruthOK, Observe, NEW c \in Client, NEW m \in requests, Serve(c, m)
    PROVE  TruthOK'
  <1>1. /\ cmd' = cmd /\ replies' = replies /\ requests' = requests \ {m}
        /\ serving' = [serving EXCEPT ![c] = m] /\ DOMAIN serving = Client
        /\ StoreOK /\ m.asks.op # "get" /\ Underway(m)
    BY DEF Serve, WireInv, CmdOK, TruthOK, Underway
  <1>2. serving'[c] = m /\ \A d \in Client : d # c => serving'[d] = serving[d]
    BY <1>1
  <1>3. \A n : Underway(n)' => Underway(n)
    BY <1>1, <1>2 DEF Underway, Free
  <1>4. ASSUME NEW x, NEW a, Does(c, x, a),
               \A p \in Caller : Stays(p) /\ GoalOK(p) /\ Asks(p, m.asks) => Serving(p, x, a)'
        PROVE  TruthOK'
    <2>1. \A p \in Caller : Stays(p) /\ CallerOK(p) /\ serving'[c].no = cmd[p].no =>
              Serving(p, x, a)'
      BY <1>1, <1>2, <1>4 DEF CallerOK
    <2> QED  BY <1>1, <1>2, <1>3, <1>4, <2>1, DoesTrue
  <1>5. ASSUME m.asks.op = "post", CreateInsert(c, m.asks.body.name, m.asks.body.key)
        PROVE  TruthOK'
    <2> DEFINE n == m.asks.body.name
               k == m.asks.body.key
               x == [at |-> "create_select", key |-> k]
    <2>1. CASE Taken(n, k) /\ Return(c, "invalid") /\ UNCHANGED tables
      <3>1. Does(c, Idle, "invalid")
        BY <1>1, <2>1, Returns, StatementRows
      <3>2. ASSUME NEW p \in Caller, Stays(p), GoalOK(p), Asks(p, m.asks)
            PROVE  Serving(p, Idle, "invalid")'
        <4>1. /\ cmd'[p] = cmd[p] /\ cmd[p].at = "create_post" /\ cmd[p].goal.op = "create"
              /\ n = cmd[p].goal.name /\ k = cmd[p].goal.key /\ NowSeen(p)'
          BY <1>5, <3>2 DEF Stays, GoalOK, Asks
        <4>2. seen'[p].taken
          BY <2>1, <4>1 DEF Taken, NowSeen, tables
        <4> QED  BY <4>1, <4>2 DEF Serving
      <3> QED  BY <3>1, <3>2, <1>4
    <2>2. CASE ~Taken(n, k) /\ InsertRow(n, k, TRUE) /\ GoTo(c, x)
      <3>1. Does(c, x, "none")
        BY <1>1, <2>2, GoesOn, StatementRows
      <3>2. \E r \in rows' : r.name = n
        <4> DEFINE r == [id |-> next_id, name |-> n, key |-> k, enabled |-> TRUE]
        <4>1. r \in rows' /\ r.name = n
          BY <2>2 DEF InsertRow
        <4> QED  BY <4>1
      <3>3. ASSUME NEW p \in Caller, Stays(p), GoalOK(p), Asks(p, m.asks)
            PROVE  Serving(p, x, "none")'
        <4>1. /\ cmd'[p] = cmd[p] /\ cmd[p].at = "create_post" /\ cmd[p].goal.op = "create"
              /\ n = cmd[p].goal.name /\ NowSeen(p)'
          BY <1>5, <3>3 DEF Stays, GoalOK, Asks
        <4>2. seen'[p].stored
          BY <3>2, <4>1 DEF NowSeen
        <4> QED  BY <4>1, <4>2 DEF Serving
      <3> QED  BY <3>1, <3>3, <1>4
    <2> QED  BY <1>5, <2>1, <2>2 DEF CreateInsert
  <1>6. ASSUME m.asks.op = "delete", DeleteById(c, m.asks.id)
        PROVE  TruthOK'
    <2> DEFINE i == m.asks.id
    <2>1. UNCHANGED tables /\ RowsMove /\ rows' = rows
      BY <1>6, StatementRows DEF DeleteById, tables
    <2>2. ASSUME NEW p \in Caller, Stays(p), GoalOK(p), Asks(p, m.asks)
          PROVE  /\ cmd'[p] = cmd[p] /\ cmd[p].at = "delete_delete" /\ IdHolds(p, i)
                 /\ Keeps(p)
      BY <1>6, <2>2 DEF Stays, GoalOK, Asks
    <2>3. CASE WithId(i) = {} /\ Return(c, "not_found")
      <3>1. Does(c, Idle, "not_found")
        BY <1>1, <2>1, <2>3, Returns
      <3>2. ASSUME NEW p \in Caller, Stays(p), GoalOK(p), Asks(p, m.asks)
            PROVE  Serving(p, Idle, "not_found")'
        <4>1. seen'[p].absent
          BY <2>2, <2>3, <3>2 DEF IdHolds, WithId, Keeps
        <4> QED  BY <2>2, <3>2, <4>1 DEF Serving
      <3> QED  BY <3>1, <3>2, <1>4
    <2>4. CASE \E r \in WithId(i) : GoTo(c, [at |-> "delete_list", name |-> r.name])
      <3>1. PICK r \in WithId(i) : GoTo(c, [at |-> "delete_list", name |-> r.name])
        BY <2>4
      <3> DEFINE x == [at |-> "delete_list", name |-> r.name]
      <3>2. Does(c, x, "none")
        BY <1>1, <2>1, <3>1, GoesOn
      <3>3. ASSUME NEW p \in Caller, Stays(p), GoalOK(p), Asks(p, m.asks)
            PROVE  Serving(p, x, "none")'
        <4>1. r.name = cmd[p].goal.name
          BY <2>2, <3>3 DEF IdHolds, WithId
        <4> QED  BY <2>2, <3>3, <4>1 DEF Serving
      <3> QED  BY <3>2, <3>3, <1>4
    <2> QED  BY <1>6, <2>3, <2>4 DEF DeleteById
  <1>7. ASSUME m.asks.op = "patch", ToggleList(c, m.asks.id, m.asks.flag)
        PROVE  TruthOK'
    <2> DEFINE i == m.asks.id
               x == [at |-> "toggle_select", id |-> i, flag |-> m.asks.flag]
    <2>1. UNCHANGED tables /\ RowsMove /\ rows' = rows
      BY <1>7, StatementRows DEF ToggleList, tables
    <2>2. ASSUME NEW p \in Caller, Stays(p), GoalOK(p), Asks(p, m.asks)
          PROVE  /\ cmd'[p] = cmd[p] /\ cmd[p].at \in {"disable_patch", "toggle_patch"}
                 /\ cmd[p].goal.op \in {"toggle", "disable"} /\ i = cmd[p].goal.id
                 /\ NowSeen(p)'
      BY <1>7, <2>2 DEF Stays, GoalOK, Asks
    <2>3. CASE WithId(i) = {} /\ Return(c, "not_found")
      <3>1. Does(c, Idle, "not_found")
        BY <1>1, <2>1, <2>3, Returns
      <3>2. ASSUME NEW p \in Caller, Stays(p), GoalOK(p), Asks(p, m.asks)
            PROVE  Serving(p, Idle, "not_found")'
        <4>1. seen'[p].absent
          BY <2>1, <2>2, <2>3, <3>2 DEF WithId, NowSeen
        <4> QED  BY <2>2, <3>2, <4>1 DEF Serving
      <3> QED  BY <3>1, <3>2, <1>4
    <2>4. CASE GoTo(c, x)
      <3>1. Does(c, x, "none")
        BY <1>1, <2>1, <2>4, GoesOn
      <3>2. ASSUME NEW p \in Caller, Stays(p), GoalOK(p), Asks(p, m.asks)
            PROVE  Serving(p, x, "none")'
        BY <2>2, <3>2 DEF Serving
      <3> QED  BY <3>1, <3>2, <1>4
    <2> QED  BY <1>7, <2>3, <2>4 DEF ToggleList
  <1> QED  BY <1>5, <1>6, <1>7 DEF Serve

LEMMA WorkTrue ==
    ASSUME WireInv, TruthOK, Observe, NEW c \in Client, Work(c)
    PROVE  TruthOK'
  <1>1. /\ cmd' = cmd /\ replies' = replies /\ requests' = requests /\ serving' = serving
        /\ StoreOK /\ ~Free(c) /\ serving[c].asks.op # "get"
    BY DEF Work, remote, TruthOK, StoreOK
  <1>2. \A m : Underway(m)' => Underway(m)
    BY <1>1 DEF Underway, Free
  <1> DEFINE Mine(p) == Stays(p) /\ GoalOK(p) /\ NowSeen(p) /\ Serving(p, calls[c], answer[c])
  <1>3. ASSUME NEW x, NEW a, Does(c, x, a),
               \A p \in Caller : Mine(p) => Serving(p, x, a)'
        PROVE  TruthOK'
    <2>1. \A p \in Caller : Stays(p) /\ CallerOK(p) /\ serving'[c].no = cmd[p].no => Mine(p)
      BY <1>1 DEF CallerOK
    <2> HIDE DEF Mine
    <2> QED  BY <1>1, <1>2, <1>3, <2>1, DoesTrue
  \* Where the call of a worker at p's request is, p's command is.
  <1>4. ASSUME NEW p \in Caller, Mine(p)
        PROVE  /\ cmd'[p] = cmd[p] /\ Keeps(p) /\ NowSeen(p)'
               /\ calls[c].at = "create_select" =>
                      cmd[p].at \notin {"delete_delete", "disable_patch", "toggle_patch"}
               /\ calls[c].at \in {"delete_list", "delete_row"} =>
                      cmd[p].at \notin {"create_post", "disable_patch", "toggle_patch"}
               /\ calls[c].at \in {"toggle_select", "toggle_delete", "toggle_insert",
                                   "toggle_refresh"} =>
                      cmd[p].at \notin {"create_post", "delete_delete"}
    BY <1>4 DEF Stays, Serving, Idle
  <1>5. ASSUME CreateSelect(c)
        PROVE  TruthOK'
    <2>1. PICK a \in {"success", "error"} : Return(c, a)
      BY <1>5 DEF CreateSelect
    <2>2. Does(c, Idle, a)
      BY <1>1, <1>5, <2>1, Returns, StatementRows DEF CreateSelect
    <2>3. ASSUME NEW p \in Caller, Mine(p)
          PROVE  Serving(p, Idle, a)'
      BY <1>4, <1>5, <2>3 DEF CreateSelect, Serving, Keeps, Idle
    <2> QED  BY <1>3, <2>2, <2>3
  <1>6. ASSUME DeleteList(c)
        PROVE  TruthOK'
    <2> DEFINE n == calls[c].name
    <2>1. UNCHANGED tables /\ RowsMove /\ rows' = rows /\ next_id' = next_id
          /\ calls[c].at = "delete_list"
      BY <1>6, StatementRows DEF DeleteList, tables
    <2>2. ASSUME NEW p \in Caller, Mine(p), cmd[p].at = "delete_delete"
          PROVE  n = cmd[p].goal.name /\ cmd[p].goal.op = "delete"
      BY <2>1, <2>2 DEF Serving, Idle, GoalOK
    <2>3. CASE ~Stored(n) /\ Return(c, "not_found")
      <3>1. Does(c, Idle, "not_found")
        BY <1>1, <2>1, <2>3, Returns
      <3>2. ASSUME NEW p \in Caller, Mine(p)
            PROVE  Serving(p, Idle, "not_found")'
        <4>1. cmd[p].at = "delete_delete" => seen'[p].absent
          BY <1>4, <2>1, <2>2, <2>3, <3>2 DEF Stored, NowSeen
        <4> QED  BY <1>4, <2>1, <3>2, <4>1 DEF Serving
      <3> QED  BY <1>3, <3>1, <3>2
    <2>4. CASE \E r \in rows : r.name = n /\ GoTo(c, [at |-> "delete_row", id |-> r.id, name |-> n])
      <3>1. PICK r \in rows :
                r.name = n /\ GoTo(c, [at |-> "delete_row", id |-> r.id, name |-> n])
        BY <2>4
      <3>2. PICK x : x = [at |-> "delete_row", id |-> r.id, name |-> n]
        OBVIOUS
      <3>3. Does(c, x, "none")
        BY <1>1, <2>1, <3>1, <3>2, GoesOn
      <3>4. ASSUME NEW p \in Caller, Mine(p)
            PROVE  Serving(p, x, "none")'
        <4>1. cmd[p].at = "delete_delete" => IdHolds(p, r.id)'
          BY <1>4, <2>1, <2>2, <3>1, <3>4 DEF IdHolds, TruthOK, KeysOK
        <4> QED  BY <1>4, <2>1, <3>2, <3>4, <4>1 DEF Serving
      <3> HIDE DEF Mine
      <3> QED  BY <1>3, <3>3, <3>4
    <2> QED  BY <1>6, <2>3, <2>4 DEF DeleteList
  <1>7. ASSUME DeleteRow(c)
        PROVE  TruthOK'
    <2> DEFINE i == calls[c].id
    <2>1. calls[c].at = "delete_row" /\ RowsMove /\ rows' = rows \ WithId(i)
      BY <1>7, StatementRows DEF DeleteRow, DeleteRows
    <2>2. Does(c, Idle, "success")
      BY <1>1, <1>7, <2>1, Returns DEF DeleteRow
    <2>3. ASSUME NEW p \in Caller, Mine(p)
          PROVE  Serving(p, Idle, "success")'
      <3>1. ASSUME cmd[p].at = "delete_delete" PROVE seen'[p].absent
        <4>1. IdHolds(p, i) /\ cmd[p].goal.op = "delete"
          BY <2>1, <2>3, <3>1 DEF Serving, Idle, GoalOK
        <4>2. CASE seen[p].absent
          BY <1>4, <2>3, <4>2 DEF Keeps
        <4>3. CASE \E r \in rows : r.id = i
          <5>1. PICK r \in rows : r.id = i /\ r.name = cmd[p].goal.name
            BY <4>1, <4>3 DEF IdHolds
          <5>2. \A q \in rows' : q.name # cmd[p].goal.name
            BY <2>1, <5>1 DEF WithId, TruthOK, KeysOK
          <5> QED  BY <1>4, <2>3, <4>1, <5>2 DEF NowSeen
        <4> QED  BY <4>1, <4>2, <4>3 DEF IdHolds
      <3> QED  BY <1>4, <2>1, <2>3, <3>1 DEF Serving
    <2> QED  BY <1>3, <2>2, <2>3
  <1>8. ASSUME ToggleSelect(c)
        PROVE  TruthOK'
    <2> DEFINE i == calls[c].id
    <2>1. UNCHANGED tables /\ RowsMove /\ rows' = rows /\ calls[c].at = "toggle_select"
      BY <1>8, StatementRows DEF ToggleSelect, tables
    <2>2. ASSUME NEW p \in Caller, Mine(p), cmd[p].at \in {"disable_patch", "toggle_patch"}
          PROVE  i = cmd[p].goal.id /\ cmd[p].goal.op \in {"toggle", "disable"}
      BY <2>1, <2>2 DEF Serving, Idle, GoalOK
    <2>3. CASE WithId(i) = {} /\ Return(c, "not_found")
      <3>1. Does(c, Idle, "not_found")
        BY <1>1, <2>1, <2>3, Returns
      <3>2. ASSUME NEW p \in Caller, Mine(p)
            PROVE  Serving(p, Idle, "not_found")'
        <4>1. cmd[p].at \in {"disable_patch", "toggle_patch"} => seen'[p].absent
          BY <1>4, <2>1, <2>2, <2>3, <3>2 DEF WithId, NowSeen
        <4> QED  BY <1>4, <2>1, <3>2, <4>1 DEF Serving
      <3> QED  BY <1>3, <3>1, <3>2
    <2>4. CASE \E r \in WithId(i) :
                   GoTo(c, [at |-> "toggle_delete", row |-> r, flag |-> calls[c].flag])
      <3>1. PICK r \in WithId(i) :
                   GoTo(c, [at |-> "toggle_delete", row |-> r, flag |-> calls[c].flag])
        BY <2>4
      <3>2. PICK x : x = [at |-> "toggle_delete", row |-> r, flag |-> calls[c].flag]
        OBVIOUS
      <3>3. Does(c, x, "none")
        BY <1>1, <2>1, <3>1, <3>2, GoesOn
      <3>4. ASSUME NEW p \in Caller, Mine(p)
            PROVE  Serving(p, x, "none")'
        <4>1. r.id = i
          BY DEF WithId
        <4> QED  BY <1>4, <2>1, <2>2, <3>2, <3>4, <4>1 DEF Serving
      <3> HIDE DEF Mine
      <3> QED  BY <1>3, <3>3, <3>4
    <2> QED  BY <1>8, <2>3, <2>4 DEF ToggleSelect
  <1>9. ASSUME ToggleDelete(c)
        PROVE  TruthOK'
    <2> DEFINE i == calls[c].row.id
    <2>1. /\ calls[c].at = "toggle_delete" /\ RowsMove /\ rows' = rows \ WithId(i)
          /\ GoTo(c, [calls[c] EXCEPT !.at = "toggle_insert"])
      BY <1>9, StatementRows DEF ToggleDelete, DeleteRows
    <2>2. PICK x : x = [calls[c] EXCEPT !.at = "toggle_insert"]
      OBVIOUS
    <2>3. x.at = "toggle_insert" /\ Does(c, x, "none")
      <3>1. "at" \in DOMAIN x /\ x.at = "toggle_insert"
        BY <1>1, <2>2 DEF StoreOK
      <3> QED  BY <1>1, <2>1, <2>2, <3>1, GoesOn
    <2>4. ASSUME NEW p \in Caller, Mine(p)
          PROVE  Serving(p, x, "none")'
      <3>1. cmd[p].at \in {"disable_patch", "toggle_patch"} => seen'[p].absent
        <4>1. \A r \in rows' : r.id # i
          BY <2>1 DEF WithId
        <4> QED  BY <1>4, <2>1, <2>4, <4>1 DEF Serving, Idle, GoalOK, NowSeen
      <3>2. cmd'[p] = cmd[p] /\ cmd[p].at \notin {"create_post", "delete_delete"}
        BY <1>4, <2>1, <2>4
      <3> HIDE DEF Mine
      <3> QED  BY <2>3, <3>1, <3>2 DEF Serving
    <2> HIDE DEF Mine
    <2> QED  BY <1>3, <2>3, <2>4
  <1>10. ASSUME NEW p \in Caller, Mine(p), calls[c].at \in {"toggle_insert", "toggle_refresh"}
         PROVE  cmd[p].at \in {"disable_patch", "toggle_patch"} => seen'[p].absent
    BY <1>4, <1>10 DEF Serving, Idle, Keeps
  <1>11. ASSUME ToggleInsert(c)
         PROVE  TruthOK'
    <2>1. calls[c].at = "toggle_insert"
      BY <1>11 DEF ToggleInsert
    <2>2. CASE Return(c, "error") /\ UNCHANGED tables
      <3>1. Does(c, Idle, "error")
        BY <1>1, <2>2, Returns, StatementRows
      <3>2. ASSUME NEW p \in Caller, Mine(p)
            PROVE  Serving(p, Idle, "error")'
        BY <1>4, <1>10, <2>1, <3>2 DEF Serving
      <3> QED  BY <1>3, <3>1, <3>2
    <2>3. CASE /\ ~Taken(calls[c].row.name, calls[c].row.key)
               /\ InsertRow(calls[c].row.name, calls[c].row.key, calls[c].flag)
               /\ GoTo(c, [at |-> "toggle_refresh", id |-> calls[c].row.id])
      <3>1. RowsMove
        BY <2>3, StatementRows
      <3>2. PICK x : x = [at |-> "toggle_refresh", id |-> calls[c].row.id]
        OBVIOUS
      <3>3. Does(c, x, "none")
        BY <1>1, <2>3, <3>1, <3>2, GoesOn
      <3>4. ASSUME NEW p \in Caller, Mine(p)
            PROVE  Serving(p, x, "none")'
        BY <1>4, <1>10, <2>1, <3>2, <3>4 DEF Serving
      <3> HIDE DEF Mine
      <3> QED  BY <1>3, <3>3, <3>4
    <2> QED  BY <1>11, <2>2, <2>3 DEF ToggleInsert
  <1>12. ASSUME ToggleRefresh(c)
         PROVE  TruthOK'
    <2>1. PICK a \in {"success", "error"} : Return(c, a)
      BY <1>12 DEF ToggleRefresh
    <2>2. Does(c, Idle, a)
      BY <1>1, <1>12, <2>1, Returns, StatementRows DEF ToggleRefresh
    <2>3. ASSUME NEW p \in Caller, Mine(p)
          PROVE  Serving(p, Idle, a)'
      BY <1>4, <1>10, <1>12, <2>3 DEF ToggleRefresh, Serving
    <2> QED  BY <1>3, <2>2, <2>3
  <1>13. ASSUME Crash(c)
         PROVE  TruthOK'
    <2>1. Does(c, Idle, answer[c])
      BY <1>1, <1>13, StatementRows DEF Crash, Does, StoreOK, Idle
    <2>2. ASSUME NEW p \in Caller, Mine(p), NEW a, a = answer[c]
          PROVE  Serving(p, Idle, a)'
      BY <1>4, <2>2 DEF Serving, Keeps
    <2> QED  BY <1>3, <2>1, <2>2
  <1> QED
    BY <1>5, <1>6, <1>7, <1>8, <1>9, <1>11, <1>12, <1>13 DEF Work

-----------------------------------------------------------------------------

LEMMA InitTrue == RemoteInit => TruthOK
  <1> SUFFICES ASSUME RemoteInit PROVE TruthOK
    OBVIOUS
  <1>1. PICK r \in [id: {1}, name: Name, key: Key, enabled: {TRUE}] : rows = {r}
    BY DEF RemoteInit
  <1>2. KeysOK
    BY <1>1 DEF RemoteInit, KeysOK
  <1>3. StoreOK
    BY DEF RemoteInit, StoreOK, Free, Idle
  <1>4. seen \in [Caller -> Glance]
    BY DEF RemoteInit, Nothing, Glance
  <1>5. ASSUME NEW p \in Caller
        PROVE  (Waiting(p) => CallerOK(p)) /\ TrueOf(p)
    BY DEF RemoteInit, Waiting, TrueOf, MaySay
  <1> QED  BY <1>2, <1>3, <1>4, <1>5 DEF TruthOK

LEMMA StepTrue ==
    ASSUME WireInv, TruthOK, [RemoteNext]_RemoteVars
    PROVE  TruthOK'
  <1>1. ASSUME NEW p \in Caller, Calls(p), Observe PROVE TruthOK'
    BY <1>1, CallsTrue
  <1>2. ASSUME NEW c \in Client, Serves(c), Observe PROVE TruthOK'
    <2>1. CASE \E m \in requests : ServeList(c, m) \/ Serve(c, m)
      BY <1>2, <2>1, ServeListTrue, ServeTrue
    <2>2. CASE Work(c)
      BY <1>2, <2>2, WorkTrue
    <2>3. CASE Respond(c)
      BY <1>2, <2>3, RespondTrue
    <2> QED  BY <1>2, <2>1, <2>2, <2>3 DEF Serves
  <1>3. CASE UNCHANGED RemoteVars
    <2>1. /\ rows' = rows /\ next_id' = next_id /\ calls' = calls /\ answer' = answer
          /\ cmd' = cmd /\ requests' = requests /\ replies' = replies
          /\ serving' = serving /\ sent' = sent /\ seen' = seen
      BY <1>3 DEF RemoteVars, vars, tables, remote
    <2>2. KeysOK' /\ StoreOK' /\ seen' \in [Caller -> Glance]
      BY <2>1 DEF TruthOK, KeysOK, StoreOK, Free
    <2>3. ASSUME NEW p \in Caller
          PROVE  (Waiting(p)' => CallerOK(p)') /\ TrueOf(p)'
      <3>1. \A i : IdHolds(p, i)' <=> IdHolds(p, i)
        BY <2>1 DEF IdHolds
      <3>2. ASSUME CallerOK(p) PROVE CallerOK(p)'
        <4>1. NowSeen(p)' /\ GoalOK(p)'
          BY <2>1, <3>2 DEF CallerOK, NowSeen, GoalOK
        <4>2. \A m : Underway(m)' /\ m.no = cmd'[p].no => m.by = p /\ Asks(p, m.asks)'
          BY <2>1, <3>1, <3>2 DEF CallerOK, Underway, Free, Asks
        <4>3. \A c \in Client : ~Free(c)' /\ serving'[c].no = cmd'[p].no =>
                  Serving(p, calls[c], answer[c])'
          BY <2>1, <3>1, <3>2 DEF CallerOK, Free, Serving
        <4>4. \A m \in replies' : m.no = cmd'[p].no => Replied(p, m)'
          BY <2>1, <3>1, <3>2 DEF CallerOK, Replied
        <4> QED  BY <4>1, <4>2, <4>3, <4>4 DEF CallerOK
      <3> QED  BY <2>1, <3>2 DEF TruthOK, Waiting, TrueOf, MaySay
    <2> QED  BY <2>2, <2>3 DEF TruthOK
  <1> QED  BY <1>1, <1>2, <1>3 DEF RemoteNext

\* What a remote trigger command says was so at some moment while it ran (ApiMrMktBackend,
\* ApiTriggersController and the commands of both sides), for any number of callers and
\* worker threads, whatever statements fail and whatever answers are lost or late.
THEOREM TrueAnswers == RemoteSpec => []AnswersWereTrue
  <1>1. RemoteInit => WireInv /\ TruthOK
    BY WireInit, InitTrue
  <1>2. WireInv /\ TruthOK /\ [RemoteNext]_RemoteVars => WireInv' /\ TruthOK'
    BY WireStep, StepTrue
  <1>3. TruthOK => AnswersWereTrue
    BY DEF TruthOK, TrueOf, MaySay, AnswersWereTrue
  <1> QED  BY <1>1, <1>2, <1>3, PTL DEF RemoteSpec
=============================================================================
