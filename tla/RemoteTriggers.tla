--------------------------- MODULE RemoteTriggers ---------------------------
(***************************************************************************)
(* Trigger commands with MRMKT_BACKEND=api: a command runs in the caller's *)
(* process and reaches the table through HTTP requests, which the server's *)
(* worker threads (the clients of TriggerStore) handle statement by        *)
(* statement.  A caller waits ten seconds for an answer; a request it gave *)
(* up on may still be handled, and an answer may come too late or never.   *)
(***************************************************************************)
EXTENDS TriggerStore

CONSTANTS
    Caller,       \* processes running trigger commands on the api backend
    MaxRequests   \* bound: how many requests are sent in a behaviour

ASSUME RemoteAssumption == MaxRequests \in Nat

VARIABLES
    cmd,      \* each caller's command, the request it waits for, what it said last
    requests, \* sent, taken by no worker yet
    replies,  \* sent back, not heard yet
    serving,  \* the request each worker handles, or None
    sent,     \* how many requests were sent
    seen      \* history: what the table held while the caller's command ran

remote == <<cmd, requests, replies, serving, sent>>

-----------------------------------------------------------------------------
(* Requests: the keyword arguments of the four generated endpoints. *)

GetTriggers == [op |-> "get"]
CreateTriggerDto(n, k) == [name |-> n, key |-> k]
PostTrigger(n, k) == [op |-> "post", body |-> CreateTriggerDto(n, k)]
DeleteTrigger(i) == [op |-> "delete", id |-> i]
PatchTrigger(i, flag) == [op |-> "patch", id |-> i, flag |-> flag]

(* Replies: a status code, and for a listing what the commands read of a row
   that went through JSON and back. *)

TriggerDto(r) == [id |-> r.id, name |-> r.name]

CodeOf(op, status) ==
    CASE status = "success" -> IF op = "post" THEN 201 ELSE 200
      [] status = "invalid" -> 400
      [] status = "not_found" -> 404
      [] OTHER -> 500

Goals ==
    [op: {"create"}, name: Name, key: Key]
    \cup [op: {"delete"}, name: Name]
    \cup [op: {"toggle"}, id: 1..MaxId, flag: BOOLEAN]
    \cup [op: {"disable"}, id: 1..MaxId]

NoGoal == [op |-> "none"]

Spoken == {"none", "success", "not_found", "invalid", "error", "raised"}

-----------------------------------------------------------------------------
(* A caller. *)

Waiting(p) == cmd[p].at # "idle"

\* The caller sends its next request and blocks in httpx.
Send(p, command, request) ==
    /\ sent < MaxRequests
    /\ sent' = sent + 1
    /\ requests' = requests \cup {[no |-> sent + 1, by |-> p, asks |-> request]}
    /\ cmd' = [cmd EXCEPT ![p] = [command EXCEPT !.no = sent + 1]]

Finish(p, said) ==
    /\ cmd' = [cmd EXCEPT ![p] = [@ EXCEPT !.at = "idle", !.said = said]]
    /\ UNCHANGED <<requests, sent>>

Begin(p, at, goal, request) ==
    /\ ~Waiting(p)
    /\ Send(p, [at |-> at, goal |-> goal, first |-> sent + 1, no |-> 0,
                said |-> "none"], request)
    /\ UNCHANGED <<vars, replies, serving>>

\* CreateTrigger posts at once; the other two list first.
StartCreate(p, n, k) ==
    Begin(p, "create_post", [op |-> "create", name |-> n, key |-> k], PostTrigger(n, k))

StartDelete(p, n) ==
    Begin(p, "delete_get", [op |-> "delete", name |-> n], GetTriggers)

StartToggle(p, i, flag) ==
    Begin(p, "toggle_get", [op |-> "toggle", id |-> i, flag |-> flag], GetTriggers)

\* A watch that disables the row of a "once" trigger patches at once.
StartDisable(p, i) ==
    Begin(p, "disable_patch", [op |-> "disable", id |-> i], PatchTrigger(i, FALSE))

\* The answer the caller is blocked on; httpx pairs an answer with its request.
Hears(p, m) ==
    /\ Waiting(p)
    /\ m \in replies
    /\ m.no = cmd[p].no
    /\ replies' = replies \ {m}
    /\ UNCHANGED <<vars, serving>>

\* _raise_for_status, seen through the handlers of a command that catches both
\* exceptions.
Judged(code) ==
    IF code < 400 THEN "success" ELSE IF code < 500 THEN "invalid" ELSE "error"

HearCreated(p, m) ==
    /\ cmd[p].at = "create_post"
    /\ Hears(p, m)
    /\ Finish(p, Judged(m.code))

\* DeleteTrigger.execute: any failure to list is an error.
HearDeleteList(p, m) ==
    /\ cmd[p].at = "delete_get"
    /\ Hears(p, m)
    /\ IF m.code # 200 THEN Finish(p, "error")
       ELSE LET named == {t \in m.listed : t.name = cmd[p].goal.name} IN
            IF named = {} THEN Finish(p, "not_found")
            ELSE \E t \in named :
                     Send(p, [cmd[p] EXCEPT !.at = "delete_delete"], DeleteTrigger(t.id))

\* Deviation: every failure of the DELETE is a False, which the command ignores.
HearDeletedAnyway(p, m) ==
    /\ cmd[p].at \in {"delete_delete", "disable_patch"}
    /\ Hears(p, m)
    /\ Finish(p, "success")

\* The requests sent outside any handler: their failures leave the command.
Unguarded == {"delete_delete", "disable_patch"}

\* remove_trigger and set_trigger_enabled return False on 404, which the command
\* and the watch ignore.
HearDeleted(p, m) ==
    /\ cmd[p].at \in Unguarded
    /\ Hears(p, m)
    /\ Finish(p, IF m.code = 404 \/ Judged(m.code) = "success"
                 THEN "success" ELSE "raised")

\* SetTriggerEnabled.execute lists before and after it writes.
HearToggleList(p, m) ==
    /\ cmd[p].at \in {"toggle_get", "toggle_get_again"}
    /\ Hears(p, m)
    /\ LET goal == cmd[p].goal
           found == m.code = 200 /\ \E t \in m.listed : t.id = goal.id
           again == cmd[p].at = "toggle_get_again"
       IN  IF m.code # 200 THEN Finish(p, "error")
           ELSE IF ~found THEN Finish(p, IF again THEN "error" ELSE "not_found")
           ELSE IF again THEN Finish(p, "success")
           ELSE Send(p, [cmd[p] EXCEPT !.at = "toggle_patch"],
                     PatchTrigger(goal.id, goal.flag))

HearToggled(p, m) ==
    /\ cmd[p].at = "toggle_patch"
    /\ Hears(p, m)
    /\ IF m.code = 404 THEN Finish(p, "not_found")
       ELSE IF Judged(m.code) # "success" THEN Finish(p, "error")
       ELSE Send(p, [cmd[p] EXCEPT !.at = "toggle_get_again"], GetTriggers)

\* Deviation: a timeout of the DELETE counts as a deletion already done.
GiveUpQuietly(p) ==
    /\ Waiting(p)
    /\ Finish(p, IF cmd[p].at = "delete_delete" THEN "success" ELSE "error")
    /\ UNCHANGED <<vars, replies, serving>>

\* The client times out or loses its connection.
GiveUp(p) ==
    /\ Waiting(p)
    /\ Finish(p, IF cmd[p].at \in Unguarded THEN "raised" ELSE "error")
    /\ UNCHANGED <<vars, replies, serving>>

-----------------------------------------------------------------------------
(* A worker thread of the server. *)

Free(c) == serving[c] = None

\* Answers to a caller that gave up go nowhere.
Answer(m, code, listed) ==
    replies' = IF cmd[m.by].no = m.no /\ Waiting(m.by)
               THEN replies \cup {[no |-> m.no, code |-> code, listed |-> listed]}
               ELSE replies

\* ApiTriggersController.list_triggers: one statement, or its failure.
ServeList(c, m) ==
    /\ Free(c)
    /\ m.asks.op = "get"
    /\ Answer(m, 200, {TriggerDto(r) : r \in rows}) \/ Answer(m, 500, {})
    /\ requests' = requests \ {m}
    /\ UNCHANGED <<vars, cmd, serving, sent>>

\* The other handlers run the command of the same name from its first statement.
Serve(c, m) ==
    /\ Free(c)
    /\ \/ m.asks.op = "post" /\ CreateInsert(c, m.asks.body.name, m.asks.body.key)
       \/ m.asks.op = "delete" /\ DeleteById(c, m.asks.id)
       \/ m.asks.op = "patch" /\ ToggleList(c, m.asks.id, m.asks.flag)
    /\ serving' = [serving EXCEPT ![c] = m]
    /\ requests' = requests \ {m}
    /\ UNCHANGED <<cmd, replies, sent>>

\* The next statement, or a database error in its place.
Work(c) ==
    /\ ~Free(c)
    /\ \/ CreateSelect(c) \/ DeleteList(c) \/ DeleteRow(c)
       \/ ToggleSelect(c) \/ ToggleDelete(c) \/ ToggleInsert(c) \/ ToggleRefresh(c)
       \/ Crash(c)
    /\ UNCHANGED remote

\* status_code_of; a command that ended without a status raised, which is a 500.
Respond(c) ==
    /\ ~Free(c)
    /\ calls[c] = Idle
    /\ Answer(serving[c], CodeOf(serving[c].asks.op, answer[c]), {})
    /\ serving' = [serving EXCEPT ![c] = None]
    /\ answer' = [answer EXCEPT ![c] = "none"]
    /\ UNCHANGED <<tables, calls, history, cmd, requests, sent>>

-----------------------------------------------------------------------------

(* What the table held at some moment of a command, as far as its answer can
   claim it: its target absent (for a disable: not enabled), stored, or in the
   way of an insert. *)

Nothing == [absent |-> FALSE, stored |-> FALSE, taken |-> FALSE]

Look(s, goal, table) ==
    LET create == goal.op = "create"
        hit == {r \in table :
                    CASE goal.op = "toggle"  -> r.id = goal.id
                      [] goal.op = "disable" -> r.id = goal.id /\ r.enabled
                      [] OTHER               -> r.name = goal.name}
    IN  [absent |-> s.absent \/ (~create /\ hit = {}),
         stored |-> s.stored \/ (create /\ hit # {}),
         taken  |-> s.taken \/ (create /\ (hit # {} \/ \E r \in table : r.key = goal.key))]

Observe ==
    seen' = [p \in Caller |->
                IF cmd'[p].at = "idle" /\ ~Waiting(p) THEN seen[p]
                ELSE Look(IF Waiting(p) THEN seen[p] ELSE Nothing, cmd'[p].goal, rows')]

\* The table holds a trigger created before.
RemoteInit ==
    /\ serial \in Turns
    /\ rows \in {{r} : r \in [id: {1}, name: Name, key: Key, enabled: {TRUE}]}
    /\ next_id = 2
    /\ sets = {} /\ members = {}
    /\ calls = [c \in Client |-> Idle]
    /\ answer = [c \in Client |-> "none"]
    /\ born = {r.name : r \in rows} /\ lost = {} /\ raced = {} /\ effect = NoEffect
    /\ cmd = [p \in Caller |-> [at |-> "idle", goal |-> NoGoal, first |-> 1, no |-> 0,
                                said |-> "none"]]
    /\ requests = {}
    /\ replies = {}
    /\ serving = [c \in Client |-> None]
    /\ sent = 0
    /\ seen = [p \in Caller |-> Nothing]

\* Ids a caller can have read off an earlier listing.
ListedIds == {i \in 1..MaxId : i < next_id}

Calls(p) ==
    \/ \E n \in Name, k \in Key : StartCreate(p, n, k)
    \/ \E n \in Name : StartDelete(p, n)
    \/ \E i \in ListedIds, flag \in BOOLEAN : StartToggle(p, i, flag)
    \/ \E i \in ListedIds : StartDisable(p, i)
    \/ \E m \in replies :
           \/ HearCreated(p, m) \/ HearDeleteList(p, m) \/ HearDeleted(p, m)
           \/ HearToggleList(p, m) \/ HearToggled(p, m)
    \/ GiveUp(p)

Serves(c) ==
    \/ \E m \in requests : ServeList(c, m) \/ Serve(c, m)
    \/ Work(c)
    \/ Respond(c)

RemoteNext ==
    /\ (\E p \in Caller : Calls(p)) \/ (\E c \in Client : Serves(c))
    /\ Observe
    /\ UNCHANGED serial

RemoteVars == <<vars, remote, seen>>

RemoteSpec == RemoteInit /\ [][RemoteNext]_RemoteVars

-----------------------------------------------------------------------------

(* Properties. *)

\* What a command says was so at some moment while it ran: a trigger it did not
\* find was absent, a trigger it says it deleted was absent, a trigger it says it
\* created was stored, one it calls a duplicate met a taken name or key, and a row
\* a watch disabled without an exception was not enabled, whatever other callers
\* did, which statements failed and which answers were lost (ApiMrMktBackend, ApiTriggersController, the commands of both sides).
AnswersWereTrue ==
    \A p \in Caller :
        LET said == cmd[p].said
            op == cmd[p].goal.op
        IN  /\ said = "not_found" => seen[p].absent
            /\ said = "success" /\ op \in {"delete", "disable"} => seen[p].absent
            /\ said = "success" /\ op = "create" => seen[p].stored
            /\ said = "invalid" => seen[p].taken

\* A definite answer is final: when a command said success, not found or invalid,
\* none of its requests is still on its way or being handled, so nothing it asked
\* for can happen later.  Only errors leave that open (Timeout(10.0) in
\* MrMktBackendFactory, the missing retry in ApiMrMktBackend).
AnswersAreFinal ==
    \A p \in Caller :
        cmd[p].said \in {"success", "not_found", "invalid"} =>
            \A m \in requests \cup {serving[c] : c \in {d \in Client : ~Free(d)}} :
                m.by = p => m.no < cmd[p].first

=============================================================================
