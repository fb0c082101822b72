-------------------------------- MODULE Sync --------------------------------
(***************************************************************************)
(* The sync layer of h0tb0x (sync.go) over the link layer's calls.  Every  *)
(* node keeps a table of records (Object) and, per friend and topic, a row *)
(* of subscription state (TopicFriend).  One looper per friend pushes the  *)
(* records the friend asked for, in batches; the friend's handler checks   *)
(* each record against what it already heard, hands it to the sink of its  *)
(* type and marks it.  Subscriptions travel as records themselves.         *)
(***************************************************************************)
EXTENDS Integers, FiniteSets, Sequences

CONSTANTS
    Node,         \* the nodes, all of them friends of each other at first
    Topic,        \* the topics users subscribe to
    Key,          \* keys of the records users put
    Caller,       \* goroutines of a node that may be inside Subscribe at once
    Writable,     \* Writable[n]: topics the users of n put records to
    Enables,      \* values users pass to Subscribe
    Limit,        \* the LIMIT of the notify query (100 in the code)
    Orphans,      \* whether a call may fail while its handler goes on running
    MaxSeq,       \* bound: MaxSeq[n], the sequence numbers n assigns
    MaxFail,      \* bound: failed calls
    MaxRestart,   \* bound: crashes with restart
    MaxUnfriend,  \* bound: removals of a friend
    MaxFault      \* bound: failures, crashes and removals together

\* The topics nodes derive from fingerprints: n's outbox to f (which is f's
\* inbox from n), and n's profile.
Box(n, f) == <<"box", n, f>>
Profile(n) == <<"profile", n>>

AllTopic == Topic \cup {Box(n, f) : n, f \in Node} \cup {Profile(n) : n \in Node}

ASSUME TopicAssumption ==
    /\ \A t \in Topic : \A n, f \in Node : t # Box(n, f) /\ t # Profile(n)
    /\ Writable \in [Node -> SUBSET AllTopic]
ASSUME EnablesAssumption == Enables \subseteq BOOLEAN /\ Orphans \in BOOLEAN
ASSUME BoundAssumption ==
    /\ Limit \in Nat \ {0}
    /\ MaxSeq \in [Node -> Nat]
    /\ {MaxFail, MaxRestart, MaxUnfriend, MaxFault} \subseteq Nat

VARIABLES
    obj,        \* obj[n]: rows of n's Object table
    desired,    \* TopicFriend.desired[n][f][t]; an absent row is one of defaults
    requested,  \* TopicFriend.requested[n][f][t]
    acked,      \* TopicFriend.acked_seqno[n,f,t]
    heard,      \* TopicFriend.heard_seqno[n,f,t]
    looper,     \* looper[n][f]: n's clientLooper for f, "none" when not a friend
    batch,      \* batch[n][f]: the rows of the notify that looper is sending
    hnd,        \* hnd[f][n][s]: f's onNotify for a call of n, still awaited or not
    calls,      \* calls of Subscribe in progress
    removing,   \* pairs <<n,f>>: n's RemoveFriend(f) waits for its looper
    log,        \* history: what n put, by sequence number
    handed,     \* history: handed[f], the records f's sinks were given
    quit,       \* history: <<f,n,t>>, f has given up topic t of n, or n as a friend
    spent       \* failures, restarts and removals so far

tables == <<desired, requested, acked, heard>>
vars == <<obj, tables, looper, batch, hnd, calls, removing, log, handed, quit, spent>>

Row == [type : {"sub", "data"}, topic : AllTopic, key : Key \cup Topic,
        seq : Nat, value : BOOLEAN, priority : Nat]
Call == [at : Node, by : Caller, pc : {"looked", "rowed"}, peer : Node,
         topic : Topic, enable : BOOLEAN, heard : Nat]
Handler == [pc : {"idle", "check", "sink", "mark", "done"}, todo : SUBSET Row]
At(pc, todo) == [pc |-> pc, todo |-> todo]
Idle == At("idle", {})

\* A handler whose caller still waits for it, or has given up on it.
Slot == {"live", "orphan"}
Running(h) == h.pc \in {"check", "sink", "mark"}

Name(r) == <<r.type, r.topic, r.key>>

-----------------------------------------------------------------------------
(* The tables and the notify query.                                        *)

\* onFriendChange inserts the rows of both boxes and both profiles.
Exchanged(n, f) == {Box(n, f), Box(f, n), Profile(n), Profile(f)}

\* Fault: COUNT(*) for MAX(seqno).
LastSeqCounted(n) == Cardinality(obj[n])

\* IFNULL((SELECT MAX(seqno) FROM Object), 0)
LastSeq(n) == LET S == {0} \cup {r.seq : r \in obj[n]}
              IN  CHOOSE m \in S : \A k \in S : k <= m

\* Fault: >= for > in the query.
PendingAgain(n, f) == {r \in obj[n] : /\ desired[n][f][r.topic]
                                      /\ requested[n][f][r.topic]
                                      /\ r.seq >= acked[n][f][r.topic]}

\* What the notify query selects.
Pending(n, f) == {r \in obj[n] : /\ desired[n][f][r.topic]
                                 /\ requested[n][f][r.topic]
                                 /\ r.seq > acked[n][f][r.topic]}

\* ORDER BY seqno LIMIT Limit
Fetch(n, f) == {r \in Pending(n, f) :
                  Cardinality({q \in Pending(n, f) : q.seq < r.seq}) < Limit}

\* The row a handler is at: records are handled in the order they were sent.
First(S) == {r \in S : \A q \in S : r.seq <= q.seq}

\* The last row of every topic in a batch.
Tops(B) == {r \in B : \A q \in B : q.topic = r.topic => q.seq <= r.seq}

\* Fault: acked is taken from the table when the answer arrives.
AckOfTable(n, f, t) ==
    IF \E r \in batch[n][f] : r.topic = t THEN LastSeq(n) ELSE acked[n][f][t]

\* acked after an answer, from the map orm of notifyLoop: the last seqno sent of
\* every topic sent.
AckOf(n, f, t) ==
    LET A == {r \in Tops(batch[n][f]) : r.topic = t}
    IN  IF A = {} THEN acked[n][f][t] ELSE (CHOOSE r \in A : TRUE).seq

Wake(s) == IF s = "sleep" THEN "run" ELSE s

\* Fault: no Broadcast.
StoreQuietly(n, r) ==
    /\ obj' = [obj EXCEPT ![n] = {q \in @ : Name(q) # Name(r)}
                                   \cup {[r EXCEPT !.seq = LastSeq(n) + 1]}]
    /\ log' = [log EXCEPT ![n] = Append(@, Name(r))]
    /\ UNCHANGED looper

\* A new row with the next seqno replaces the one of the same primary key, and
\* every looper of n is woken, all in the critical section of Put.
Store(n, r) ==
    /\ obj' = [obj EXCEPT ![n] = {q \in @ : Name(q) # Name(r)}
                                   \cup {[r EXCEPT !.seq = LastSeq(n) + 1]}]
    /\ log' = [log EXCEPT ![n] = Append(@, Name(r))]
    /\ looper' = [looper EXCEPT ![n] = [f \in Node |-> Wake(@[f])]]

\* The bound on sequence numbers leaves room for the calls in progress.
Room(n) == LastSeq(n) + Cardinality({c \in calls : c.at = n}) < MaxSeq[n]

\* Whether one more fault of kind x is within the bounds.
Spare(x, max) == /\ spent[x] < max
                 /\ spent["fail"] + spent["restart"] + spent["unfriend"] < MaxFault

\* n holds cmut (and the link's mutex) while it removes a friend.
Locked(n) == \E f \in Node : <<n, f>> \in removing

-----------------------------------------------------------------------------
(* Put and Subscribe.                                                      *)

Put(n, t, k) ==
    /\ Room(n) /\ ~Locked(n)
    /\ Store(n, [type |-> "data", topic |-> t, key |-> k, seq |-> 0,
                 value |-> TRUE, priority |-> 0])
    /\ UNCHANGED <<tables, batch, hnd, calls, removing, handed, quit, spent>>

\* Subscribe finds the client under cmut ...
SubLookup(n, c, f, t, e) ==
    /\ Room(n) /\ ~Locked(n)
    /\ looper[n][f] # "none"
    /\ \A d \in calls : ~(d.at = n /\ d.by = c)
    /\ calls' = calls \cup {[at |-> n, by |-> c, pc |-> "looked", peer |-> f,
                             topic |-> t, enable |-> e, heard |-> 0]}
    /\ UNCHANGED <<obj, tables, looper, batch, hnd, removing, log, handed, quit, spent>>

\* Fault: tells the friend the last seqno of its own table, not what it heard.
SubRowOwnSeq(c) ==
    /\ c.pc = "looked"
    /\ desired' = [desired EXCEPT ![c.at][c.peer][c.topic] = c.enable]
    /\ calls' = (calls \ {c}) \cup {[c EXCEPT !.pc = "rowed", !.heard = LastSeq(c.at)]}
    /\ quit' = quit \cup (IF c.enable THEN {} ELSE {<<c.at, c.peer, c.topic>>})
    /\ UNCHANGED <<obj, requested, acked, heard, looper, batch, hnd, removing,
                   log, handed, spent>>

\* ... writes desired and reads heard under the client's lock ...
SubRow(c) ==
    /\ c.pc = "looked"
    /\ desired' = [desired EXCEPT ![c.at][c.peer][c.topic] = c.enable]
    /\ calls' = (calls \ {c}) \cup
                  {[c EXCEPT !.pc = "rowed", !.heard = heard[c.at][c.peer][c.topic]]}
    /\ quit' = quit \cup (IF c.enable THEN {} ELSE {<<c.at, c.peer, c.topic>>})
    /\ UNCHANGED <<obj, requested, acked, heard, looper, batch, hnd, removing,
                   log, handed, spent>>

\* ... and only then, with no lock held in between, puts the record.
SubPut(c) ==
    /\ c.pc = "rowed" /\ ~Locked(c.at)
    /\ Store(c.at, [type |-> "sub", topic |-> Box(c.at, c.peer), key |-> c.topic,
                    seq |-> 0, value |-> c.enable, priority |-> c.heard])
    /\ calls' = calls \ {c}
    /\ UNCHANGED <<tables, batch, hnd, removing, handed, quit, spent>>

-----------------------------------------------------------------------------
(* notifyLoop: one pass finds nothing and waits, or sends a batch.         *)

Scan(n, f) ==
    /\ looper[n][f] = "run" /\ <<n, f>> \notin removing
    /\ IF Pending(n, f) = {}
       THEN /\ looper' = [looper EXCEPT ![n][f] = "sleep"]
            /\ UNCHANGED batch
       ELSE /\ looper' = [looper EXCEPT ![n][f] = "sent"]
            /\ batch' = [batch EXCEPT ![n][f] = Fetch(n, f)]
    /\ UNCHANGED <<obj, tables, hnd, calls, removing, log, handed, quit, spent>>

AckBatch(n, f) ==
    acked' = [acked EXCEPT ![n][f] = [t \in AllTopic |-> AckOf(n, f, t)]]

Finish(n, f) ==
    /\ looper' = [looper EXCEPT ![n][f] = "run"]
    /\ batch' = [batch EXCEPT ![n][f] = {}]

\* The call returned without error: the last seqno sent of every topic sent is
\* acked, whatever the row says by now.
Reply(n, f) ==
    /\ looper[n][f] = "sent" /\ hnd[f][n]["live"].pc = "done"
    /\ AckBatch(n, f)
    /\ hnd' = [hnd EXCEPT ![f][n]["live"] = Idle]
    /\ Finish(n, f)
    /\ UNCHANGED <<obj, desired, requested, heard, calls, removing, log, handed, quit, spent>>

\* The remote side does not know the caller: 403, and the looper tries again.
Refuse(n, f) ==
    /\ looper[n][f] = "sent" /\ hnd[f][n]["live"].pc = "idle"
    /\ looper[f][n] = "none"
    /\ Finish(n, f)
    /\ UNCHANGED <<obj, tables, hnd, calls, removing, log, handed, quit, spent>>

\* A caller that gives up leaves the handler running, if it is.
CanAbandon(n, f) == Running(hnd[f][n]["live"]) => Orphans /\ ~Running(hnd[f][n]["orphan"])
Abandoned(n, f) ==
    [s \in Slot |-> IF s = "live" THEN Idle
                   ELSE IF Running(hnd[f][n]["live"]) THEN hnd[f][n]["live"]
                   ELSE hnd[f][n][s]]

\* Fault: the error of a call is ignored.
FailAcks(n, f) ==
    /\ Spare("fail", MaxFail)
    /\ looper[n][f] = "sent" /\ CanAbandon(n, f)
    /\ hnd' = [hnd EXCEPT ![f][n] = Abandoned(n, f)]
    /\ AckBatch(n, f)
    /\ Finish(n, f)
    /\ spent' = [spent EXCEPT !["fail"] = @ + 1]
    /\ UNCHANGED <<obj, desired, requested, heard, calls, removing, log, handed, quit>>

\* The network loses the request or the answer.
Fail(n, f) ==
    /\ Spare("fail", MaxFail)
    /\ looper[n][f] = "sent" /\ CanAbandon(n, f)
    /\ hnd' = [hnd EXCEPT ![f][n] = Abandoned(n, f)]
    /\ Finish(n, f)
    /\ spent' = [spent EXCEPT !["fail"] = @ + 1]
    /\ UNCHANGED <<obj, tables, calls, removing, log, handed, quit>>

-----------------------------------------------------------------------------
(* onNotify at f for a call of n, one record at a time.                    *)

Receive(f, n) ==
    /\ looper[n][f] = "sent" /\ hnd[f][n]["live"].pc = "idle"
    /\ looper[f][n] # "none" /\ ~Locked(f)
    /\ hnd' = [hnd EXCEPT ![f][n]["live"] = At("check", batch[n][f])]
    /\ UNCHANGED <<obj, tables, looper, batch, calls, removing, log, handed, quit, spent>>

\* The handler goes to the next record, or is done; nobody awaits an orphan.
Advance(f, n, s, r) ==
    LET rest == hnd[f][n][s].todo \ {r}
    IN  hnd' = [hnd EXCEPT ![f][n][s] =
                  IF rest # {} THEN At("check", rest)
                  ELSE IF s = "live" THEN At("done", {}) ELSE Idle]

\* Fault: what was heard is handed over again.
CheckUnheard(f, n, s) ==
    /\ hnd[f][n][s].pc = "check"
    /\ \E r \in First(hnd[f][n][s].todo) :
         IF desired[f][n][r.topic]
         THEN hnd' = [hnd EXCEPT ![f][n][s] = At("sink", @.todo)]
         ELSE Advance(f, n, s, r)
    /\ UNCHANGED <<obj, tables, looper, batch, calls, removing, log, handed, quit, spent>>

Check(f, n, s) ==
    /\ hnd[f][n][s].pc = "check"
    /\ \E r \in First(hnd[f][n][s].todo) :
         IF desired[f][n][r.topic] /\ heard[f][n][r.topic] < r.seq
         THEN hnd' = [hnd EXCEPT ![f][n][s] = At("sink", @.todo)]
         ELSE Advance(f, n, s, r)
    /\ UNCHANGED <<obj, tables, looper, batch, calls, removing, log, handed, quit, spent>>

\* Faults: one less than the friend heard; the end of the table; no Broadcast.
OnSubscribeLess(f, n, r) ==
    /\ requested' = [requested EXCEPT ![f][n][r.key] = r.value]
    /\ acked' = [acked EXCEPT ![f][n][r.key] = r.priority - 1]
    /\ looper' = [looper EXCEPT ![f][n] = Wake(@)]
OnSubscribeFromNow(f, n, r) ==
    /\ requested' = [requested EXCEPT ![f][n][r.key] = r.value]
    /\ acked' = [acked EXCEPT ![f][n][r.key] = LastSeq(f)]
    /\ looper' = [looper EXCEPT ![f][n] = Wake(@)]
OnSubscribeQuietly(f, n, r) ==
    /\ requested' = [requested EXCEPT ![f][n][r.key] = r.value]
    /\ acked' = [acked EXCEPT ![f][n][r.key] = r.priority]
    /\ UNCHANGED looper

\* onSubscribe, the sink of RTSubscribe.
OnSubscribe(f, n, r) ==
    /\ requested' = [requested EXCEPT ![f][n][r.key] = r.value]
    /\ acked' = [acked EXCEPT ![f][n][r.key] = r.priority]
    /\ looper' = [looper EXCEPT ![f][n] = Wake(@)]

Sink(f, n, s) ==
    /\ hnd[f][n][s].pc = "sink"
    /\ \E r \in First(hnd[f][n][s].todo) :
         /\ IF r.type = "sub" THEN OnSubscribe(f, n, r)
                              ELSE UNCHANGED <<requested, acked, looper>>
         /\ handed' = [handed EXCEPT ![f] = @ \cup
                         {[from |-> n, name |-> Name(r), seq |-> r.seq]}]
    /\ hnd' = [hnd EXCEPT ![f][n][s] = At("mark", @.todo)]
    /\ UNCHANGED <<obj, desired, heard, batch, calls, removing, log, quit, spent>>

Mark(f, n, s) ==
    /\ hnd[f][n][s].pc = "mark"
    /\ \E r \in First(hnd[f][n][s].todo) :
         /\ heard' = [heard EXCEPT ![f][n][r.topic] = r.seq]
         /\ Advance(f, n, s, r)
    /\ UNCHANGED <<obj, desired, requested, acked, looper, batch, calls, removing,
                   log, handed, quit, spent>>

-----------------------------------------------------------------------------
(* Friends come and go, and nodes crash.                                   *)

\* The link's mutex is held for writing: no handler is running at n.
MutexFree(n) == ~Locked(n) /\ \A f \in Node, s \in Slot : ~Running(hnd[n][f][s])

AddFriend(n, f) ==
    /\ looper[n][f] = "none" /\ n # f /\ MutexFree(n)
    /\ desired' = [desired EXCEPT ![n][f] =
                     [t \in AllTopic |-> @[t] \/ t \in Exchanged(n, f)]]
    /\ requested' = [requested EXCEPT ![n][f] =
                       [t \in AllTopic |-> @[t] \/ t \in Exchanged(n, f)]]
    /\ looper' = [looper EXCEPT ![n][f] = "run"]
    /\ UNCHANGED <<obj, acked, heard, batch, hnd, calls, removing, log, handed, quit, spent>>

\* RemoveFriend stops the looper and waits, with cmut and the mutex held ...
RemoveBegin(n, f) ==
    /\ Spare("unfriend", MaxUnfriend)
    /\ looper[n][f] # "none" /\ MutexFree(n)
    /\ removing' = removing \cup {<<n, f>>}
    /\ spent' = [spent EXCEPT !["unfriend"] = @ + 1]
    /\ UNCHANGED <<obj, tables, looper, batch, hnd, calls, log, handed, quit>>

\* ... until it has returned from its last call; then the rows are deleted.
RemoveEnd(n, f) ==
    /\ <<n, f>> \in removing /\ looper[n][f] # "sent"
    /\ desired' = [desired EXCEPT ![n][f] = [t \in AllTopic |-> FALSE]]
    /\ requested' = [requested EXCEPT ![n][f] = [t \in AllTopic |-> FALSE]]
    /\ acked' = [acked EXCEPT ![n][f] = [t \in AllTopic |-> 0]]
    /\ heard' = [heard EXCEPT ![n][f] = [t \in AllTopic |-> 0]]
    /\ looper' = [looper EXCEPT ![n][f] = "none"]
    /\ removing' = removing \ {<<n, f>>}
    /\ quit' = quit \cup {<<n, f, t>> : t \in AllTopic}
    /\ UNCHANGED <<obj, batch, hnd, calls, log, handed, spent>>

\* The call of m to g that a crash of n ends.
Broken(n, m, g) == m = n \/ (g = n /\ hnd[n][m]["live"].pc # "idle")

\* A crash loses what is not in the database.  The calls n had made fail, and so
\* do those it was answering; Start then runs a looper for every friend.
Restart(n) ==
    /\ Spare("restart", MaxRestart)
    /\ \A f \in Node : CanAbandon(n, f)
    /\ hnd' = [g \in Node |-> [m \in Node |->
                 IF g = n THEN [s \in Slot |-> Idle]
                 ELSE IF m = n THEN Abandoned(n, g) ELSE hnd[g][m]]]
    /\ looper' = [m \in Node |-> [g \in Node |->
                    IF Broken(n, m, g) /\ looper[m][g] # "none" THEN "run"
                    ELSE looper[m][g]]]
    /\ batch' = [m \in Node |-> [g \in Node |->
                   IF Broken(n, m, g) THEN {} ELSE batch[m][g]]]
    /\ calls' = {c \in calls : c.at # n}
    /\ removing' = {p \in removing : p[1] # n}
    /\ spent' = [spent EXCEPT !["restart"] = @ + 1]
    /\ UNCHANGED <<obj, tables, log, handed, quit>>

-----------------------------------------------------------------------------

\* Every node has just added every other: empty tables, loopers starting.
Init ==
    /\ obj = [n \in Node |-> {}]
    /\ desired = [n \in Node |-> [f \in Node |-> [t \in AllTopic |->
                    n # f /\ t \in Exchanged(n, f)]]]
    /\ requested = desired
    /\ acked = [n \in Node |-> [f \in Node |-> [t \in AllTopic |-> 0]]]
    /\ heard = acked
    /\ looper = [n \in Node |-> [f \in Node |-> IF n = f THEN "none" ELSE "run"]]
    /\ batch = [n \in Node |-> [f \in Node |-> {}]]
    /\ hnd = [f \in Node |-> [n \in Node |-> [s \in Slot |-> Idle]]]
    /\ calls = {}
    /\ removing = {}
    /\ log = [n \in Node |-> <<>>]
    /\ handed = [n \in Node |-> {}]
    /\ quit = {}
    /\ spent = [x \in {"fail", "restart", "unfriend"} |-> 0]

Looper(n, f) == Scan(n, f) \/ Reply(n, f) \/ Refuse(n, f)
Handle(f, n, s) == Check(f, n, s) \/ Sink(f, n, s) \/ Mark(f, n, s)

Next ==
    \/ \E n \in Node : \E t \in Writable[n], k \in Key : Put(n, t, k)
    \/ \E n, f \in Node, c \in Caller, t \in Topic, e \in Enables :
         SubLookup(n, c, f, t, e)
    \/ \E c \in calls : SubRow(c) \/ SubPut(c)
    \/ \E n, f \in Node : Looper(n, f) \/ Fail(n, f) \/ Receive(f, n)
    \/ \E n, f \in Node, s \in Slot : Handle(f, n, s)
    \/ \E n, f \in Node : AddFriend(n, f) \/ RemoveBegin(n, f) \/ RemoveEnd(n, f)
    \/ \E n \in Node : Restart(n)

Spec == Init /\ [][Next]_vars

\* Goroutines are scheduled and a call reaches its peer unless it fails; what
\* users do, failures and crashes are never owed.
Fairness ==
    /\ \A n, f \in Node :
         /\ WF_vars(Looper(n, f)) /\ WF_vars(Receive(f, n)) /\ WF_vars(RemoveEnd(n, f))
         /\ \A s \in Slot : WF_vars(Handle(f, n, s))
    /\ \A n \in Node, b \in Caller :
         WF_vars(\E c \in calls : c.at = n /\ c.by = b /\ (SubRow(c) \/ SubPut(c)))

FairSpec == Spec /\ Fairness
-----------------------------------------------------------------------------
(* What must hold.                                                         *)

\* Every variable has its type.
TypeOK ==
    /\ obj \in [Node -> SUBSET Row]
    /\ desired \in [Node -> [Node -> [AllTopic -> BOOLEAN]]]
    /\ requested \in [Node -> [Node -> [AllTopic -> BOOLEAN]]]
    /\ acked \in [Node -> [Node -> [AllTopic -> Nat]]]
    /\ heard \in [Node -> [Node -> [AllTopic -> Nat]]]
    /\ looper \in [Node -> [Node -> {"none", "run", "sleep", "sent"}]]
    /\ batch \in [Node -> [Node -> SUBSET Row]]
    /\ hnd \in [Node -> [Node -> [Slot -> Handler]]]
    /\ calls \subseteq Call
    /\ removing \subseteq Node \X Node
    /\ log \in [Node -> Seq({"sub", "data"} \X AllTopic \X (Key \cup Topic))]
    /\ handed \in [Node -> SUBSET [from : Node, seq : Nat,
                     name : {"sub", "data"} \X AllTopic \X (Key \cup Topic)]]
    /\ quit \subseteq Node \X Node \X AllTopic
    /\ spent \in [{"fail", "restart", "unfriend"} -> Nat]

\* A sequence number is never used twice, although Put takes the largest one of
\* a table whose rows it replaces: the table holds the last Put of every primary
\* key, under the number that Put was given (REPLACE and MAX(seqno) in Put).
TableIsLatest ==
    \A n \in Node :
      /\ LastSeq(n) = Len(log[n])
      /\ \A r \in obj[n] : r.seq \in 1 .. Len(log[n]) /\ log[n][r.seq] = Name(r)
      /\ \A i \in 1 .. Len(log[n]) :
           (\A j \in i + 1 .. Len(log[n]) : log[n][j] # log[n][i])
             <=> (\E r \in obj[n] : r.seq = i)

\* No cursor is ahead of the table it points into, so that a record put from now
\* on is above acked and heard: it is sent when asked for and not taken for a
\* duplicate, whatever calls of Subscribe, retries and removals came before
\* (acked is set from a batch in notifyLoop and from a priority in onSubscribe).
CursorsBehind ==
    \A n, f \in Node, t \in AllTopic :
      acked[n][f][t] <= LastSeq(n) /\ heard[f][n][t] <= LastSeq(n)

\* No wakeup is lost: a looper waits only when it has nothing to send, except
\* that Subscribe may have set desired and not put its record, which wakes it.
NoLostWakeup ==
    \A n, f \in Node :
      looper[n][f] = "sleep" /\ Pending(n, f) # {} =>
        \E c \in calls : c.at = n /\ c.peer = f /\ c.pc = "rowed"

\* What is acked was handed over: a record that notifyLoop will not send again has
\* reached the sink of the friend, unless the friend has given up the topic or the
\* publisher at some time.
NothingSkipped ==
    \A n, f \in Node : \A r \in obj[n] :
      <<f, n, r.topic>> \notin quit /\ r.seq <= acked[n][f][r.topic]
        => [from |-> n, name |-> Name(r), seq |-> r.seq] \in handed[f]

\* While nothing crashes and no handler is abandoned, the sinks are given each
\* record of a friend once, and those of a topic in the order they were put,
\* though a call whose answer is lost is sent again whole (heard in onNotify).
ExactlyOnceInOrder ==
    [][\A f, n \in Node :
         hnd[f][n]["live"].pc = "sink" /\ hnd'[f][n]["live"].pc = "mark" =>
           \A r \in First(hnd[f][n]["live"].todo) : \A d \in handed[f] :
             d.from = n /\ d.name[2] = r.topic => d.seq < r.seq]_vars

Friends(n, f) == looper[n][f] # "none" /\ looper[f][n] # "none"

\* A friend's wish becomes known: what f has recorded as n's wish is, in the end,
\* what n wants (desired and requested, the two sides of one subscription).
SubscriptionsAgree ==
    \A n, f \in Node, t \in Topic :
      <>[](Friends(n, f) => requested[f][n][t] = desired[n][f][t])

\* Every record of a topic both sides subscribed to is handed to the friend.
EventuallyDelivered ==
    \A n, f \in Node, t \in AllTopic :
      <>[](Friends(n, f) /\ desired[n][f][t] /\ desired[f][n][t] =>
             \A r \in obj[n] : r.topic = t =>
               [from |-> n, name |-> Name(r), seq |-> r.seq] \in handed[f])

\* With nothing new to say nodes fall silent: every looper of a pair of friends
\* waits (the test waits "to make sure things aren't chatty").
FallsSilent ==
    \A n, f \in Node :
      <>[](Friends(n, f) => looper[n][f] = "sleep")

\* The feed this module implements: got is what the sinks were handed.
Promise == INSTANCE Feed WITH
    Topics <- AllTopic,
    Names <- {"sub", "data"} \X AllTopic \X (Key \cup Topic),
    got <- [n \in Node |-> [f \in Node |->
              {<<d.seq, d.name>> : d \in {e \in handed[f] : e.from = n}}]]

\* Sync implements the feed: topic by topic, no current record is passed over on
\* the way to a friend's sinks, whatever fails and is retried, until the friend gives
\* up the topic or the publisher.
ImplementsFeed == Promise!Spec
=============================================================================
