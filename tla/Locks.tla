-------------------------------- MODULE Locks --------------------------------
(***************************************************************************)
(* Who waits for whom in h0tb0x: the link's mutex, a readers-writer lock   *)
(* held across calls of the layer above, cmut of the sync layer, and the   *)
(* goroutines that RemoveFriend and Stop wait for.  A looper's call runs a *)
(* handler at the friend, under the friend's locks.  What is sent is left  *)
(* out.  The clients' locks and the lock of DataMgr do not appear: whoever *)
(* holds one waits at most for cmut.                                       *)
(***************************************************************************)
EXTENDS Integers, FiniteSets

CONSTANTS
    Node,        \* the nodes, all of them friends of each other at first
    MaxPut,      \* bound: records put
    MaxChange,   \* bound: friends removed or added
    MaxStop,     \* bound: nodes that stop
    MaxFail      \* bound: failed connections and calls

ASSUME BoundAssumption == {MaxPut, MaxChange, MaxStop, MaxFail} \subseteq Nat

VARIABLES
    friend,   \* friend[n][f]: f is in n's friendsByFp
    looper,   \* looper[n][f]: where n's notifyLoop for f is
    closing,  \* closing[n][f]: its channel shutdown is closed
    todo,     \* todo[n][f]: its query would find records
    hnd,      \* hnd[f][n]: f's ServeHTTP for the call of n
    putting,  \* nodes with a user inside Put
    op,       \* op[n]: n's AddUpdateFriend or RemoveFriend in progress
    stop,     \* stop[n]: where n's Stop is
    spent     \* puts, changes, stops and failures so far

vars == <<friend, looper, closing, todo, hnd, putting, op, stop, spent>>

NoOp == [pc |-> "idle", peer |-> {}]
Doing(pc, f) == [pc |-> pc, peer |-> {f}]

Spare(x, max) == spent[x] < max
Spend(x) == spent' = [spent EXCEPT ![x] = @ + 1]

\* A goroutine that nobody has to wait for.
Ended(n, f) == looper[n][f] \in {"none", "gone"}

-----------------------------------------------------------------------------
(* The locks.                                                              *)

\* Fault: ServeHTTP unlocks before it calls the handler.
ReadersBrief(n) == {f \in Node : hnd[n][f] = "locked"}

\* ServeHTTP holds the mutex of n for reading while the handler runs.
Readers(n) == {f \in Node : hnd[n][f] \in {"locked", "busy"}}

\* A writer has announced itself at the mutex of n, or holds it: from then on
\* neither readers nor another writer get in (sync.RWMutex).
Barred(n) == \/ op[n].pc \in {"drain", "join"}
             \/ \E f \in Node : looper[n][f] = "drain"

\* cmut is free: nobody removes a friend or stops loopers.  Everybody else who
\* takes it lets go of it in the same step.
CmutFree(n) == op[n].pc # "join" /\ stop[n] # "join"

-----------------------------------------------------------------------------
(* notifyLoop and the call inside it.                                      *)

Goto(n, f, pc) == looper' = [looper EXCEPT ![n][f] = pc]

\* One pass: told to stop, something to send, or nothing.
Scan(n, f) ==
    /\ looper[n][f] = "scan"
    /\ IF closing[n][f] THEN Goto(n, f, "gone") /\ UNCHANGED todo
       ELSE IF todo[n][f]
       THEN Goto(n, f, "find") /\ todo' = [todo EXCEPT ![n][f] = FALSE]
       ELSE Goto(n, f, "sleep") /\ UNCHANGED todo
    /\ UNCHANGED <<friend, closing, hnd, putting, op, stop, spent>>

\* Fault: the lookup takes no lock.
FindUnlocked(n, f) ==
    /\ looper[n][f] = "find"
    /\ \E pc \in {"update", "dial", "call"} : Goto(n, f, pc)
    /\ UNCHANGED <<friend, closing, todo, hnd, putting, op, stop, spent>>

\* RoundTrip looks the friend up: it asks the server when no address is known or
\* the last call failed, else it dials or uses an open connection.
Find(n, f) ==
    /\ looper[n][f] = "find" /\ ~Barred(n)
    /\ \E pc \in {"update", "dial", "call"} : Goto(n, f, pc)
    /\ UNCHANGED <<friend, closing, todo, hnd, putting, op, stop, spent>>

\* UpdateHostData takes the mutex for writing, which bars readers at once ...
Announce(n, f) ==
    /\ looper[n][f] = "update" /\ ~Barred(n)
    /\ Goto(n, f, "drain")
    /\ UNCHANGED <<friend, closing, todo, hnd, putting, op, stop, spent>>

\* ... and waits for those that are in.
Update(n, f) ==
    /\ looper[n][f] = "drain" /\ Readers(n) = {}
    /\ Goto(n, f, "dial")
    /\ UNCHANGED <<friend, closing, todo, hnd, putting, op, stop, spent>>

\* dial looks the friend up by address and connects.
Dial(n, f) ==
    /\ looper[n][f] = "dial" /\ ~Barred(n) /\ stop[f] \notin {"wait", "closed"}
    /\ Goto(n, f, "call")
    /\ UNCHANGED <<friend, closing, todo, hnd, putting, op, stop, spent>>

\* The call is over without an answer: what was to be sent still is.
Break(n, f) ==
    /\ Goto(n, f, "failed")
    /\ hnd' = [hnd EXCEPT ![f][n] = "idle"]
    /\ todo' = [todo EXCEPT ![n][f] = TRUE]
    /\ UNCHANGED <<friend, closing, putting, op, stop>>

\* Nobody listens there, or nobody answers any more.
NotThere(n, f) ==
    /\ \/ looper[n][f] = "dial" /\ ~Barred(n) /\ stop[f] \in {"wait", "closed"}
       \/ looper[n][f] = "call" /\ hnd[f][n] = "idle" /\ stop[f] = "closed"
    /\ Break(n, f)
    /\ UNCHANGED spent

\* The network fails before the friend's handler runs, or after.
Fail(n, f) ==
    /\ Spare("fail", MaxFail)
    /\ \/ looper[n][f] = "dial" /\ ~Barred(n)
       \/ looper[n][f] = "call" /\ hnd[f][n] \in {"idle", "done"}
    /\ Break(n, f)
    /\ Spend("fail")

\* The answer arrives.
Answer(n, f) ==
    /\ looper[n][f] = "call" /\ hnd[f][n] = "done"
    /\ Goto(n, f, "scan")
    /\ hnd' = [hnd EXCEPT ![f][n] = "idle"]
    /\ UNCHANGED <<friend, closing, todo, putting, op, stop, spent>>

\* safeSleep, which shutdown cuts short.
Retry(n, f) ==
    /\ looper[n][f] = "failed"
    /\ Goto(n, f, "scan")
    /\ UNCHANGED <<friend, closing, todo, hnd, putting, op, stop, spent>>

-----------------------------------------------------------------------------
(* ServeHTTP at f for a call of n.                                         *)

\* Fault: a caller that is not known gets no answer.
ServeSilent(f, n) ==
    /\ looper[n][f] = "call" /\ hnd[f][n] = "idle"
    /\ ~Barred(f) /\ stop[f] # "closed"
    /\ friend[f][n] /\ hnd' = [hnd EXCEPT ![f][n] = "locked"]
    /\ UNCHANGED <<friend, looper, closing, todo, putting, op, stop, spent>>

\* It takes the mutex for reading and looks the caller up, ...
Serve(f, n) ==
    /\ looper[n][f] = "call" /\ hnd[f][n] = "idle"
    /\ ~Barred(f) /\ stop[f] # "closed"
    /\ IF friend[f][n]
       THEN hnd' = [hnd EXCEPT ![f][n] = "locked"]
            /\ UNCHANGED <<friend, looper, closing, todo, putting, op, stop>>
       ELSE Break(n, f)
    /\ UNCHANGED spent

\* ... counts itself in wait and calls the handler, unless the database has been
\* closed meanwhile: then it panics.
Enter(f, n) ==
    /\ hnd[f][n] = "locked"
    /\ IF stop[f] = "closed"
       THEN Break(n, f)
       ELSE hnd' = [hnd EXCEPT ![f][n] = "busy"]
            /\ UNCHANGED <<friend, looper, closing, todo, putting, op, stop>>
    /\ UNCHANGED spent

\* A new record is there for every friend, and the loopers are woken.
Broadcast(n) ==
    /\ todo' = [todo EXCEPT ![n] = [f \in Node |-> ~Ended(n, f)]]
    /\ looper' = [looper EXCEPT ![n] =
                    [f \in Node |-> IF @[f] = "sleep" THEN "scan" ELSE @[f]]]

\* onNotify, which takes cmut to find the client, and its sinks, which take it
\* to put what they were given.
Handle(f, n) ==
    /\ hnd[f][n] = "busy" /\ CmutFree(f)
    /\ hnd' = [hnd EXCEPT ![f][n] = "done"]
    /\ \/ Spare("put", MaxPut) /\ Broadcast(f) /\ Spend("put")
       \/ UNCHANGED <<todo, looper, spent>>
    /\ UNCHANGED <<friend, closing, putting, op, stop>>

-----------------------------------------------------------------------------
(* Users: Put, AddUpdateFriend, RemoveFriend, Stop.                        *)

PutBegin(n) ==
    /\ n \notin putting /\ stop[n] = "no" /\ Spare("put", MaxPut)
    /\ putting' = putting \cup {n}
    /\ Spend("put")
    /\ UNCHANGED <<friend, looper, closing, todo, hnd, op, stop>>

Put(n) ==
    /\ n \in putting /\ CmutFree(n)
    /\ Broadcast(n)
    /\ putting' = putting \ {n}
    /\ UNCHANGED <<friend, closing, hnd, op, stop, spent>>

ChangeBegin(n, f) ==
    /\ op[n] = NoOp /\ stop[n] = "no" /\ n # f /\ Spare("change", MaxChange)
    /\ op' = [op EXCEPT ![n] = Doing("want", f)]
    /\ Spend("change")
    /\ UNCHANGED <<friend, looper, closing, todo, hnd, putting, stop>>

\* mutex.Lock: the same two steps as in UpdateHostData.
ChangeAnnounce(n) ==
    /\ op[n].pc = "want" /\ ~Barred(n)
    /\ op' = [op EXCEPT ![n].pc = "drain"]
    /\ UNCHANGED <<friend, looper, closing, todo, hnd, putting, stop, spent>>

\* A friend that is not there is added, with a looper.
Add(n, f) ==
    /\ op[n] = Doing("drain", f) /\ Readers(n) = {} /\ CmutFree(n)
    /\ ~friend[n][f]
    /\ friend' = [friend EXCEPT ![n][f] = TRUE]
    /\ Goto(n, f, "scan")
    /\ closing' = [closing EXCEPT ![n][f] = FALSE]
    /\ todo' = [todo EXCEPT ![n][f] = TRUE]
    /\ op' = [op EXCEPT ![n] = NoOp]
    /\ UNCHANGED <<hnd, putting, stop, spent>>

\* Fault: no Broadcast.
TellQuietly(n, f) ==
    /\ closing' = [closing EXCEPT ![n][f] = TRUE]
    /\ UNCHANGED looper

\* clientLooper.stop up to its Wait.
Tell(n, f) ==
    /\ closing' = [closing EXCEPT ![n][f] = TRUE]
    /\ Goto(n, f, IF looper[n][f] = "sleep" THEN "scan" ELSE looper[n][f])

\* A friend that is there is removed: its looper is told to stop ...
Remove(n, f) ==
    /\ op[n] = Doing("drain", f) /\ Readers(n) = {} /\ CmutFree(n)
    /\ friend[n][f]
    /\ Tell(n, f)
    /\ op' = [op EXCEPT ![n].pc = "join"]
    /\ UNCHANGED <<friend, todo, hnd, putting, stop, spent>>

\* Fault: the friend stays marked as being removed.
RemovedMarked(n, f) ==
    /\ op[n] = Doing("join", f) /\ looper[n][f] = "gone"
    /\ friend' = [friend EXCEPT ![n][f] = FALSE]
    /\ Goto(n, f, "none")
    /\ op' = [op EXCEPT ![n].pc = "idle"]
    /\ UNCHANGED <<closing, todo, hnd, putting, stop, spent>>

\* ... and waited for with the mutex and cmut held.
Removed(n, f) ==
    /\ op[n] = Doing("join", f) /\ looper[n][f] = "gone"
    /\ friend' = [friend EXCEPT ![n][f] = FALSE]
    /\ Goto(n, f, "none")
    /\ op' = [op EXCEPT ![n] = NoOp]
    /\ UNCHANGED <<closing, todo, hnd, putting, stop, spent>>

\* SyncMgr.Stop takes cmut.  Users have no request in progress by then.
StopBegin(n) ==
    /\ stop[n] = "no" /\ op[n] = NoOp /\ n \notin putting /\ Spare("stop", MaxStop)
    /\ stop' = [stop EXCEPT ![n] = "join"]
    /\ Spend("stop")
    /\ UNCHANGED <<friend, looper, closing, todo, hnd, putting, op>>

\* It stops the loopers, one after the other, ...
StopNext(n, f) ==
    /\ stop[n] = "join" /\ ~Ended(n, f) /\ ~closing[n][f]
    /\ \A g \in Node : closing[n][g] => Ended(n, g)
    /\ Tell(n, f)
    /\ UNCHANGED <<friend, todo, hnd, putting, op, stop, spent>>

\* ... lets go of cmut, and LinkMgr.Stop closes the listener.
StopJoined(n) ==
    /\ stop[n] = "join" /\ \A f \in Node : Ended(n, f)
    /\ stop' = [stop EXCEPT ![n] = "wait"]
    /\ UNCHANGED <<friend, looper, closing, todo, hnd, putting, op, spent>>

\* It waits for the handlers that are counted, and closes the database.
Close(n) ==
    /\ stop[n] = "wait" /\ \A f \in Node : hnd[n][f] # "busy"
    /\ stop' = [stop EXCEPT ![n] = "closed"]
    /\ UNCHANGED <<friend, looper, closing, todo, hnd, putting, op, spent>>

-----------------------------------------------------------------------------

Init ==
    /\ friend = [n \in Node |-> [f \in Node |-> n # f]]
    /\ looper = [n \in Node |-> [f \in Node |-> IF n = f THEN "none" ELSE "scan"]]
    /\ closing = [n \in Node |-> [f \in Node |-> FALSE]]
    /\ todo = [n \in Node |-> [f \in Node |-> n # f]]
    /\ hnd = [f \in Node |-> [n \in Node |-> "idle"]]
    /\ putting = {}
    /\ op = [n \in Node |-> NoOp]
    /\ stop = [n \in Node |-> "no"]
    /\ spent = [x \in {"put", "change", "stop", "fail"} |-> 0]

\* Steps that take the mutex, and the others.
Lock(n, f) == Find(n, f) \/ Announce(n, f) \/ Dial(n, f) \/ NotThere(n, f)
Loop(n, f) == Scan(n, f) \/ Update(n, f) \/ Answer(n, f) \/ Retry(n, f)
Handler(f, n) == Enter(f, n) \/ Handle(f, n)
Change(n) == \E f \in Node : Add(n, f) \/ Remove(n, f) \/ Removed(n, f)
Stop(n) == StopJoined(n) \/ Close(n) \/ \E f \in Node : StopNext(n, f)

Next ==
    \/ \E n, f \in Node : Lock(n, f) \/ Loop(n, f) \/ Fail(n, f)
    \/ \E n, f \in Node : Serve(f, n) \/ Handler(f, n)
    \/ \E n \in Node : PutBegin(n) \/ Put(n) \/ StopBegin(n) \/ Stop(n)
    \/ \E n \in Node : ChangeAnnounce(n) \/ Change(n) \/ \E f \in Node : ChangeBegin(n, f)

Spec == Init /\ [][Next]_vars

\* Goroutines are scheduled.  A writer gets the mutex though loopers that fail take
\* and release it again and again: they rest for seconds in between.
Fairness ==
    /\ \A n, f \in Node : /\ WF_vars(Lock(n, f) \/ Loop(n, f))
                          /\ WF_vars(Serve(f, n) \/ Handler(f, n))
    /\ \A n \in Node : /\ SF_vars(ChangeAnnounce(n)) /\ WF_vars(Change(n))
                       /\ WF_vars(Put(n)) /\ WF_vars(Stop(n))

FairSpec == Spec /\ Fairness
-----------------------------------------------------------------------------
(* What must hold.                                                         *)

\* What a node may be doing to its friends.
Progress == {NoOp} \cup {Doing(pc, f) : pc \in {"want", "drain", "join"}, f \in Node}

\* Every variable has its type.
TypeOK ==
    /\ friend \in [Node -> [Node -> BOOLEAN]]
    /\ looper \in [Node -> [Node -> {"none", "scan", "sleep", "find", "update", "drain",
                                     "dial", "call", "failed", "gone"}]]
    /\ closing \in [Node -> [Node -> BOOLEAN]]
    /\ todo \in [Node -> [Node -> BOOLEAN]]
    /\ hnd \in [Node -> [Node -> {"idle", "locked", "busy", "done"}]]
    /\ putting \subseteq Node
    /\ op \in [Node -> Progress]
    /\ stop \in [Node -> {"no", "join", "wait", "closed"}]
    /\ spent \in [{"put", "change", "stop", "fail"} -> Nat]

\* When RemoveFriend returns no handler runs for the friend and no goroutine is
\* left that would call it, although handlers run long and take no lock of the
\* tables they use (the mutex held across the handler in ServeHTTP).
RemovedIsGone ==
    \A n, f \in Node :
      ~friend[n][f] => looper[n][f] = "none" /\ hnd[n][f] \in {"idle", "done"}

\* n waits, with cmut held, for its looper for f.
Joins(n, f) == closing[n][f] /\ ~Ended(n, f) /\ ~CmutFree(n)

\* While n joins, who needs its mutex may be held up until the looper is gone: by
\* RemoveFriend, or by a looper that waits for handlers who wait for cmut.
HeldUp(n) == \/ op[n].pc = "join"
             \/ Readers(n) # {} /\ \E f \in Node : looper[n][f] = "drain"

\* n waits for its looper, which waits for n itself ...
WaitsForItself(n, f) ==
    /\ Joins(n, f) /\ HeldUp(n)
    /\ looper[n][f] \in {"find", "update", "drain", "dial"}

\* ... or for the handler of f, which needs what f holds while it joins in turn.
WaitsForFriend(n, f) ==
    /\ Joins(n, f) /\ looper[n][f] = "call"
    /\ \E g \in Node : Joins(f, g)
    /\ hnd[f][n] = "busy" \/ (hnd[f][n] = "idle" /\ HeldUp(f))

\* Nodes that wait in a circle.
Circle ==
    \E S \in SUBSET Node \ {{}} : \A n \in S :
      \E f \in Node : WaitsForItself(n, f) \/ (f \in S /\ WaitsForFriend(n, f))

\* A circle is for good, unless the network fails: no timeout ends a call, and no
\* user, friend or other goroutine can break it (Send has no timeout, stop none).
CircleStays == [][Circle /\ spent'["fail"] = spent["fail"] => Circle']_vars

\* No request of a user and no Stop is in progress.
Settled == /\ putting = {}
           /\ \A n \in Node : op[n] = NoOp /\ stop[n] \in {"no", "closed"}

\* Nothing but a circle keeps a request of a user from coming to an end, a friend
\* to be added or removed, a Put that waits for cmut, or Stop: whatever else holds a
\* lock or is waited for goes on in the end.
OnlyCirclesLast == <>[](Settled \/ Circle)

\* Nothing but a circle keeps a call from coming to an end.
CallsEnd == \A n, f \in Node : []<>(looper[n][f] # "call" \/ Circle)

\* RemoveFriend comes to an end.
RemovalsEnd == \A n \in Node : op[n] # NoOp ~> op[n] = NoOp
=============================================================================
