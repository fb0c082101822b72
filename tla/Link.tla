-------------------------------- MODULE Link --------------------------------
(***************************************************************************)
(* How a node finds its friends (link.go, rendezvous.go): friends move and *)
(* publish where they are at a rendezvous server; the node keeps their     *)
(* last known address in its Friend table and in maps by fingerprint and   *)
(* by address, asks the server when a call has failed, and checks who      *)
(* answers.  Several calls run at once; the mutex is held for each lookup  *)
(* and each update, not for a call.                                        *)
(***************************************************************************)
EXTENDS Integers, FiniteSets

CONSTANTS
    Friend,      \* the node's friends: fingerprints
    Addr,        \* addresses, host and port
    CanUse,      \* CanUse[f]: the addresses f may get from its router
    Caller,      \* goroutines that call one friend at once
    MaxMove,     \* bound: changes of address
    MaxFail,     \* bound: requests that fail though somebody is there
    MaxRemove,   \* bound: calls of RemoveFriend
    MaxUpdate,   \* bound: requests of users to update a friend that exists
    MaxRestart,  \* bound: crashes with restart
    MaxAll       \* bound: all of these together

None == "none"
Unknown == "$"

ASSUME AddrAssumption == CanUse \in [Friend -> SUBSET Addr] /\ {None, Unknown} \cap Addr = {}
ASSUME BoundAssumption == {MaxMove, MaxFail, MaxRemove, MaxUpdate, MaxRestart, MaxAll} \subseteq Nat

VARIABLES
    at,        \* at[f]: where f listens
    now,       \* the time in seconds, as far as publishing is concerned
    pub,       \* pub[f]: f's requests to the server in progress
    rv,        \* rv[f]: f's record at the server, if any
    table,     \* table[f]: host and port in the Friend row, None without a row
    byFp,      \* byFp[f]: the friendInfo of f, at most one
    byHost,    \* byHost[x]: the friendInfo dial finds for address x: whose it is,
               \* and whether byFp has the same one
    call,      \* call[f][c]: where a call to f is, the address it goes to, and the
               \* friendInfo dial works with
    astray,    \* history: friends with an address and a friendInfo that no map by
               \* address has, which AddUpdateFriend has made
    spent      \* moves, failures, removals, updates and restarts so far

server == <<at, now, pub, rv>>
vars == <<at, now, pub, rv, table, byFp, byHost, call, astray, spent>>

Published == [ver : Nat, host : Addr]
\* A request, how far onPut is with it, and whether f has given it up.
Request == [ver : Nat, host : Addr, do : {"check", "insert", "update"}, late : BOOLEAN]
Info == [host : Addr \cup {Unknown}, failed : BOOLEAN]
Indexed == [who : Friend, same : BOOLEAN]
Call == [pc : {"idle", "ask", "got", "dial", "wait", "ok"}, host : Addr \cup {Unknown},
         info : SUBSET Indexed]

At(pc, host, info) == [pc |-> pc, host |-> host, info |-> info]
Idle == At("idle", Unknown, {})
All == spent["move"] + spent["fail"] + spent["remove"] + spent["update"] + spent["restart"]
Spend(x, max) == spent[x] < max /\ All < MaxAll /\ spent' = [spent EXCEPT ![x] = @ + 1]
Listening(x) == {f \in Friend : at[f] = x}

-----------------------------------------------------------------------------
(* Friends and the rendezvous server.                                         *)

\* A friend gets a free address from its router.
Move(f, x) ==
    /\ Spend("move", MaxMove)
    /\ x \in CanUse[f] /\ Listening(x) = {}
    /\ at' = [at EXCEPT ![f] = x]
    /\ UNCHANGED <<now, pub, rv, table, byFp, byHost, call, astray>>

\* The loop of main finds the address and SetExt puts it, with the second as the
\* version.  Publishing what the server has already is left out: it changes nothing
\* but the version.
Publish(f) ==
    /\ \A p \in pub[f] : p.late
    /\ \A r \in rv[f] : r.host # at[f]
    /\ pub' = [pub EXCEPT ![f] = @ \cup
                 {[ver |-> now, host |-> at[f], do |-> "check", late |-> FALSE]}]
    /\ UNCHANGED <<at, now, rv, table, byFp, byHost, call, astray, spent>>

\* The second in which something was published passes.
Tick ==
    /\ \E f \in Friend : \E r \in rv[f] \cup pub[f] : r.ver = now
    /\ now' = now + 1
    /\ UNCHANGED <<at, pub, rv, table, byFp, byHost, call, astray, spent>>

\* onPut refuses a version that is not above the one it has ...
OnPutCheck(f) ==
    /\ \E p \in pub[f] :
         /\ p.do = "check"
         /\ pub' = [pub EXCEPT ![f] = (@ \ {p}) \cup
                      IF \E r \in rv[f] : p.ver <= r.ver THEN {}
                      ELSE {[p EXCEPT !.do = IF rv[f] = {} THEN "insert" ELSE "update"]}]
    /\ UNCHANGED <<at, now, rv, table, byFp, byHost, call, astray, spent>>

\* Fault: the record is inserted beside the old one.
OnPutWriteBeside(f) ==
    /\ \E p \in pub[f] :
         /\ p.do # "check"
         /\ rv' = [rv EXCEPT ![f] = @ \cup {[ver |-> p.ver, host |-> p.host]}]
         /\ pub' = [pub EXCEPT ![f] = @ \ {p}]
    /\ UNCHANGED <<at, now, table, byFp, byHost, call, astray, spent>>

\* ... and writes the record, over whatever another request has written since; where
\* it found no row and there is one by now, the index refuses a second one.
OnPutWrite(f) ==
    /\ \E p \in pub[f] :
         /\ p.do # "check"
         /\ rv' = [rv EXCEPT ![f] = IF p.do = "insert" /\ @ # {} THEN @
                                    ELSE {[ver |-> p.ver, host |-> p.host]}]
         /\ pub' = [pub EXCEPT ![f] = @ \ {p}]
    /\ UNCHANGED <<at, now, table, byFp, byHost, call, astray, spent>>

\* The request is lost, or the answer, while the server goes on; SetExt does not look.
PutLost(f) ==
    /\ Spend("fail", MaxFail)
    /\ \E p \in pub[f] :
         /\ ~p.late
         /\ \/ p.do = "check" /\ pub' = [pub EXCEPT ![f] = @ \ {p}]
            \/ pub' = [pub EXCEPT ![f] = (@ \ {p}) \cup {[p EXCEPT !.late = TRUE]}]
    /\ UNCHANGED <<at, now, rv, table, byFp, byHost, call, astray>>

-----------------------------------------------------------------------------
(* The maps.                                                                  *)

\* f gets a friendInfo of its own: what byHost and calls have of it is an old one.
Old(f, s) == {IF o.who = f THEN [o EXCEPT !.same = FALSE] ELSE o : o \in s}
Hosts(f) == [x \in Addr |-> Old(f, byHost[x])]
Calls(f) == [g \in Friend |-> [c \in Caller |-> [call[g][c] EXCEPT !.info = Old(f, @)]]]

\* Faults: the address is not indexed; the map by fingerprint is not renewed.
UpdateHostDataOnly(f, x) ==
    /\ table' = [table EXCEPT ![f] = x]
    /\ byFp' = [byFp EXCEPT ![f] = {[host |-> x, failed |-> FALSE]}]
    /\ byHost' = Hosts(f)
UpdateHostDataStale(f, x) ==
    /\ table' = [table EXCEPT ![f] = x]
    /\ byHost' = [Hosts(f) EXCEPT ![x] = {[who |-> f, same |-> TRUE]}]
    /\ UNCHANGED byFp

UpdateHostData(f, x) ==
    /\ table' = [table EXCEPT ![f] = x]
    /\ byFp' = [byFp EXCEPT ![f] = {[host |-> x, failed |-> FALSE]}]
    /\ byHost' = [Hosts(f) EXCEPT ![x] = {[who |-> f, same |-> TRUE]}]

\* AddUpdateFriend of somebody new.
AddFriend(f) ==
    /\ table[f] = None
    /\ table' = [table EXCEPT ![f] = Unknown]
    /\ byFp' = [byFp EXCEPT ![f] = {[host |-> Unknown, failed |-> FALSE]}]
    /\ UNCHANGED <<server, byHost, call, astray, spent>>

\* AddUpdateFriend of somebody who is there inserts nothing, and takes the row that
\* was inserted last, in whichever table, for the friend's: the friendInfo of any
\* friend is read again, and not indexed by address.  When there is no such row Scan
\* panics and nothing is changed.
UpdateFriend(f) ==
    /\ Spend("update", MaxUpdate)
    /\ table[f] # None
    /\ \E g \in Friend :
         /\ table[g] # None
         /\ byFp' = [byFp EXCEPT ![g] = {[host |-> table[g], failed |-> FALSE]}]
         /\ byHost' = Hosts(g) /\ call' = Calls(g)
         /\ astray' = IF table[g] = Unknown THEN astray ELSE astray \cup {g}
    /\ UNCHANGED <<server, table>>

\* UpdateHostData as users call it, with an address they were told: doPutFriend, once
\* it has added or updated the friend.
GiveAddress(f, x) ==
    /\ Spend("update", MaxUpdate)
    /\ table[f] # None
    /\ UpdateHostData(f, x) /\ call' = Calls(f) /\ astray' = astray \ {f}
    /\ UNCHANGED server

\* The friend's row goes and the map by fingerprint forgets it, that by address not.
RemoveFriend(f) ==
    /\ Spend("remove", MaxRemove)
    /\ table[f] # None
    /\ table' = [table EXCEPT ![f] = None]
    /\ byFp' = [byFp EXCEPT ![f] = {}]
    /\ byHost' = Hosts(f) /\ call' = Calls(f) /\ astray' = astray \ {f}
    /\ UNCHANGED server

\* Start fills the maps from the table; of several rows with one address the last
\* one read is indexed.
Load ==
    /\ byFp' = [f \in Friend |-> IF table[f] = None THEN {}
                                 ELSE {[host |-> table[f], failed |-> FALSE]}]
    /\ byHost' \in {h \in [Addr -> SUBSET [who : Friend, same : {TRUE}]] :
                      \A x \in Addr : LET here == {f \in Friend : table[f] = x}
                                      IN  \/ here = {} /\ h[x] = {}
                                          \/ \E f \in here : h[x] = {[who |-> f, same |-> TRUE]}}
    /\ call' = [f \in Friend |-> [c \in Caller |-> Idle]]
    /\ astray' = {}

Restart ==
    /\ Spend("restart", MaxRestart)
    /\ Load
    /\ UNCHANGED <<server, table>>

-----------------------------------------------------------------------------
(* RoundTrip and dial.                                                        *)

\* Send and RoundTrip look the friend up.  A friendInfo that failed or has no
\* address sends the call to the server first.
Find(f, c) ==
    /\ call[f][c].pc \in {"idle", "ok"}
    /\ \E i \in byFp[f] :
         call' = [call EXCEPT ![f][c] =
                    At(IF i.failed \/ i.host = Unknown THEN "ask" ELSE "dial", i.host, {})]
    /\ UNCHANGED <<server, table, byFp, byHost, astray, spent>>

\* Without an answer the call goes on with the old address, if there is any.
Unanswered(f, c) ==
    call' = [call EXCEPT ![f][c] = IF @.host = Unknown THEN Idle ELSE [@ EXCEPT !.pc = "dial"]]

\* The server answers (onGet) ...
Ask(f, c) ==
    /\ call[f][c].pc = "ask"
    /\ \/ \E r \in rv[f] : call' = [call EXCEPT ![f][c] = At("got", r.host, {})]
       \/ rv[f] = {} /\ Unanswered(f, c)
    /\ UNCHANGED <<server, table, byFp, byHost, astray, spent>>

AskFails(f, c) ==
    /\ Spend("fail", MaxFail)
    /\ call[f][c].pc = "ask"
    /\ Unanswered(f, c)
    /\ UNCHANGED <<server, table, byFp, byHost, astray>>

\* ... and the answer replaces the address, be it older than what another call got.
Update(f, c) ==
    LET to == call[f][c].host
    IN  /\ call[f][c].pc = "got" /\ table[f] # None
        /\ UpdateHostData(f, to)
        /\ call' = [Calls(f) EXCEPT ![f][c] = At("dial", to, {})]
        /\ astray' = astray \ {f}
        /\ UNCHANGED <<server, spent>>

\* UpdateHostData panics when the friend was removed meanwhile: the process ends.
UpdatePanics(f, c) ==
    /\ call[f][c].pc = "got" /\ table[f] = None
    /\ Load
    /\ UNCHANGED <<server, table, spent>>

\* dial looks the address up ...
Dial(f, c) ==
    LET to == call[f][c].host
    IN  /\ call[f][c].pc = "dial"
        /\ call' = [call EXCEPT ![f][c] = IF byHost[to] = {} THEN Idle ELSE At("wait", to, byHost[to])]
        /\ UNCHANGED <<server, table, byFp, byHost, astray, spent>>

\* ... and whoever answers must be the friend it has found.
Reached(f, c) ==
    /\ call[f][c].pc = "wait"
    /\ \E o \in call[f][c].info : o.who \in Listening(call[f][c].host)
    /\ call' = [call EXCEPT ![f][c] = At("ok", @.host, {})]
    /\ UNCHANGED <<server, table, byFp, byHost, astray, spent>>

\* Fault: the mark is left to the caller.
FailedQuietly(f, c) == call' = [call EXCEPT ![f][c] = Idle] /\ UNCHANGED byFp

\* The friendInfo dial has found is marked; byFp sees it if it is the same one.
Failed(f, c) ==
    /\ \E o \in call[f][c].info :
         byFp' = [byFp EXCEPT ![o.who] = IF o.same THEN {[i EXCEPT !.failed = TRUE] : i \in @}
                                         ELSE @]
    /\ call' = [call EXCEPT ![f][c] = Idle]

NotReached(f, c) ==
    /\ call[f][c].pc = "wait"
    /\ \A o \in call[f][c].info : o.who \notin Listening(call[f][c].host)
    /\ Failed(f, c)
    /\ UNCHANGED <<server, table, byHost, astray, spent>>

DialFails(f, c) ==
    /\ Spend("fail", MaxFail)
    /\ call[f][c].pc = "wait"
    /\ Failed(f, c)
    /\ UNCHANGED <<server, table, byHost, astray>>

-----------------------------------------------------------------------------

\* Friends are at addresses of theirs; the node has just been made.
Init ==
    /\ at \in {p \in [Friend -> Addr] : /\ \A f \in Friend : p[f] \in CanUse[f]
                                        /\ \A f, g \in Friend : p[f] = p[g] => f = g}
    /\ now = 0
    /\ pub = [f \in Friend |-> {}]
    /\ rv = [f \in Friend |-> {}]
    /\ table = [f \in Friend |-> None]
    /\ byFp = [f \in Friend |-> {}]
    /\ byHost = [x \in Addr |-> {}]
    /\ call = [f \in Friend |-> [c \in Caller |-> Idle]]
    /\ astray = {}
    /\ spent = [x \in {"move", "fail", "remove", "update", "restart"} |-> 0]

Server(f) == OnPutCheck(f) \/ OnPutWrite(f)
Proceed(f, c) ==
    \/ Find(f, c) \/ Ask(f, c) \/ Update(f, c) \/ UpdatePanics(f, c)
    \/ Dial(f, c) \/ Reached(f, c) \/ NotReached(f, c)

Next ==
    \/ Tick \/ Restart
    \/ \E f \in Friend :
         \/ Publish(f) \/ Server(f) \/ PutLost(f) \/ AddFriend(f) \/ UpdateFriend(f)
         \/ RemoveFriend(f)
         \/ \E x \in Addr : Move(f, x) \/ GiveAddress(f, x)
         \/ \E c \in Caller : Proceed(f, c) \/ AskFails(f, c) \/ DialFails(f, c)

Spec == Init /\ [][Next]_vars

\* Time passes, friends publish and the server serves; calls go on and are made
\* again.
FairSpec ==
    /\ Spec
    /\ WF_vars(Tick)
    /\ \A f \in Friend : WF_vars(Publish(f)) /\ WF_vars(Server(f))
    /\ \A f \in Friend, c \in Caller : WF_vars(Proceed(f, c))

-----------------------------------------------------------------------------
(* What must hold.                                                            *)

\* Every variable has its type; the server has one record of a friend at most.
TypeOK ==
    /\ at \in [Friend -> Addr] /\ now \in Nat
    /\ pub \in [Friend -> SUBSET Request]
    /\ rv \in [Friend -> SUBSET Published] /\ \A f \in Friend : Cardinality(rv[f]) <= 1
    /\ table \in [Friend -> Addr \cup {None, Unknown}]
    /\ byFp \in [Friend -> SUBSET Info]
    /\ byHost \in [Addr -> SUBSET Indexed]
    /\ call \in [Friend -> [Caller -> Call]]
    /\ astray \subseteq Friend
    /\ spent \in [{"move", "fail", "remove", "update", "restart"} -> Nat]

\* The map by fingerprint has the friends of the table and their addresses.
MapIsTable ==
    \A f \in Friend : {i.host : i \in byFp[f]} = {table[f]} \ {None}

\* A call that fails is noticed: dial finds, for the address RoundTrip takes from a
\* friendInfo, that very friendInfo, which it marks as failed.  Only AddUpdateFriend
\* of a friend who is there leads a friendInfo astray.
FailureIsSeen ==
    \A f \in Friend \ astray : \A i \in byFp[f] :
      i.host # Unknown => byHost[i.host] = {[who |-> f, same |-> TRUE]}

\* Every friend that is not removed, nor led astray for good, is called with success
\* again and again, however often it has moved, once it stays where it is.
EventuallyReached ==
    \A f \in Friend, c \in Caller :
      []<>(table[f] = None \/ f \in astray \/ call[f][c].pc = "ok")
=============================================================================
