-------------------------------- MODULE Meta --------------------------------
(***************************************************************************)
(* The meta layer (meta.go) of one collection: its basis, the records of   *)
(* its writers, and data records, put at any node and carried from friend  *)
(* to friend by the sync layer, which hands over the rows of a friend's    *)
(* table in the order of their sequence numbers, each once (Sync, Feed).   *)
(***************************************************************************)
EXTENDS Integers, FiniteSets, FiniteSetsExt

CONSTANTS
    Node,        \* nodes; a node is also the identity it signs with
    Owner,       \* the node that creates the collection and names its writers
    Friends,     \* pairs of friends, subscribed to the collection both ways
    Key,         \* keys of data records
    Value,       \* values of data records
    Rank,        \* Rank[v]: the order of values as byte strings
    MaxPut,      \* bound: calls of Put
    MaxAdmin,    \* bound: calls of AddWriter and RemoveWriter
    MaxRestart   \* bound: crashes with restart

ASSUME NodeAssumption == Owner \in Node /\ Friends \subseteq Node \X Node
ASSUME RankAssumption == Rank \in [Value -> Nat]
ASSUME BoundAssumption == {MaxPut, MaxAdmin, MaxRestart} \subseteq Nat

VARIABLES
    obj,       \* obj[n]: the rows of n's table, one for each name
    heard,     \* heard[n][f]: how far n has heard f (sync layer)
    handling,  \* handling[n][f]: the row of f that n has accepted and not put yet
    putting,   \* putting[n]: records of a call at n that are not put yet
    made,      \* history: the records ever put by a call
    spent      \* calls and restarts so far

vars == <<obj, heard, handling, putting, made, spent>>

(* Names are <<type, author, key>>, the primary key within a topic.  The value *)
(* of a basis or a writer record is "key", a public key; that of a writer that *)
(* was removed is "empty".                                                     *)
Basis == <<"basis", Owner, Owner>>
Writer(w) == <<"writer", Owner, w>>
Name == {Basis} \cup {Writer(w) : w \in Node} \cup ({"data"} \X Node \X Key)
Content == Value \cup {"key", "empty"}
Record == [name : Name, pri : Nat, val : Content]
Row == [name : Name, pri : Nat, val : Content, seq : Nat]

ValueRank(x) == IF x \in Value THEN Rank[x] ELSE IF x = "key" THEN 1 ELSE 0
Outranks(r, q) == r.pri > q.pri \/ (r.pri = q.pri /\ ValueRank(r.val) > ValueRank(q.val))

Bare(r) == [name |-> r.name, pri |-> r.pri, val |-> r.val]
Rows(n, name) == {r \in obj[n] : r.name = name}
LastSeq(n) == Max({r.seq : r \in obj[n]} \cup {0})

\* Fault: the old row stays.
StoreBeside(n, r) ==
    obj' = [obj EXCEPT ![n] = @ \cup
              {[name |-> r.name, pri |-> r.pri, val |-> r.val, seq |-> LastSeq(n) + 1]}]

\* SyncMgr.Put: the row of the name is replaced and gets the next number.
Store(n, r) ==
    obj' = [obj EXCEPT ![n] = (@ \ Rows(n, r.name)) \cup
              {[name |-> r.name, pri |-> r.pri, val |-> r.val, seq |-> LastSeq(n) + 1]}]

\* Friends are the edges of a tree: hop[w][n] is the next node on the way from n to w.
Tree(hop) ==
    /\ hop \in [Node -> [Node -> Node]]
    /\ \A w \in Node : hop[w][w] = w
    /\ \A p \in Friends : \A w \in Node : hop[w][p[1]] = p[2] \/ hop[w][p[2]] = p[1]

-----------------------------------------------------------------------------
(* Calls.                                                                     *)

\* CreateSpecialCollection: the basis, and then the writer record of the owner.
Create ==
    /\ Rows(Owner, Basis) = {} /\ putting[Owner] = {}
    /\ Store(Owner, [name |-> Basis, pri |-> 0, val |-> "key"])
    /\ made' = made \cup {[name |-> Basis, pri |-> 0, val |-> "key"]}
    /\ putting' = [putting EXCEPT ![Owner] =
                     {[name |-> Writer(Owner), pri |-> 0, val |-> "key"]}]
    /\ UNCHANGED <<heard, handling, spent>>

\* The record of w with value v overrides the one there is.
SetWriter(w, v) ==
    LET r == [name |-> Writer(w), pri |-> Max({q.pri + 1 : q \in Rows(Owner, Writer(w))} \cup {0}),
              val |-> v]
    IN  Store(Owner, r) /\ made' = made \cup {r}

\* Neither does anything when there is nothing to change.
AddWriter(w) ==
    /\ spent["admin"] < MaxAdmin
    /\ Rows(Owner, Basis) # {} /\ \A r \in putting[Owner] : r.name # Writer(Owner)
    /\ \A r \in Rows(Owner, Writer(w)) : r.val # "key"
    /\ SetWriter(w, "key")
    /\ spent' = [spent EXCEPT !["admin"] = @ + 1]
    /\ UNCHANGED <<heard, handling, putting>>

RemoveWriter(w) ==
    /\ spent["admin"] < MaxAdmin
    /\ \E r \in Rows(Owner, Writer(w)) : r.val # "empty"
    /\ SetWriter(w, "empty")
    /\ spent' = [spent EXCEPT !["admin"] = @ + 1, !["remove"] = @ + 1]
    /\ UNCHANGED <<heard, handling, putting>>

\* SyncMgr.Get: the largest priority of any author for a key.
Newest(n, k) == Max({r.pri : r \in {q \in obj[n] : q.name[1] = "data" /\ q.name[3] = k}}
                    \cup {-1})

\* Put reads the basis, its permission and the newest record of the key ...
Put(n, k, v) ==
    /\ spent["put"] < MaxPut /\ putting[n] = {}
    /\ Rows(n, Basis) # {} /\ Rows(n, Writer(n)) # {}
    /\ putting' = [putting EXCEPT ![n] =
                     {[name |-> <<"data", n, k>>, pri |-> Newest(n, k) + 1, val |-> v]}]
    /\ spent' = [spent EXCEPT !["put"] = @ + 1]
    /\ UNCHANGED <<obj, heard, handling, made>>

\* ... and puts; the second half of Create as well.
PutStore(n, r) ==
    /\ r \in putting[n]
    /\ Store(n, r)
    /\ made' = made \cup {r}
    /\ putting' = [putting EXCEPT ![n] = {}]
    /\ UNCHANGED <<heard, handling, spent>>

-----------------------------------------------------------------------------
(* The sinks onBasis, onWriter and onData.                                    *)

\* Fault: another value is news.
NewerOther(n, r) == \A q \in Rows(n, r.name) : <<r.pri, r.val>> # <<q.pri, q.val>>

\* verifyUpdate
Newer(n, r) == \A q \in Rows(n, r.name) : Outranks(r, q)

\* Fault: the writer is not looked up.
AcceptsAnybody(n, r) ==
    IF r.name[1] = "basis" THEN Rows(n, Basis) = {}
    ELSE Rows(n, Basis) # {} /\ r.val # "empty" /\ Newer(n, r)

\* A basis when there is none, a writer's record that has a key in it, a data
\* record of a writer; the last two when they are news.
Accepts(n, r) ==
    CASE r.name[1] = "basis"  -> Rows(n, Basis) = {}
      [] r.name[1] = "writer" -> Rows(n, Basis) # {} /\ r.val # "empty" /\ Newer(n, r)
      [] OTHER -> /\ Rows(n, Basis) # {}
                  /\ \E w \in Rows(n, Writer(r.name[2])) : w.val # "empty"
                  /\ Newer(n, r)

\* The next row of f that n has not heard is accepted, or dropped for good.
Receive(n, f) ==
    /\ <<n, f>> \in Friends /\ handling[n][f] = {}
    /\ \E r \in obj[f] :
         /\ r.seq > heard[n][f]
         /\ \A q \in obj[f] : q.seq > heard[n][f] => r.seq <= q.seq
         /\ IF Accepts(n, r)
            THEN handling' = [handling EXCEPT ![n][f] = {r}] /\ UNCHANGED heard
            ELSE heard' = [heard EXCEPT ![n][f] = r.seq] /\ UNCHANGED handling
    /\ UNCHANGED <<obj, putting, made, spent>>

\* Fault: heard, and not put.
FinishLost(n, f) ==
    \E r \in handling[n][f] :
      /\ heard' = [heard EXCEPT ![n][f] = r.seq]
      /\ handling' = [handling EXCEPT ![n][f] = {}]
      /\ UNCHANGED <<obj, putting, made, spent>>

\* What was accepted is put, and then heard.
Finish(n, f) ==
    \E r \in handling[n][f] :
      /\ Store(n, r)
      /\ heard' = [heard EXCEPT ![n][f] = r.seq]
      /\ handling' = [handling EXCEPT ![n][f] = {}]
      /\ UNCHANGED <<putting, made, spent>>

\* A crash loses what is accepted and not put, and calls in progress.
Restart(n) ==
    /\ spent["restart"] < MaxRestart
    /\ handling' = [handling EXCEPT ![n] = [f \in Node |-> {}]]
    /\ putting' = [putting EXCEPT ![n] = {}]
    /\ spent' = [spent EXCEPT !["restart"] = @ + 1]
    /\ UNCHANGED <<obj, heard, made>>

-----------------------------------------------------------------------------

Init ==
    /\ obj = [n \in Node |-> {}]
    /\ heard = [n \in Node |-> [f \in Node |-> 0]]
    /\ handling = [n \in Node |-> [f \in Node |-> {}]]
    /\ putting = [n \in Node |-> {}]
    /\ made = {}
    /\ spent = [x \in {"put", "admin", "remove", "restart"} |-> 0]

Next ==
    \/ Create
    \/ \E w \in Node : AddWriter(w) \/ RemoveWriter(w)
    \/ \E n \in Node, k \in Key, v \in Value : Put(n, k, v)
    \/ \E n \in Node : (\E r \in putting[n] : PutStore(n, r)) \/ Restart(n)
    \/ \E n, f \in Node : Receive(n, f) \/ Finish(n, f)

Spec == Init /\ [][Next]_vars

\* Calls in progress go on, and the sync layer delivers.
FairSpec ==
    /\ Spec
    /\ \A n \in Node : WF_vars(\E r \in putting[n] : PutStore(n, r))
    /\ \A n, f \in Node : WF_vars(Receive(n, f)) /\ WF_vars(Finish(n, f))

-----------------------------------------------------------------------------
(* What must hold.                                                            *)

\* Every variable has its type, and a table has one row for a name.
TypeOK ==
    /\ obj \in [Node -> SUBSET Row]
    /\ \A n \in Node : \A r, q \in obj[n] : r.name = q.name => r = q
    /\ heard \in [Node -> [Node -> Nat]]
    /\ handling \in [Node -> [Node -> SUBSET Row]]
    /\ putting \in [Node -> SUBSET Record]
    /\ made \subseteq Record
    /\ spent \in [{"put", "admin", "remove", "restart"} -> Nat]

\* A node with a data record has the basis and the record of its writer, although
\* writers' records are put again, and so delivered late (onData, Put).
WritersKnown ==
    \A n \in Node : \A r \in obj[n] :
      r.name[1] = "data" => Rows(n, Basis) # {} /\ Rows(n, Writer(r.name[2])) # {}

\* Every table is a register of the versions that were made: what a node has never
\* gives way to something older, or to something nobody put, whatever was decided
\* before something else arrived (verifyUpdate compares first and puts later).
Reg == INSTANCE Register WITH Value <- Content,
                              has <- [n \in Node |-> {Bare(r) : r \in obj[n]}]
ImplementsRegister == Reg!Spec

\* In the end friends have the same records, if no writer is removed (whose records
\* "may be out of sync", as AddWriter says).
EventuallySame ==
    [](spent["remove"] = 0) =>
      \A p \in Friends :
        <>[]({Bare(r) : r \in obj[p[1]]} = {Bare(r) : r \in obj[p[2]]})

\* A writer the owner removes is, in the end, removed at every node (RemoveWriter).
RemovalArrives ==
    \A n, w \in Node :
      (\E r \in Rows(Owner, Writer(w)) : r.val = "empty")
        ~> (\E r \in Rows(Owner, Writer(w)) : r.val = "key")
           \/ (\A r \in Rows(n, Writer(w)) : r.val = "empty")
=============================================================================
