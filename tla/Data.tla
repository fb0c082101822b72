-------------------------------- MODULE Data --------------------------------
(***************************************************************************)
(* The data layer (data.go) of several friends, on top of the records of   *)
(* the meta layer: blobs are kept while a record refers to them (Tracking) *)
(* or an operation holds them (Holds), advertised while they are local and *)
(* tracked, and downloaded when a friend advertises them.  The lock of     *)
(* DataMgr makes each of the steps below atomic; it is released during     *)
(* copying, downloading and calls of the meta layer.                       *)
(***************************************************************************)
EXTENDS Integers, FiniteSets

CONSTANTS
    Node,        \* nodes, subscribed to every topic
    Friends,     \* the pairs <<n, f>> of a node and a friend it hears of
    Blob,        \* keys of blobs: the hashes of their contents
    Rank,        \* Rank[k]: the order of hashes as byte strings
    Topic,       \* collections
    Key,         \* keys of records
    Place,       \* the pairs <<topic, key>> records are put at
    Putter,      \* goroutines of a node that may be inside PutData at once
    Writer,      \* nodes whose identity may write to the collections
    MaxPut,      \* bound: calls of PutData
    MaxRead,     \* bound: calls of GetData
    MaxFail,     \* bound: failed calls
    MaxDisk,     \* bound: files that cannot be read to their ends
    MaxRestart,  \* bound: crashes with restart
    MaxAll       \* bound: all of these together

ASSUME FriendsAssumption == Friends \subseteq {p \in Node \X Node : p[1] # p[2]}
ASSUME PlaceAssumption == Place \subseteq Topic \X Key
ASSUME RankAssumption == Rank \in [Blob -> Nat] /\ Writer \subseteq Node
ASSUME PutterAssumption == Putter \cap Node = {}
ASSUME BoundAssumption == {MaxPut, MaxRead, MaxFail, MaxDisk, MaxRestart, MaxAll} \subseteq Nat

VARIABLES
    rec,       \* rec[n]: the data records in n's table
    jobs,      \* calls of PutData and of onData in progress
    row,       \* row[n][k]: n's Blob row for k, or Absent
    file,      \* file[n][k]: what n's directory has of k: "none", "part" or "whole"
    adv,       \* adv[n][k][t]: n's last advert record says it has k
    advert,    \* advert[n][k]: Advert rows <<friend, topic>> of n for k
    dl,        \* dl[n]: where n's downloadLoop is
    want,      \* want[n]: {<<k, f>>} while n's loop downloads k from f
    using,     \* using[n]: <<f, k>>, n copies k to f; <<n, k>>, in GetData
    spent      \* puts, reads, failures of calls and disks, and restarts so far

vars == <<rec, jobs, row, file, adv, advert, dl, want, using, spent>>

Record == [place : Place, author : Node, pri : Nat, blob : Blob]
Job == [at : Node, by : Putter \cup Node, place : Place, author : Node, pri : Nat,
        blob : Blob, old : SUBSET Blob, pc : {"get", "down", "put", "up", "release"}]

(* A DataObj: its holds, state, Downloading, and Tracking: the counts and the  *)
(* topics the map has an entry for; needs is the column needs_download.        *)
Obj == [holds : Nat, state : {"not", "ready", "local"}, loading : BOOLEAN,
        count : [Topic -> Int], topics : SUBSET Topic, needs : BOOLEAN]
Object(h, s, l, count, T) == [holds |-> h, state |-> s, loading |-> l, count |-> count,
                          topics |-> T, needs |-> s = "ready" /\ ~l]

\* What getObj makes of a row that is not there.
Absent == Object(0, "not", FALSE, [t \in Topic |-> 0], {})

\* Fault: holds do not keep a blob.
PresentTracked(o) == o.topics # {}

Present(o) == o.topics # {} \/ o.holds # 0

\* anyAdverts
Advertised(n, k) == advert[n][k] # {}

\* Whether one more event of kind x is within the bounds.
Spare(x, max) ==
    /\ spent[x] < max
    /\ spent["put"] + spent["read"] + spent["fail"] + spent["disk"] + spent["restart"] < MaxAll

\* Friends are the edges of a tree with the writer at its root: every friendship is one
\* with the node above, up[n].
Tree(up) ==
    /\ up \in [Node -> Node]
    /\ \A p \in Friends : \/ p[1] \notin Writer /\ up[p[1]] = p[2]
                          \/ p[2] \notin Writer /\ up[p[2]] = p[1]

Woken(n) == [dl EXCEPT ![n] = IF @ = "sleep" THEN "run" ELSE @]

\* writeObj: an object that nothing tracks or holds is deleted, with its file when
\* it is local.  f is its file so far, up and down the topics in which the step put
\* an advert record.
Write(n, k, o, f, up, down) ==
    /\ row' = [row EXCEPT ![n][k] = IF Present(o) THEN o ELSE Absent]
    /\ file' = [file EXCEPT ![n][k] =
                  IF ~Present(o) /\ o.state = "local" THEN "none" ELSE f]
    /\ adv' = [adv EXCEPT ![n][k] =
                 [t \in Topic |-> t \in up \/ (@[t] /\ t \notin down)]]

\* Changes the number of holds, and nothing else.
Hold(n, k, d) ==
    LET o == row[n][k]
    IN  Write(n, k, Object(o.holds + d, o.state, o.loading, o.count, o.topics),
              file[n][k], {}, {})

-----------------------------------------------------------------------------
(* onMeta: the meta layer calls back for every value that comes or goes.      *)

\* Faults: no Broadcast; adverts that came before the record are not looked at.
MetaUpQuiet(n, k, t) ==
    LET o == row[n][k]
        tracking == [o.count EXCEPT ![t] = @ + 1]
        found == o.state = "not" /\ Advertised(n, k)
    IN  /\ Write(n, k, Object(o.holds, IF found THEN "ready" ELSE o.state, o.loading,
                              tracking, o.topics \cup {t}),
                 file[n][k], IF o.state = "local" /\ tracking[t] = 1 THEN {t} ELSE {}, {})
        /\ UNCHANGED dl
MetaUpBlind(n, k, t) ==
    LET o == row[n][k]
        tracking == [o.count EXCEPT ![t] = @ + 1]
    IN  /\ Write(n, k, Object(o.holds, o.state, o.loading, tracking, o.topics \cup {t}),
                 file[n][k], IF o.state = "local" /\ tracking[t] = 1 THEN {t} ELSE {}, {})
        /\ UNCHANGED dl

MetaUp(n, k, t) ==
    LET o == row[n][k]
        tracking == [o.count EXCEPT ![t] = @ + 1]
        found == o.state = "not" /\ Advertised(n, k)
    IN  /\ Write(n, k, Object(o.holds, IF found THEN "ready" ELSE o.state, o.loading,
                              tracking, o.topics \cup {t}),
                 file[n][k], IF o.state = "local" /\ tracking[t] = 1 THEN {t} ELSE {}, {})
        /\ dl' = IF found THEN Woken(n) ELSE dl

MetaDown(n, k, t) ==
    LET o == row[n][k]
        tracking == [o.count EXCEPT ![t] = @ - 1]
        gone == tracking[t] = 0
    IN  /\ Write(n, k, Object(o.holds, o.state, o.loading, tracking,
                              IF gone THEN o.topics \ {t} ELSE o.topics \cup {t}),
                 file[n][k], {}, IF gone /\ o.state = "local" THEN {t} ELSE {})
        /\ UNCHANGED dl

-----------------------------------------------------------------------------
(* PutData, and the meta layer's Put inside it; onData for a friend's record. *)

\* Fault: no hold.
PutDataUnheld(n, g, p, k) ==
    /\ Spare("put", MaxPut)
    /\ \A j \in jobs : ~(j.at = n /\ j.by = g)
    /\ LET o == row[n][k]
       IN  Write(n, k, Object(o.holds, "local", o.loading, o.count, o.topics),
                 IF o.state = "local" THEN file[n][k] ELSE "whole",
                 IF o.state = "local" THEN {} ELSE o.topics, {})
    /\ jobs' = jobs \cup {[at |-> n, by |-> g, place |-> p, author |-> n, pri |-> 0,
                           blob |-> k, old |-> {}, pc |-> "get"]}
    /\ spent' = [spent EXCEPT !["put"] = @ + 1]
    /\ UNCHANGED <<rec, advert, dl, want, using>>

\* The new file is in place and the object held ...
PutData(n, g, p, k) ==
    /\ Spare("put", MaxPut)
    /\ \A j \in jobs : ~(j.at = n /\ j.by = g)
    /\ LET o == row[n][k]
       IN  Write(n, k, Object(o.holds + 1, "local", o.loading, o.count, o.topics),
                 IF o.state = "local" THEN file[n][k] ELSE "whole",
                 IF o.state = "local" THEN {} ELSE o.topics, {})
    /\ jobs' = jobs \cup {[at |-> n, by |-> g, place |-> p, author |-> n, pri |-> 0,
                           blob |-> k, old |-> {}, pc |-> "get"]}
    /\ spent' = [spent EXCEPT !["put"] = @ + 1]
    /\ UNCHANGED <<rec, advert, dl, want, using>>

Step(j, i) == jobs' = (jobs \ {j}) \cup {i}

\* SyncMgr.Get: a record of the place with the largest priority.
Newest(n, p) == {r \in rec[n] : /\ r.place = p
                                /\ \A q \in rec[n] : q.place = p => q.pri <= r.pri}

\* ... Put looks for a permission and for the record it replaces ...
PutGet(j) ==
    /\ j.pc = "get"
    /\ \/ j.at \notin Writer /\ Step(j, [j EXCEPT !.pc = "release"])
       \/ j.at \in Writer /\ Newest(j.at, j.place) = {} /\ Step(j, [j EXCEPT !.pc = "put"])
       \/ /\ j.at \in Writer
          /\ \E r \in Newest(j.at, j.place) :
               Step(j, [j EXCEPT !.pc = "down", !.pri = r.pri + 1, !.old = {r.blob}])
    /\ UNCHANGED <<rec, row, file, adv, advert, dl, want, using, spent>>

\* verifyUpdate: a larger priority wins, and with the same one the larger value.
Outranks(r, q) == r.pri > q.pri \/ (r.pri = q.pri /\ Rank[r.blob] > Rank[q.blob])

\* Fault: no callback for the record that is replaced.
OnDataUpOnly(n, f, r) ==
    LET cur == {q \in rec[n] : q.place = r.place /\ q.author = r.author}
    IN  /\ <<n, f>> \in Friends /\ r \in rec[f]
        /\ \A q \in cur : Outranks(r, q)
        /\ \A j \in jobs : ~(j.at = n /\ j.by = f)
        /\ jobs' = jobs \cup
             {[at |-> n, by |-> f, place |-> r.place, author |-> r.author, pri |-> r.pri,
               blob |-> r.blob, old |-> {}, pc |-> "put"]}
        /\ UNCHANGED <<rec, row, file, adv, advert, dl, want, using, spent>>

\* A friend's record is accepted, given the record it replaces.
OnData(n, f, r) ==
    LET cur == {q \in rec[n] : q.place = r.place /\ q.author = r.author}
    IN  /\ <<n, f>> \in Friends /\ r \in rec[f]
        /\ \A q \in cur : Outranks(r, q)
        /\ \A j \in jobs : ~(j.at = n /\ j.by = f)
        /\ jobs' = jobs \cup
             {[at |-> n, by |-> f, place |-> r.place, author |-> r.author, pri |-> r.pri,
               blob |-> r.blob, old |-> {q.blob : q \in cur},
               pc |-> IF cur = {} THEN "put" ELSE "down"]}
        /\ UNCHANGED <<rec, row, file, adv, advert, dl, want, using, spent>>

\* Both then call back for the old value, put the record, and call back again.
CallDown(j) ==
    /\ j.pc = "down"
    /\ \E k \in j.old : MetaDown(j.at, k, j.place[1])
    /\ Step(j, [j EXCEPT !.pc = "put"])
    /\ UNCHANGED <<rec, advert, want, using, spent>>

PutRecord(j) ==
    /\ j.pc = "put"
    /\ rec' = [rec EXCEPT ![j.at] =
                 {q \in @ : ~(q.place = j.place /\ q.author = j.author)} \cup
                 {[place |-> j.place, author |-> j.author, pri |-> j.pri, blob |-> j.blob]}]
    /\ Step(j, [j EXCEPT !.pc = "up"])
    /\ UNCHANGED <<row, file, adv, advert, dl, want, using, spent>>

CallUp(j) ==
    /\ j.pc = "up"
    /\ MetaUp(j.at, j.blob, j.place[1])
    /\ IF j.by \in Putter THEN Step(j, [j EXCEPT !.pc = "release"]) ELSE jobs' = jobs \ {j}
    /\ UNCHANGED <<rec, advert, want, using, spent>>

\* PutData drops its hold.
Release(j) ==
    /\ j.pc = "release"
    /\ Hold(j.at, j.blob, -1)
    /\ jobs' = jobs \ {j}
    /\ UNCHANGED <<rec, advert, dl, want, using, spent>>

-----------------------------------------------------------------------------
(* Adverts and downloads.                                                     *)

\* Fault: an advert that ends is taken for the last one.
OnAdvertLast(n, f, k, t) ==
    LET o == row[n][k]
        rows == IF adv[f][k][t] THEN advert[n][k] \cup {<<f, t>>}
                                ELSE advert[n][k] \ {<<f, t>>}
        s == IF ~Present(o) \/ o.state = "local" THEN o.state
             ELSE IF adv[f][k][t] THEN "ready" ELSE "not"
    IN  /\ <<n, f>> \in Friends /\ (<<f, t>> \in advert[n][k]) # adv[f][k][t]
        /\ advert' = [advert EXCEPT ![n][k] = rows]
        /\ Write(n, k, Object(o.holds, s, o.loading, o.count, o.topics), file[n][k], {}, {})
        /\ dl' = IF s = "ready" THEN Woken(n) ELSE dl
        /\ UNCHANGED <<rec, jobs, want, using, spent>>

\* onAdvert: the sync layer hands n the advert record of f that n has not heard.
OnAdvert(n, f, k, t) ==
    LET o == row[n][k]
        was == <<f, t>> \in advert[n][k]
        rows == IF adv[f][k][t] THEN advert[n][k] \cup {<<f, t>>}
                                ELSE advert[n][k] \ {<<f, t>>}
        up == adv[f][k][t] /\ Present(o) /\ o.state = "not"
        down == ~adv[f][k][t] /\ Present(o) /\ o.state = "ready" /\ rows = {}
        s == IF up THEN "ready" ELSE IF down THEN "not" ELSE o.state
    IN  /\ <<n, f>> \in Friends /\ was # adv[f][k][t]
        /\ advert' = [advert EXCEPT ![n][k] = rows]
        /\ Write(n, k, Object(o.holds, s, o.loading, o.count, o.topics), file[n][k], {}, {})
        /\ dl' = IF up THEN Woken(n) ELSE dl
        /\ UNCHANGED <<rec, jobs, want, using, spent>>

\* downloadLoop with nothing to download waits.
LoopWait(n) ==
    /\ dl[n] = "run" /\ \A k \in Blob : ~row[n][k].needs
    /\ dl' = [dl EXCEPT ![n] = "sleep"]
    /\ UNCHANGED <<rec, jobs, row, file, adv, advert, want, using, spent>>

\* It takes a blob that needs a download and a friend who advertises it; without
\* such a friend the column is cleared.
LoopPick(n, k) ==
    LET o == row[n][k]
    IN  /\ dl[n] = "run" /\ o.needs
        /\ IF Advertised(n, k)
           THEN /\ \E a \in advert[n][k] : want' = [want EXCEPT ![n] = {<<k, a[1]>>}]
                /\ dl' = [dl EXCEPT ![n] = "asked"]
                /\ Write(n, k, Object(o.holds + 1, o.state, TRUE, o.count, o.topics),
                         file[n][k], {}, {})
           ELSE /\ row' = [row EXCEPT ![n][k] = [o EXCEPT !.needs = FALSE]]
                /\ UNCHANGED <<file, adv, dl, want>>
        /\ UNCHANGED <<rec, jobs, advert, using, spent>>

\* Fault: no hold.
DataGetUnheld(f, n, k) ==
    /\ dl[n] = "asked" /\ want[n] = {<<k, f>>}
    /\ \A u \in using[f] : u[1] # n
    /\ IF row[f][k].state = "local"
       THEN /\ using' = [using EXCEPT ![f] = @ \cup {<<n, k>>}]
            /\ dl' = [dl EXCEPT ![n] = "served"]
       ELSE /\ dl' = [dl EXCEPT ![n] = "failed"]
            /\ UNCHANGED using
    /\ UNCHANGED <<rec, jobs, row, file, adv, advert, want, spent>>

\* onDataGet at f holds a local blob while it copies it, and refuses another.
DataGet(f, n, k) ==
    /\ dl[n] = "asked" /\ want[n] = {<<k, f>>}
    /\ \A u \in using[f] : u[1] # n
    /\ IF row[f][k].state = "local"
       THEN /\ Hold(f, k, 1)
            /\ using' = [using EXCEPT ![f] = @ \cup {<<n, k>>}]
            /\ dl' = [dl EXCEPT ![n] = "served"]
       ELSE /\ dl' = [dl EXCEPT ![n] = "failed"]
            /\ UNCHANGED <<row, file, adv, using>>
    /\ UNCHANGED <<rec, jobs, advert, want, spent>>

\* n waits for the copy f makes, and did not give up.  What it gets looks like an
\* answer like any other even when f's file is not whole: nobody compares its hash.
Awaited(f, n, k) == n # f /\ dl[n] = "served" /\ want[n] = {<<k, f>>}
Answer(f, k) == IF file[f][k] = "whole" THEN "ok" ELSE "part"
Fetched(n) == IF dl[n] = "ok" THEN "whole" ELSE "part"

\* Fault: the hold stays when the copy fails.
CopiedKeeps(f, n, k) ==
    /\ <<n, k>> \in using[f]
    /\ IF n # f /\ dl[n] # "served" THEN UNCHANGED <<row, file, adv>> ELSE Hold(f, k, -1)
    /\ using' = [using EXCEPT ![f] = @ \ {<<n, k>>}]
    /\ dl' = [dl EXCEPT ![n] =
                IF Awaited(f, n, k) THEN Answer(f, k) ELSE @]
    /\ UNCHANGED <<rec, jobs, advert, want, spent>>

\* The copy is made and the hold dropped: the end of onDataGet, when n waits for
\* it, the end of one n has given up on, and that of GetData (n = f).
Copied(f, n, k) ==
    /\ <<n, k>> \in using[f]
    /\ Hold(f, k, -1)
    /\ using' = [using EXCEPT ![f] = @ \ {<<n, k>>}]
    /\ dl' = [dl EXCEPT ![n] =
                IF Awaited(f, n, k) THEN Answer(f, k) ELSE @]
    /\ UNCHANGED <<rec, jobs, advert, want, spent>>

\* The file cannot be read.  When a part of it is on its way already no error can be
\* sent any more, and the answer ends as if it were complete (ServeHTTP).
ReadFails(f, n, k) ==
    /\ Spare("disk", MaxDisk)
    /\ n # f /\ <<n, k>> \in using[f]
    /\ Hold(f, k, -1)
    /\ using' = [using EXCEPT ![f] = @ \ {<<n, k>>}]
    /\ \E end \in {"part", "failed"} :
         dl' = [dl EXCEPT ![n] = IF Awaited(f, n, k) THEN end ELSE @]
    /\ spent' = [spent EXCEPT !["disk"] = @ + 1]
    /\ UNCHANGED <<rec, jobs, advert, want>>

\* The call fails on its way, or while the blob is being copied.
CallFails(n) ==
    /\ Spare("fail", MaxFail)
    /\ dl[n] \in {"asked", "served"}
    /\ dl' = [dl EXCEPT ![n] = "failed"]
    /\ spent' = [spent EXCEPT !["fail"] = @ + 1]
    /\ UNCHANGED <<rec, jobs, row, file, adv, advert, want, using>>

\* Faults: the new blob is not advertised; it is not made local.
LoopFinishQuiet(n, k) ==
    LET o == row[n][k]
        new == dl[n] \in {"ok", "part"} /\ o.state # "local"
    IN  /\ dl[n] \in {"ok", "part", "failed"} /\ \E w \in want[n] : w[1] = k
        /\ Write(n, k, Object(o.holds - 1, IF new THEN "local" ELSE o.state, FALSE,
                              o.count, o.topics),
                 IF new THEN Fetched(n) ELSE file[n][k], {}, {})
        /\ dl' = [dl EXCEPT ![n] = "run"]
        /\ want' = [want EXCEPT ![n] = {}]
        /\ UNCHANGED <<rec, jobs, advert, using, spent>>
LoopFinishForgets(n, k) ==
    LET o == row[n][k]
    IN  /\ dl[n] \in {"ok", "part", "failed"} /\ \E w \in want[n] : w[1] = k
        /\ Write(n, k, Object(o.holds - 1, o.state, FALSE, o.count, o.topics), file[n][k], {}, {})
        /\ dl' = [dl EXCEPT ![n] = "run"]
        /\ want' = [want EXCEPT ![n] = {}]
        /\ UNCHANGED <<rec, jobs, advert, using, spent>>

\* Fault: what a failed call has brought is taken for the blob.
LoopFinishAny(n, k) ==
    LET o == row[n][k]
        new == o.state # "local"
    IN  /\ dl[n] \in {"ok", "part", "failed"} /\ \E w \in want[n] : w[1] = k
        /\ Write(n, k, Object(o.holds - 1, IF new THEN "local" ELSE o.state, FALSE,
                              o.count, o.topics),
                 IF new THEN Fetched(n) ELSE file[n][k], IF new THEN o.topics ELSE {}, {})
        /\ dl' = [dl EXCEPT ![n] = "run"]
        /\ want' = [want EXCEPT ![n] = {}]
        /\ UNCHANGED <<rec, jobs, advert, using, spent>>

\* Fault: Downloading is reset only when the download worked.
LoopFinishBusy(n, k) ==
    LET o == row[n][k]
        new == dl[n] \in {"ok", "part"} /\ o.state # "local"
    IN  /\ dl[n] \in {"ok", "part", "failed"} /\ \E w \in want[n] : w[1] = k
        /\ Write(n, k, Object(o.holds - 1, IF new THEN "local" ELSE o.state, dl[n] = "failed",
                              o.count, o.topics),
                 IF new THEN Fetched(n) ELSE file[n][k], IF new THEN o.topics ELSE {}, {})
        /\ dl' = [dl EXCEPT ![n] = "run"]
        /\ want' = [want EXCEPT ![n] = {}]
        /\ UNCHANGED <<rec, jobs, advert, using, spent>>

\* finishDownload, with newFile when the download worked.
LoopFinish(n, k) ==
    LET o == row[n][k]
        new == dl[n] \in {"ok", "part"} /\ o.state # "local"
    IN  /\ dl[n] \in {"ok", "part", "failed"} /\ \E w \in want[n] : w[1] = k
        /\ Write(n, k, Object(o.holds - 1, IF new THEN "local" ELSE o.state, FALSE,
                              o.count, o.topics),
                 IF new THEN Fetched(n) ELSE file[n][k], IF new THEN o.topics ELSE {}, {})
        /\ dl' = [dl EXCEPT ![n] = "run"]
        /\ want' = [want EXCEPT ![n] = {}]
        /\ UNCHANGED <<rec, jobs, advert, using, spent>>

\* GetData holds the blob of a record while it copies it to its caller.
GetData(n, k) ==
    /\ Spare("read", MaxRead)
    /\ \E r \in rec[n] : r.blob = k
    /\ row[n][k].state = "local" /\ <<n, k>> \notin using[n]
    /\ Hold(n, k, 1)
    /\ using' = [using EXCEPT ![n] = @ \cup {<<n, k>>}]
    /\ spent' = [spent EXCEPT !["read"] = @ + 1]
    /\ UNCHANGED <<rec, jobs, advert, dl, want>>

\* A crash loses the operations in progress; the tables and files stay.
Restart(n) ==
    /\ Spare("restart", MaxRestart)
    /\ jobs' = {j \in jobs : j.at # n}
    /\ dl' = [m \in Node |->
                IF m = n THEN "run"
                ELSE IF dl[m] = "served" /\ \E k \in Blob : want[m] = {<<k, n>>}
                THEN "failed" ELSE dl[m]]
    /\ want' = [want EXCEPT ![n] = {}]
    /\ using' = [using EXCEPT ![n] = {}]
    /\ spent' = [spent EXCEPT !["restart"] = @ + 1]
    /\ UNCHANGED <<rec, row, file, adv, advert>>

-----------------------------------------------------------------------------

Init ==
    /\ rec = [n \in Node |-> {}]
    /\ jobs = {}
    /\ row = [n \in Node |-> [k \in Blob |-> Absent]]
    /\ file = [n \in Node |-> [k \in Blob |-> "none"]]
    /\ adv = [n \in Node |-> [k \in Blob |-> [t \in Topic |-> FALSE]]]
    /\ advert = [n \in Node |-> [k \in Blob |-> {}]]
    /\ dl = [n \in Node |-> "run"]
    /\ want = [n \in Node |-> {}]
    /\ using = [n \in Node |-> {}]
    /\ spent = [x \in {"put", "read", "fail", "disk", "restart"} |-> 0]

Work(j) == PutGet(j) \/ CallDown(j) \/ PutRecord(j) \/ CallUp(j) \/ Release(j)
Loop(n) == LoopWait(n) \/ \E k \in Blob : LoopPick(n, k) \/ LoopFinish(n, k)
Receive(n, f) == \/ \E r \in rec[f] : OnData(n, f, r)
                 \/ \E k \in Blob, t \in Topic : OnAdvert(n, f, k, t)

Next ==
    \/ \E n \in Node, g \in Putter, p \in Place, k \in Blob : PutData(n, g, p, k)
    \/ \E j \in jobs : Work(j)
    \/ \E n, f \in Node : Receive(n, f)
    \/ \E n \in Node : Loop(n) \/ CallFails(n) \/ Restart(n)
    \/ \E n, f \in Node, k \in Blob : DataGet(f, n, k) \/ Copied(f, n, k) \/ ReadFails(f, n, k)
    \/ \E n \in Node, k \in Blob : GetData(n, k)

Spec == Init /\ [][Next]_vars

\* Goroutines are scheduled and the sync layer delivers records and adverts; a
\* call is answered unless it fails.
Fairness ==
    /\ \A n \in Node : WF_vars(Loop(n))
    /\ \A n, f \in Node : WF_vars(Receive(n, f))
    /\ \A n \in Node, b \in Putter \cup Node :
         WF_vars(\E j \in jobs : j.at = n /\ j.by = b /\ Work(j))
    /\ \A n, f \in Node : /\ WF_vars(\E k \in Blob : DataGet(f, n, k))
                          /\ WF_vars(\E k \in Blob : Copied(f, n, k))

FairSpec == Spec /\ Fairness
-----------------------------------------------------------------------------
(* What must hold.                                                         *)

\* Every variable has its type; Holds is never negative.
TypeOK ==
    /\ rec \in [Node -> SUBSET Record]
    /\ jobs \subseteq Job
    /\ row \in [Node -> [Blob -> Obj]]
    /\ file \in [Node -> [Blob -> {"none", "part", "whole"}]]
    /\ adv \in [Node -> [Blob -> [Topic -> BOOLEAN]]]
    /\ advert \in [Node -> [Blob -> SUBSET (Node \X Topic)]]
    /\ dl \in [Node -> {"run", "sleep", "asked", "served", "ok", "part", "failed"}]
    /\ want \in [Node -> SUBSET (Blob \X Node)]
    /\ using \in [Node -> SUBSET (Node \X Blob)]
    /\ spent \in [{"put", "read", "fail", "disk", "restart"} -> Nat]

Downloading(n, k) == \E w \in want[n] : w[1] = k
Holders(n, k) == {u \in using[n] : u[2] = k}
Putting(n, k) == {j \in jobs : j.at = n /\ j.by \in Putter /\ j.blob = k}

\* A blob is held once for every upload, download, PutData and GetData in
\* progress, although each takes and drops its hold in different critical
\* sections and reads the object again in between.
HoldsCounted ==
    \A n \in Node, k \in Blob :
      row[n][k].holds = Cardinality(Holders(n, k)) + Cardinality(Putting(n, k))
                          + IF Downloading(n, k) THEN 1 ELSE 0

\* No callback of the meta layer is under way at n.
Quiet(n) == \A j \in jobs : j.at = n => j.pc \notin {"down", "put", "up"}
Uses(n, k, t) == {r \in rec[n] : r.blob = k /\ r.place[1] = t}

\* Tracking says how many records of a topic have the blob as their value,
\* though values are counted by callbacks before and after the record is put.
TrackingCounts ==
    \A n \in Node, k \in Blob, t \in Topic :
      Quiet(n) => row[n][k].count[t] = Cardinality(Uses(n, k, t))

\* What a node advertises in a topic is what it has and tracks there: it can
\* serve what it offers, and offers what it can serve.
AdvertsTrue ==
    \A n \in Node, k \in Blob, t \in Topic :
      adv[n][k][t] <=> row[n][k].state = "local" /\ t \in row[n][k].topics

\* A blob waits for a download exactly while a friend advertises it, in whichever
\* order the adverts and the callbacks come (onAdvert, metaUp).
ReadyIfAdvertised ==
    \A n \in Node, k \in Blob :
      Present(row[n][k]) /\ row[n][k].state # "local" =>
        (row[n][k].state = "ready" <=> Advertised(n, k))

\* What is being copied without the lock is on disk until the copy is made, and
\* the directory holds what the table calls local, nothing else.
HeldIsOnDisk ==
    \A n \in Node :
      /\ \A u \in using[n] : file[n][u[2]] # "none"
      /\ \A k \in Blob : file[n][k] # "none" <=> row[n][k].state = "local"

\* A file is its whole blob, however often calls fail in the middle of an answer and
\* files are put while they are downloaded, unless a disk has failed somewhere.
FilesWhole ==
    spent["disk"] = 0 => \A n \in Node, k \in Blob : file[n][k] # "part"

\* The download loop waits only when it has nothing to download (the Broadcasts
\* of onAdvert and metaUp).
NoLostDownload ==
    \A n \in Node, k \in Blob : dl[n] = "sleep" => ~row[n][k].needs

\* Downloading is set exactly while the loop of this process downloads the blob,
\* though it is read and written in two critical sections (finishDownload).
DownloadingIsTrue ==
    \A n \in Node, k \in Blob : row[n][k].loading <=> Downloading(n, k)

\* A blob is deleted only when nothing reads or puts it and no record has it as
\* its value, except one between the callbacks around its being put.
DeletedWhenUnused ==
    [][\A n \in Node, k \in Blob :
         file[n][k] # "none" /\ file'[n][k] = "none" =>
           /\ Holders(n, k)' = {} /\ Putting(n, k)' = {}
           /\ \A r \in rec'[n] : r.blob = k =>
                \E j \in jobs' : j.at = n /\ j.pc \in {"put", "up"} /\ j.place = r.place]_vars

\* In the end, unless a node crashes, every node has the blobs of its records and no
\* other (what a crash may cost is DownloadingIsTrue).
EventuallyLocal ==
    [](spent["restart"] = 0) =>
      \A n \in Node, k \in Blob :
        <>[](file[n][k] # "none" <=> \E r \in rec[n] : r.blob = k)

\* Downloads come to an end: every loop waits for good once nothing is put, even
\* though a download that fails is tried again at once.
LoopsRest ==
    \A n \in Node : <>[](dl[n] = "sleep")
=============================================================================
