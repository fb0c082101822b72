# h0tb0x: specifications, model checks and proofs

h0tb0x is a friend-to-friend store. Nodes know each other by the fingerprint of
a public key; each keeps an SQLite database; what one node puts into a
*collection* travels to the friends who subscribed to it. The specifications in
this directory are written from the Go sources (`src/src/h0tb0x/...`), read
together with their tests; source paths below are relative to
`src/src/h0tb0x/`.

Contents: 1 the system, 2 the modules, 3 the modules and the code, 4 the runs,
5 bounds, 6 fairness, 7 proofs, 8 what the code does not do although it says so,
9 what is left out, 10 the plan.

## 1. The system

The layers, bottom up. Each embeds the one below it, so a call that is not
overridden goes straight through.

| part | state | operations | talks to |
| --- | --- | --- | --- |
| `db` | an SQLite file, `user_version` | install, migrate, single statements | everybody; one statement is the unit of atomicity, only `migrate` uses a transaction |
| `crypto`, `transfer`, `conn`, `base` | none | hash, sign, encode, dial, lock | libraries of the others |
| `link` | table `Friend`; maps `friendsByFp/ById/ByHost`; one `RWMutex` | `Start`, `AddUpdateFriend`, `UpdateHostData`, `RemoveFriend`, `Send`, `ServeHTTP` | calls `onListener` of the layer above with the mutex held for writing, handlers with it held for reading; asks `rendezvous` for addresses |
| `sync` | tables `Object` and `TopicFriend`; one `clientLooper` goroutine per friend; lock `cmut` | `Put`, `Get`, `GetAuthor`, `Subscribe`, `onFriendChange`, `notifyLoop`, `onNotify`, `onSubscribe`, `Stop` | notifies friends over `link`; hands records to the *sink* of their type |
| `meta` | none of its own: records of types basis, writer and data in `Object` | `CreateNewCollection`, `AddWriter`, `RemoveWriter`, `Put`, sinks `onBasis`, `onWriter`, `onData` | writes through `sync.Put`; calls back `data` for every value that comes or goes |
| `data` | tables `Blob` and `Advert`; files; a download goroutine | `PutData`, `GetData`, `onMeta`, `onAdvert`, `onDataGet`, `downloadLoop` | adverts are records put through `sync`; blobs are fetched over `link` |
| `rendezvous` | table `Rendezvous` | `onPut`, `onGet`; client `Put`, `Get` | `link` asks it where a friend is |
| `nat` | the outside address | UPnP and NAT-PMP requests, polling | an external router |
| `api`, `main`, web application | invites kept as collections | HTTP translation | every layer, as its user |

What is hard about each, and what makes it correct:

* **sync**. Concurrency: users of `Put` and `Subscribe`, a looper per friend and
  a handler per incoming call interleave at every lock release; `onNotify` looks
  up `heard_seqno`, calls the sink and updates `heard_seqno` in three steps.
  Failure: a call may fail before, during or after its handler; a node may crash
  anywhere. Correct when: sequence numbers are unique and grow; the cursors
  `acked_seqno` and `heard_seqno` never step over a record a friend wants; a
  waiting looper has nothing to send; the two sides of a subscription agree in
  the end; every record arrives; nodes then fall silent.
* **link**. The maps are caches of one table under one mutex that is held across
  callbacks into `sync`, while `Send` reads them without it. Correct when: the
  maps agree with the table, a removed friend is unknown from then on, and
  nobody waits for somebody who waits for the mutex.
* **meta**. Records are ordered by (priority, value), writers by the owner.
  Correct when: nodes that have seen the same records hold the same value for
  every key, only values of writers are accepted, and callbacks come in pairs:
  every value that is announced up is announced down when it is replaced.
* **data**. A blob is kept while something tracks it or holds it; the lock is
  released during I/O. Correct when: a blob with a hold or a reference is not
  deleted, a blob nobody refers to is, a blob is advertised while it is local
  and tracked, and a wanted, advertised blob is downloaded in the end.
* **rendezvous**. Correct when the version stored for a key never decreases.
* **db**. Installing is a sequence of statements, migrating a transaction. Correct when
  every start ends with the latest schema, wherever the previous one crashed and
  whichever release it was of.
* **transfer**. Readers cannot tell where a value ends but by reading it. Correct when
  they read what was written, for every number a word holds and every kind of value, and
  notice when it is not all there.

`PROJECT.json` lists the hazards one by one, each with its source line and the
property that is aimed at it.

## 2. The modules

| module | what it is |
| --- | --- |
| `Sync` | the sync layer over the calls of the link layer: state, one action per operation, handler or loop pass, properties |
| `Feed` | the abstract specification of what `sync` promises a friend: a log per publisher, and delivery that steps over nothing current |
| `MCSync` | the instances of `Sync` that TLC checks (two nodes, who puts to what) |
| `SyncProofs` | theorems about `Sync` for every value of its constants: types, tables, cursors, wakeups; nothing is skipped, it implements `Feed`, and undisturbed it delivers once and in order |
| `FeedProofs` | what every `Feed` guarantees |
| `Data` | the data layer of several friends with the part of the meta layer it leans on: data records, their callbacks, blobs, holds, adverts, the download loop |
| `DataProofs` | theorems about `Data`: holds, files, downloads, adverts, deletion, and counts while callbacks for a record do not overlap |
| `MCData` | the instances of `Data` that TLC checks (who is whose friend, where records are put) |
| `Meta` | one collection: its basis, its writers, its data records, from node to node |
| `Register` | the abstract specification of what `meta` promises: versions, and nodes that only move to higher ones |
| `MetaProofs` | theorems about `Meta`: types, writers, and when it implements `Register` |
| `MCMeta` | the instances of `Meta` that TLC checks (who is whose friend) |
| `Link` | how a node finds friends that move: the friend table and its maps, the rendezvous server, calls |
| `LinkProofs` | theorems about `Link`: the maps are the table, failures are seen |
| `MCLink` | the instances of `Link` that TLC checks (which addresses friends get) |
| `Locks` | who waits for whom: the link's mutex, `cmut`, the goroutines that `RemoveFriend` and `Stop` wait for, calls that wait for a friend's handler |
| `LocksProofs` | theorems about `Locks`: removed friends are gone, circles last |
| `Migrate` | how a program opens its database: installing, migrating, crashes, other releases |
| `MigrateProofs` | theorems about `Migrate` for all schemas that are as its assumptions say |
| `Schemas` | the statements of the three schemas `Migrate` is checked with; the instance that TLC checks |
| `Varint` | how integers and strings are written and read, with the wrap-around of words |
| `Codec` | how a value of every kind is written and read, with recursion over its type |
| `Wire` | `Encode` and `Decode` of several objects over a stream that may end early, however each is coded |
| `WireProofs` | theorems about `Varint`, for every width of words and groups, and about `Wire` |
| `MCWire` | the instance of `Wire` that TLC checks: the values, coded as `Codec` says |

`Meta!ImplementsRegister` is `Register` with the rows of a node, without their
numbers, for its versions. `Sync!Promise` is `Feed` under a refinement mapping: `Feed!log` and `quit`
are the history variables of that name, and `got[n][f]` is what `handed[f]` holds from `n`. `Locks` composes the
locks of `link` and `sync` that `Sync` and `Link` each take for granted.

## 3. The modules and the code

### `Sync`

| in `Sync` | in the code |
| --- | --- |
| `obj[n]` | rows of `Object` of types subscribe and data, one per primary key (`Name`); the author is the same throughout, so it is not part of the key |
| `desired`, `requested`, `acked`, `heard` at `[n][f][t]` | the columns of `TopicFriend`; the row of a topic that was never mentioned is one of zeros |
| `looper[n][f]` | the goroutine of `clientLooper`: `run` (about to query), `sleep` (in `Wait`), `sent` (in `safeSend`), `none` |
| `batch[n][f]` | the records of the call in progress, from which the map `orm` is computed |
| `hnd[f][n][s]` | the `onNotify` of `f` that serves a call of `n`: position and the records still to do. Slot `live` is the one the caller waits for, `orphan` one whose caller has given up |
| `calls` | goroutines inside `Subscribe`: after the lookup of the client, and after the write of the row |
| `removing` | a `RemoveFriend` that holds `cmut` and the link's mutex and waits for the looper |
| `log`, `handed` | history: what was put, and what was given to sinks; no guard reads them |
| `quit` | history: which topics of whom a node has given up, by unsubscribing or by removing the friend; only properties read it |

| action | code |
| --- | --- |
| `Put` | `Put`: `MAX(seqno)+1`, `REPLACE`, `Broadcast` to every looper, in one critical section of `cmut` (`Store`) |
| `SubLookup`, `SubRow`, `SubPut` | `Subscribe`: find the client under `cmut`; write `desired` and read `heard_seqno` under the client's lock; `Put` the record with no lock in between |
| `Scan` | one pass of `notifyLoop`: the query with its `LIMIT`, then `Wait` or the call |
| `Reply`, `Refuse`, `Fail` | the rest of the pass: acknowledge the last number sent of every topic; 403 for a caller that is not a friend; an error. The loop then queries again. The sleep after an error is a delay without a guard, so it does not appear |
| `Receive`, `Check`, `Sink`, `Mark` | `onNotify`: decode, then for each record the look at `desired` and `heard_seqno`, the sink, the update of `heard_seqno`, each a step of its own. The sink of a subscription is `OnSubscribe` |
| `AddFriend`, `RemoveBegin`, `RemoveEnd` | `onFriendChange` under `AddUpdateFriend` and `RemoveFriend`: the rows of the four derived topics, stopping the looper, deleting the rows |
| `Restart` | a crash at any point followed by `Start`: tables stay, loopers start over, calls in both directions end |

Sequence numbers order the records of a handler (`First`), so a batch is a set.
The payload of a record is left out, except that of a subscription: `value`
(wants or does not want) and `priority` (the number heard so far, from which the
friend continues). `Box(n, f)` and `Profile(n)` stand for the hashes from which
the code derives the topic of the outbox to a friend and of the profile; they
differ from each other and from topics of users, which is what the hash is for.

### `Data`

| in `Data` | in the code |
| --- | --- |
| `rec[n]` | the data records of the `Object` table; a record is its place (topic and key), author, priority and value, the value being the key of a blob |
| `jobs` | calls of `PutData` (one per goroutine of `Putter`) and of `onData` (one per friend) in progress, with the record they read before and where they are |
| `row[n][k]` | a row of `Blob`: the serialised `DataObj` (`holds`, `state`, `loading` for `Downloading`, and `Tracking` as `count` and the set `topics` of keys of the map) and the column `needs_download`. A row that is not there is what `getObj` makes of it, `Absent` |
| `file[n][k]` | the files of the data directory: not there, a part of the blob, the whole. Temporary files are left out |
| `adv`, `advert` | what a node last advertised (its own records of type advert), and the table `Advert` of what friends advertised to it |
| `dl[n]`, `want[n]` | `downloadLoop`: querying, in `Wait`, in `Send` before and after the friend has begun to answer, done with and without an error, or with an answer that ended early and does not say so (`part`); what it downloads and from whom |
| `using[n]` | copies in progress, to a friend (`onDataGet`) or to a caller of `GetData` |

| action | code |
| --- | --- |
| `PutData`, `Release` | the two critical sections of `PutData`; `newFile` and the hold are the first, dropping the hold the second |
| `PutGet`, `CallDown`, `PutRecord`, `CallUp` | `MetaMgr.Put` between them: the permission and the record to replace, the callback for the old value, `SyncMgr.Put`, the callback for the new one. `onMeta` takes the lock of `DataMgr` for each callback |
| `OnData` | `verifyUpdate` for a record of a friend up to its decision, with the same last three steps |
| `OnAdvert` | `onAdvert` with the advert the node has not heard |
| `LoopWait`, `LoopPick`, `LoopFinish`, `CallFails` | `downloadLoop`, cut where it releases the lock |
| `DataGet`, `Copied`, `GetData` | `onDataGet` and `GetData`: the hold, and what follows the copy |
| `ReadFails` | `onDataGet` when the file cannot be read to its end: before anything is sent it answers with an error, later `ServeHTTP` drops the error |
| `Restart` | a crash between critical sections: rows and files stay, calls and copies end |

`Write` is `writeObj`: the row is rewritten or, when nothing tracks or holds the
object, deleted with its file. Every action that changes an object goes through it.

Records and adverts reach a friend by the sync layer, which `Sync` is about. `Data`
takes from it what it promises: the latest record of every key in the end, once.
A record replaced before it was delivered is not seen, and an advert is seen as it
is when it is delivered. `Friends` says who hears whom; all nodes are subscribed to all
topics.

### `Meta`

| in `Meta` | in the code |
| --- | --- |
| `obj[n]` | rows of `Object` with the topic of the collection; the name of a row is its type, author and key |
| `val` | a value, or for a basis and a writer `key`, the public key it holds, or `empty`, which is what `RemoveWriter` leaves |
| `heard[n][f]` | `heard_seqno` of the collection's topic |
| `handling[n][f]` | the record a sink has accepted (`verifyUpdate` has compared it) and not put yet |
| `putting[n]` | what a call of `Put` or `CreateSpecialCollection` is going to put, from what it has read |
| `made` | history: every version put by a call |

| action | code |
| --- | --- |
| `Create`, `PutStore` | `CreateSpecialCollection`: the basis, and then the owner's writer record |
| `AddWriter`, `RemoveWriter` | the same, up to their early returns and the priority they take |
| `Put`, `PutStore` | `Put`: the look at the basis, the permission and the largest priority of any author (`Newest`); `SyncMgr.Put` |
| `Receive` | `onNotify` with the next row of the friend's table, handed to `onBasis`, `onWriter` or `onData`, up to the comparison (`Accepts`, `Newer`). What is dropped is marked heard and not seen again |
| `Finish` | the rest of `verifyUpdate`, and the mark |
| `Restart` | a crash: accepted records and calls in progress are lost, tables stay |

A signature is whether the record was made by its author, which holds of every row.

### `Link`

| in `Link` | in the code |
| --- | --- |
| `table[f]` | the `Friend` row of `f`: host and port, `$` when unknown |
| `byFp[f]` | `friendsByFp` and `friendsById`: the `friendInfo` of `f`, its address and `failed` |
| `byHost[x]` | `friendsByHost`: whose `friendInfo` is found for address `x`, and whether it is the one `byFp` has (`same`) or one that has been replaced since |
| `call[f][c]` | a goroutine in `Send` and `RoundTrip`: asking the server, with its answer, before `dial` has looked the address up, dialling with the `friendInfo` it found, and answered |
| `rv[f]`, `pub[f]` | the server's row of `f`, and the requests of `f` to publish: how far `onPut` is with each, and whether `f` has given it up |
| `astray` | history: friends whose `friendInfo` was read again and not indexed by address; only properties read it |
| `at[f]`, `now` | where `f` listens, and the second it is |

| action | code |
| --- | --- |
| `Find`, `Ask`, `AskFails`, `Update`, `UpdatePanics` | `RoundTrip`, with `Client.Get` and `onGet`; `UpdateHostData` scans a row that is not there when the friend has been removed meanwhile, and panics |
| `Dial`, `Reached`, `NotReached`, `DialFails` | `dial`: the lookup by address, and the connection with the check of who answers; `Failed` marks the `friendInfo` that was found |
| `AddFriend`, `UpdateFriend` | `AddUpdateFriend` of a new friend, and of one that exists: the row it then reads is the one inserted last (`LastInsertId` after `INSERT OR IGNORE`), any friend's |
| `GiveAddress` | `UpdateHostData` called by `doPutFriend` of the API, with an address the user was told |
| `RemoveFriend`, `Restart` | `RemoveFriend`, `Start` |
| `Publish`, `PutLost`, `OnPutCheck`, `OnPutWrite` | the loop of `main` with `SetExt`, which may lose a request or the answer to one the server goes on with; `onPut` in its two statements, the second an `INSERT` or an `UPDATE` as the first has found a row |
| `Move`, `Tick` | a router gives a friend another address; time |

### `Locks`

| in `Locks` | in the code |
| --- | --- |
| `looper[n][f]` | `notifyLoop`: about to query, in `Wait`, and in `safeSend`: about to take the mutex in `RoundTrip` (`find`), in `UpdateHostData` before `Lock` (`update`) and inside it (`drain`), about to take it in `dial`, waiting for the answer (`call`), after an error |
| `closing`, `todo` | the channel `shutdown` is closed; the query would find something |
| `hnd[f][n]` | `ServeHTTP` at `f`: with the mutex and before `wait.Add` (`locked`), in the handler (`busy`), done |
| `op[n]` | `AddUpdateFriend` and `RemoveFriend`: before `Lock`, in it while readers are left, and in `clientLooper.stop` with the mutex and `cmut` (`join`) |
| `stop[n]` | `SyncMgr.Stop` with `cmut`, `LinkMgr.Stop` before the handlers have ended, and after `Db.Close` |
| `Barred`, `Readers`, `CmutFree` | the mutex and `cmut`. A `Lock` in progress keeps new readers out, as Go's `RWMutex` does |

Actions are cut where a goroutine may have to wait; what is between two such points, and
what is sent, is left out. A looper takes one of the ways `RoundTrip` may take (`Find`).
The locks of clients and of `DataMgr` are not there: whoever holds one waits at most for
`cmut`.

### `Migrate`, `Schemas`

`Start` is the choice `apply` makes by `PRAGMA schema_version`, `Install` one statement of
the latest schema, `Current`, `Party` (the version 0 of old files), `Begin`, `Migrate`,
`Commit` and `CommitFails` are `migrate`. What SQLite does is external: a statement
creates or drops a set of *things* (tables, indexes, columns), and fails when they are
there or missing (`Refused`); outside of a transaction each statement is on disk at once,
inside it at `Commit`. A migration is loaded when it is its turn (`Upcoming`). `Schemas` has the statements of `db/h0tb0x.go`,
`db/rendezvous.go` and of the tests, without columns except where a migration adds one.

### `Varint`, `Codec`, `Wire`

`WriteUint`, `ReadUint`, `SignLast` and `SignFirst` are `writeUint`, `readUint`, `writeInt` and
`readInt` over words of `2 * Half` values in groups of `Base` (2^64 and 128 in the code),
with Go's conversions between signed and unsigned words; `Place[i]` is the `offset` of
`readUint` as a factor. `Number` and `Take` read a number and a string off a stream. `Write`
and `Read` of `Codec` are `writeAny` and `readAny` with the functions for each kind; `Panic`
stands for a panic of `writeAny`, which `Encode` turns into an error after it has written a
part.

`Wire` is `Encode` and `Decode` themselves: the objects one after the other (`Sent`), a stream
that delivers bytes in pieces (`Deliver`) and may break (`Cut`), and a reader that takes an
object off it when its bytes are there. How one object is written and read are parameters
(`Bytes`, `Panics`, `Reader`, `Value`), which `MCWire` gives the operators of `Codec`.
`CodeAssumption` says what `Wire` needs of them: an object is read from its bytes, whatever
part of the rest of the message has arrived behind them, and from no part of them; and
nothing is read from what was written of an object that panics. TLC evaluates it for every
call of `MCWire`. It leaves out a pointer to a struct without fields, of which a nil pointer
and any other look alike; no message of the program has one.

## 4. The runs

Passing runs:

* **core**: subscriptions and records in batches of two, and one fault at any point: a
  call that fails before, during or after its handler, which may go on running beside the
  retry; a crash of either node; or the removal of a friend, who may be added again.
  Types; sequence numbers are unique and the table is the last `Put` of every key
  (`TableIsLatest`); cursors stay behind the tables (`CursorsBehind`); no wakeup is lost
  (`NoLostWakeup`); nothing acked was missed by a friend who has wanted it all along
  (`NothingSkipped`); the sinks see the abstract feed (`ImplementsFeed`).
* **live**: one lost call or answer, fair scheduling. Every record is handed over
  once and, topic by topic, in order (`ExactlyOnceInOrder`); subscriptions become
  known (`SubscriptionsAgree`); every record arrives (`EventuallyDelivered`);
  then nobody sends any more (`FallsSilent`).

* **blobs**: three friends in a line, so that the third has what the first writes from the
  second, records and blobs; records in two topics may have the same value; a value is put
  twice or replaced, or advertised in both topics and given up in one; or there is one put
  and a read, a lost call or a file that cannot be read. `Holds` is the number of
  operations in progress (`HoldsCounted`), `Tracking` the number of records
  (`TrackingCounts`), adverts say what is local and tracked (`AdvertsTrue`), a blob waits
  for a download while somebody advertises it (`ReadyIfAdvertised`), what is being copied
  is on disk (`HeldIsOnDisk`) and whole (`FilesWhole`), the download loop sleeps only when
  nothing waits (`NoLostDownload`), a blob is marked as being downloaded only while it is
  (`DownloadingIsTrue`), and a blob is deleted only when nothing uses it
  (`DeletedWhenUnused`).
* **fetch**: fair scheduling, one failed call, one file that cannot be read to its end, and
  perhaps a crash of either node.
  Unless a node crashes, both end with exactly the blobs of their records
  (`EventuallyLocal`); in any case the download loops come to wait (`LoopsRest`).
  After a crash a blob may be missing (section 8).
* **collection**: three friends in a line, so that what the owner puts reaches the
  third through the second; writers are added and removed, two records of one key are
  put anywhere, one node crashes at any point. Whoever has a data record has the
  basis and the writer's record (`WritersKnown`), although a writer's record moves
  behind the data when it is put again. Every table is a register of versions
  (`ImplementsRegister`). Without a removal all end with the same records
  (`EventuallySame`); a crash may leave a collection whose owner cannot write.
* **address**: two goroutines call one friend that moves twice; one request to the
  server, its answer or one connection fails, the friend is removed and added again, it is
  updated by the user, the node restarts. The maps agree with the table (`MapIsTable`);
  `dial` marks the very `friendInfo` that `RoundTrip` reads (`FailureIsSeen`), without which
  a friend that has moved would be dialled at its old address for ever; the friend is
  reached again and again (`EventuallyReached`), although a version is a time in seconds, so
  that the server may refuse an address, a request given up long ago may overwrite a newer
  one, answers may be old when they are used, users may give a wrong address, and failures
  are marked late. Updating a friend that exists may lead a `friendInfo` astray (section 8):
  the last two properties except it.
* **locks**: two friends with a record put on either side, two removals or additions, two
  stops and one failure. Once `RemoveFriend` is done nothing is left that calls or serves
  the friend (`RemovedIsGone`). Goroutines do wait in circles (section 8), and
  `Circle` names all of them: in the end there is a circle or every request has come to an
  end (`OnlyCirclesLast`), a call comes to an end unless there is one (`CallsEnd`), and a
  circle is for good unless the network fails (`CircleStays`).
* **migrate**: every file of the three schemas, new or from before there were versions, is
  opened four times by the releases in any order, with two crashes and one failed commit.
  Unless an install was cut short `user_version` says what is in the file
  (`VersionTellsTables`) and every start that does not crash succeeds (`StartOpens`); even
  after such an install no program runs with tables that are not those of the version
  (`OpenIsCurrent`).
* **wire**: every number of five bits, signed and unsigned, and values of every kind, alone
  and in pairs, through a stream that delivers bytes in any pieces and breaks anywhere.
  Each is read back from its bytes and from no part of them (`CodeAssumption`).
  What is read is what was written (`ReadsWhatWasWritten`); an early end is noticed, and
  reading ends where the values end, so that a body may follow (`EndIsNoticed`). There is
  no state in which the reader hangs: this run checks for deadlock.

Runs that end in a counterexample are the subject of section 8.

For every property of a passing run `PROJECT.json` names a mutant: an operator of
the module marked `Fault` that changes one definition the way a plausible mistake
would (`COUNT(*)` for `MAX(seqno)`, an error ignored, a `Broadcast` forgotten, a
cursor set for a whole batch), under which TLC finds that property violated.

## 5. Bounds

| constant | value | why it is enough |
| --- | --- | --- |
| `Node` | 2 | every interaction of the layer is between the two ends of a friendship; the theorems hold for any set |
| `Topic`, `Key` | 1 user topic and 4 (two boxes, two profiles) derived ones; 2 keys in `core`, 1 or 2 elsewhere | a key can be replaced while another is not; cursors of different topics move separately, since subscriptions travel in a topic of their own |
| `Limit` | 1 or 2 | stands for the 100 of the query: a batch can be cut, with more to send than fits |
| `MaxSeq[n]` | up to 3 | room for a subscription and two or three records, so that a record is replaced and a batch does not hold all |
| `MaxFail`, `MaxRestart`, `MaxUnfriend`, `MaxFault` | at most one of each, and `MaxFault` of all together: one | one fault at every point of every schedule |
| `Caller` | 1 | what goes wrong with overlapping calls of `Subscribe` is said in section 8 |
| `Data`: `Node`, `Friends` | 3 in a line in `blobs`, 2 in `fetch` | the node in the middle downloads a blob and uploads it while records come and go; `MCData` assumes that the friends form a tree with the writer at its root, which TLC evaluates, and `TreeCorrect` covers every tree. What goes wrong with a ring is said in section 8 |
| `Data`: `Place`, `Blob` | up to 3 places in 2 topics, 2 blobs | two records can share a blob within a topic and across topics, and a record can be replaced by a larger or smaller hash |
| `Data`: `MaxPut`, `MaxRead`, `MaxFail`, `MaxDisk`, `MaxRestart`, `MaxAll` | 2, 1 each; 2 in all in `blobs`, 4 in `fetch` (no reads) | a value is put and replaced, or put beside an equal one; one fault at every point. With three nodes more is out of reach in `blobs`, whose properties are theorems for every bound; `fetch`, whose properties are not, has two values and two faults |
| `Data`: `Putter`, `Writer` | 1 each | what goes wrong with more is said in section 8 |
| `Meta`: `Node`, `Friends` | 3 in a line; 2 in `removed` | records are passed on by a node that did not make them. In a line a node hears of a name from one side at a time, so that handlers do not race for it (section 8); `MCMeta` assumes that the friends form a tree, which TLC evaluates, and `TreeRegister` covers every tree |
| `Meta`: `Key`, `Value`, `MaxPut`, `MaxAdmin`, `MaxRestart` | 1, 1, 2, 2, 1 | two writers write one key at the same or different priorities; a writer is added, removed, and added again with the records of both on their way |
| `Link`: `Friend`, `Addr`, `Caller` | 1, 2, 2 | two calls disturb each other over one friend; what two friends at one address do is said in section 8 |
| `Link`: `MaxMove`, `MaxFail`, `MaxRemove`, `MaxUpdate`, `MaxRestart`, `MaxAll` | 2, 1, 1, 1, 1; 3 in all | a friend moves away and back with one fault at every point, or moves once with two |
| `Locks`: `Node`, `MaxPut`, `MaxChange`, `MaxStop`, `MaxFail` | 2, 1, 2, 2, 1 (`deadlock`: 0, 1, 0, 0) | circles have one node or two; a longer one needs nothing new |
| `Migrate`: `MaxStart`, `MaxCrash`, `MaxFail` | 4, 2, 1 | a crash, a crash in the start after it, a start that repairs, and one that uses what it left |
| `Wire`: `Base`, `Half` | 4, 16 | words of five bits in groups of two: the last group is cut by the word, as the tenth of seven bits is by 64; the theorems about numbers hold for any |

The clock of `Link` needs no bound: a second passes only after something was published
in it, nothing is published that the server has already, and addresses change `MaxMove`
times. That leaves out publishing the same address again, which changes nothing but
the version.

`CHECK_DEADLOCK FALSE`: when `MaxSeq` is reached and everything is delivered,
nothing is left to do. `EventuallyDelivered` and `FallsSilent` say that this is
the state in which nodes stop. In the same way `Data`, `Meta`, `Link`, `Locks` and `Migrate`
stop when their bounds are reached; `wire` is checked for deadlock.

Friend ids: a friend that is added again has the same id in the model. The code gives it
the largest id plus one, which may be its old one. Either way `TopicFriend` holds no rows for it:
those of the old id were deleted.

At `Init` every node has added every other and nothing was put. The way there,
friend by friend, is that of `AddFriend`, which `core` takes after a removal.

## 6. Fairness

`FairSpec` asks for weak fairness of each looper (`Looper`), of the start and
every step of each handler (`Receive`, `Handle`), of the end of a removal, and of
each goroutine inside `Subscribe`. These are goroutines that the Go runtime
schedules and that never wait on a condition that comes and goes: a mutex held
for a bounded time, or the answer of a friend. Nothing is owed by users
(`Put`, `SubLookup`, `AddFriend`, `RemoveBegin`), and a failure or crash need
never happen; `MaxFail` bounds the number of failures, which stands for a network
that works in the end. There is no strong fairness in `Sync`.

In `Data` the same holds for the steps of `PutData` and `onData` in progress, for
each pass of a download loop, and for the handler of a call (`DataGet`, `Copied`).
`Receive`, the delivery of a record or advert, is weakly fair because `Sync`
delivers (`EventuallyDelivered`). That a read fails is not owed.

In `Meta` a call of `Put` in progress ends, and rows are delivered (`Receive`, `Finish`):
the loopers and handlers of `Sync`. In `Link` time passes, a friend publishes where it is
(the loop in `main` runs every fifteen minutes), the server serves, and callers, the
loopers and the download loop, go on with their calls and call again. A move, a
removal, a failure or a restart need not happen, and nobody need add a friend.

In `Locks` every goroutine that is inside the program goes on: loopers (`Lock`, `Loop`),
handlers (`Serve`, `Handler`), requests in progress (`Change`, `Put`) and `Stop`. Nothing
is owed by users who have not begun. One step is strongly fair, `ChangeAnnounce`, the
`Lock` of the mutex by a user: a looper that fails takes the mutex and lets go of it again
and again, so that the step is not enabled throughout, but it rests for seconds after each
failure, and Go's mutexes hand over to who has waited for a millisecond.

`Migrate` asks that a start that has begun goes on (`Open`), not that the program is started
or crashes. `Wire` has no fairness and no liveness: it is a program that runs to its end,
and the run checks that it gets there by checking for deadlock.

## 7. Proofs

`SyncProofs` proves, for every `Node`, `Topic`, `Key`, `Caller`, `Writable`,
`Enables`, `Limit`, `Orphans` and every bound:

| theorem | states |
| --- | --- |
| `TypeCorrect` | `Spec => []TypeOK` |
| `TableCorrect` | `Spec => []TableIsLatest` |
| `CursorsCorrect` | `Spec => []CursorsBehind` |
| `WakeupCorrect` | `Spec => []NoLostWakeup` |

The assumptions are those of `Sync`: derived topics differ from those of users,
users put to topics, the bounds are natural numbers. No bound on sequence numbers,
failures, crashes or removals is used: the theorems cover any number of each.

*Types and tables together.* `TypeOK /\ TableIsLatest` is inductive. The types
alone are not: that the next number is a natural number rests on
`MAX(seqno)`, that is on `LastSeq(n) = Len(log[n])`. `StoreTable` is the
main lemma: replacing the row of a key removes one entry and adds the largest, so
the maximum of the table is the length of the history, although old rows vanish.

*Cursors.* `CursorsBehind` is not inductive: `acked` is assigned from a batch
or from the priority of a subscription, `heard` from a row in a handler, and these
values have travelled. `Behind` strengthens it along their way: calls of
`Subscribe` (`CallsBehind`), rows of tables (`RowsAddressed`), batches
(`BatchBehind`) and handlers (`HandlerBehind`) carry nothing ahead of the table
they speak of. The step from a table to a batch needs that a subscription which
tells `g` how far `n` has heard `g` is sent to `g` alone. That is
`OutboxOfPeer`: `n` desires the outbox to `g` with `g` only, and users cannot
subscribe to a derived topic. `Grown` disposes of all conjuncts a step does not
touch; the step lemma treats each action.

*Wakeups.* `NoLostWakeup` is inductive over the types. `StoreWakes` (a `Put`
wakes every looper of its node) and `Undisturbed` (a pair a step does not touch)
carry it; the exception in its statement, a `Subscribe` between its two
halves, is needed exactly in `SubRow` and is discharged by `SubPut`.

`SyncProofs` and `FeedProofs`, for the same constants:

| theorem | states |
| --- | --- |
| `DeliveryCorrect` | `Spec => []NothingSkipped` |
| `FeedImplemented` | `Spec => ImplementsFeed`: `Sync` implements `Feed` |
| `FeedCorrect` (of `Feed`), `SinksCorrect` | what is handed over was published, under its number, and nothing current of its topic before it is missing; the same of the sinks of `Sync` |
| `OrderCorrect` | `Spec /\ []Calm => ExactlyOnceInOrder`; `Calm`: no crash, no removal and no handler without its caller so far |
| `UndisturbedOrder` | `Spec => ExactlyOnceInOrder` when `Orphans = FALSE`, `MaxRestart = MaxUnfriend = 0`, which is how `live` checks it |

*Delivery.* That nothing acknowledged was skipped is said of `acked`, but a cursor moves
because of a batch, a batch was cut from a table by what the friend asked for, and what it
asked for has travelled in a record of its own. `Delivery` follows it all the way round: up
to a cursor everything was handed over (`AckedGiven`, `HeardGiven`), and so it was up to what
a call of `Subscribe` or a subscription on its way speaks of (`CallsTell`, `RowsRight`); a
batch and what is left of it in a handler miss nothing current before any of their records
(`BatchFit`, `HandlersPlaced`); a request is a wish of the friend (`RequestsWanted`,
`DerivedWanted`); and while a call is awaited, what has left its handler was handed over, so
that the answer acknowledges nothing else (`Awaited`). A record the friend has dropped
because it did not want it breaks the chain. This is why `quit`, the topics a node has given
up, is in the properties: the first attempt at the proof, without it, failed in `Check`, and
the state it failed in is one the program reaches (section 8, last of `Sync`).

*Order.* `InOrder` adds, in calm states, that the record a handler is about to hand over is
newer than the cursor and that all that was handed over is not, or is the record the handler
is about to mark. With an orphan this fails, and with it the property.

*Refinement.* Under the mapping of `ImplementsFeed` the sink is `Deliver` of `Feed`, whose
guard (no current record skipped) is what `HandlersPlaced` says; `Put` and the second half of
`Subscribe` publish, and every other step is a stutter or gives something up.

`DataProofs`, for every `Node`, `Friends`, `Blob`, `Topic`, `Place`, `Putter`, `Writer` and every bound:

| theorem | states |
| --- | --- |
| `TypeCorrect`, `HeldStays`, `FilesCorrect`, `LoopAwake` | `Spec => []` of `TypeOK`, `HeldIsOnDisk`, `FilesWhole`, `NoLostDownload` |
| `HoldsCorrect` | holds are never fewer than what is in progress, and until the first crash exactly that (`HoldsCounted`) |
| `DownloadsCorrect` | `Downloading` is set during a download and, until the first crash, only then (`DownloadingIsTrue`) |
| `OffersCorrect`, `DeletionCorrect` | a node has what it offers; no step deletes what is being read, put or downloaded |
| `AdvertsCorrect`, `ReadyCorrect` | `AdvertsTrue` and `ReadyIfAdvertised` while no count is below zero (`NeverBelow`) |
| `TrackingCorrect`, `DeletionUnused` | for one writer, `TrackingCounts`, `AdvertsTrue`, `ReadyIfAdvertised` and `DeletedWhenUnused` while the calls for one record take turns (`Apart`) and nothing has crashed |
| `TreeTakesTurns`, `TreeCorrect` | friends in any tree (`Tree(up)`), one of whom writes with one goroutine: calls take turns, crashes or not, so that all of this holds until the first crash without further condition |

`Inv` is the inductive invariant of the first five rows. Its heart is `HoldsEnough`: an
object that is in use has a hold, `Write` deletes only an object without one, and so
`UsedLocal` and `OnDisk` survive every critical section in which somebody else deletes. The
equality `HoldsCounted` is not inductive across a crash, which ends operations and leaves
their holds in the row; hence the two forms. `JobsApart` (a goroutine has one call) and
`PutterAssumption` make the number of holds a cardinality; `PutMore`, `PutLess`, `UserMore`
and `UserLess` count. A wrong file is excluded by `NoParts`.

Adverts and counts come in three layers, because they need not be right: section 8 has three
ways to count a record twice or never. The first theorems assume nothing and say what a node
*offers*. `Told`, adverts exactly as they should be, needs only that no value is taken back
more often than it came. `Kept` then shows that counts are right when callbacks for one
record do not overlap: `CountsTrue` is `TrackingCounts` for the states in between, where the
value of a record whose callback down has come and whose callback up has not is in no count
(`Pending`), and `JobRight` is what a call knows of the record it replaces. `Downward` shows
that calls do not overlap in a tree whose root puts one value at a time: nobody is ahead of
the friend above him, nor is what he is about to put (`Behind`), so that `verifyUpdate`
refuses whatever comes back from below and a record arrives from above only (`FromAbove`);
and what is about to be put is still newer than what it replaces, though it was compared
earlier (`PutsAbove`). With a ring of friends or a second goroutine `Apart` fails
(section 8). A tree is enough: `Tree(up)` asks no more than that every friendship is one with
the node above, and that none is above the writer.

`MetaProofs`, for every `Node`, `Friends`, `Key`, `Value` and every bound:

| theorem | states |
| --- | --- |
| `TypeCorrect`, `WritersCorrect` | `Spec => []TypeOK`, `Spec => []WritersKnown` |
| `RegisterImplemented` | `Spec /\ []NoRace => ImplementsRegister`; `NoRace`: no two handlers of a node are about to put records of one name |
| `TreeRegister` | when the friends form a tree (`Tree(hop)`), `NoRace` is invariant, so `Spec => ImplementsRegister` |

`WritersKnown` rests on who makes what: records come from those made (`Sourced`), a priority
of a name is given once (`MadeOnce`) by a node that has its newest record (`AuthorHas`) and
puts newer ones (`PuttingNew`), and nobody accepts its own name from a friend
(`HandlingOther`). The register needs `HandlingNewer`: what was accepted is still news when
it is put. In a tree a name comes from one direction only, in which versions are newer
(`Downstream`); the invariant gives each node its next hop towards every author. The graph
of the run is such a tree: `MCMeta` assumes it, and TLC evaluates the assumption.

`LinkProofs`, for every `Friend`, `Addr`, `Caller` and every bound:

| theorem | states |
| --- | --- |
| `TypeCorrect`, `MapCorrect` | `Spec => []TypeOK`, `Spec => []MapIsTable` |
| `IndexCorrect` | the map by address leads from a `friendInfo` to itself, unless another friend is there |
| `FailuresSeen` | `Spec => []FailureIsSeen` with one friend |

`IndexedSame` is the part of `FailureIsSeen` that is true of any number of friends; with two
of them at one address `FailureIsSeen` fails (section 8), so one friend is what there is to
prove.

`LocksProofs`, for every `Node` and every bound:

| theorem | states |
| --- | --- |
| `TypeCorrect`, `RemovalCorrect` | `Spec => []TypeOK`, `Spec => []RemovedIsGone` |
| `CirclesLast` | `Spec => CircleStays`: a circle is not ended by a step of the program, however many nodes are in it |

The invariant is mutual exclusion as the code has it: `JoinsAlone` (a friend is removed with
no handler inside), `OneWriter` (of the mutex), `CallsInside` (a handler runs for a call that
waits), `StopsLast` and `ToldByRemove` (until a node stops, only `RemoveFriend` ends a
looper).

`MigrateProofs`, for every `Schema`, `Latest`, `Migration`, `Release` and every bound:

| theorem | states |
| --- | --- |
| `FitsCorrect` | `Spec => []IInv`: what is in the file and what is in the transaction of a migration are what the statements so far make of the version it began with |
| `VersionCorrect` | `Spec => []VersionTellsTables` |
| `OpenCorrect` | `Spec => []OpenIsCurrent` |
| `RefusalCorrect` | `Spec => []NothingRefused`, what is safety in `StartOpens`: unless an install was cut short, no statement is refused |

The schemas are parameters, and the theorems need of them what `Migrate` assumes and TLC
evaluates for the schemas of the program in the run `migrate`: the statements of a migration
are not refused by the tables of the version before it (`MigrationAssumption`), nor those of
the latest schema by an empty file, and they make the tables to which the migrations lead
(`LatestAssumption`); every release has more than one version behind it
(`ReleaseAssumption`), and of the migrations that follow version 1 it has one that refuses
what an install cut short has left (`TornAssumption`). A new release keeps the theorems as long
as its schema keeps the assumptions, so what a developer must check is finite and about the
schema alone. `TornAssumption` is what `OpenIsCurrent` rests on after a crash: such a file is
never opened, rather than opened with tables missing.
`IInv` has a part per place where a program may crash: the file while an install is under way
(`InstallFits`) and at rest (`FileFits`), the transaction (`TxFits`), and what the program sees
(`MemFits`, `OpenFits`). `Migrated` and `Ran`, what migrations or some statements do, are
recursive functions; `Counting` is the induction they need.

`WireProofs`, for every `Base` and `Half` (words of any width, groups of any size):

| theorem | states |
| --- | --- |
| `SignKept`, `SignLastInjective` | an integer that `writeInt` has turned into a word is what `readInt` makes of the word; no two integers become one word |
| `NumberKept`, `NumberWhole` | every word is read from its bytes whatever follows them, and the rest is left; from less than its bytes nothing is read |
| `IntegerKept` | the same of signed integers, the least one too |
| `StringKept`, `StringWhole` | the same of strings behind their length |

and for every `Call`, `Body`, `Bytes`, `Panics`, `Reader` and `Value` with `CodeAssumption`:

| theorem | states |
| --- | --- |
| `ReadsCorrect` | `Spec => []ReadsWhatWasWritten` |
| `EndCorrect` | `Spec => []EndIsNoticed` |

The comment in `transfer.go` claims the first ("keep the full range of int64 intact"). The
lemmas about signs are about wrap-around: a number that fits is its own remainder
(`ModSmall`, `Fits`), one that is too large by less than a word loses one (`ModOnce`). The case
to worry about is the least integer, whose negation is itself: converted to an unsigned word
it is `Half`, which `writeInt` needs it to be (`Negation`). Numbers: after `i` groups the
reader has `v % Place[i]` (`NextGroup`, `ReadBack`), and no group, not even the last one that
reaches over the end of the word, has a bit there to lose. These theorems are
`CodeAssumption` for objects that are numbers or strings, with any bytes behind them.

The invariant of `Wire` is about what is still to come. `StreamFits`: what has arrived and what
is on its way are all that remains of the message from the object on that `Decode` is at
(`Sent`), or a first part of it when the connection broke. `ReadsOne` is the main lemma: a
reader at an object, of which and of what follows some bytes have arrived, either reads the
object and stands exactly at the next, or reads nothing; and it reads when everything is
there. `LongerPart` (two ways to take a sequence apart) is what it needs of sequences.

Only model-checked:

* liveness under fairness (`SubscriptionsAgree`, `EventuallyDelivered`, `FallsSilent`,
  `EventuallyLocal`, `LoopsRest`, `EventuallySame`, `EventuallyReached`, `OnlyCirclesLast`,
  `CallsEnd`, `StartOpens`), which is out of the prover's reach, as `ENABLED` is;
* that `Read` of `Codec` inverts `Write` for values made of others: slices, maps, structs,
  pointers (`CodeAssumption` is evaluated for those of `MCWire`). `Read` and `Write` recur over
  types, and the prover has no induction over data and no recursive operators. Several
  objects one after the other are `ReadsCorrect`;
* that the schemas of the program are as `Migrate` assumes, which is finite and evaluated;
* the counterexamples of section 8.

## 8. Where the code does not do what it says

Each of these is a run that checks one property and ends in a counterexample;
`PROJECT.json` quotes the comment it contradicts.

* **stale_ack**: `notifyLoop` writes `acked_seqno` when the answer arrives,
  whatever the row says by then. A friend that unsubscribes and subscribes again
  during the call has had its cursor set back by `onSubscribe`; the answer sets it
  forward again over records the friend skipped while it did not want them. They
  are never sent.
* **removed**: `RemoveWriter` puts an empty value; `onWriter` of every other node decodes
  the value before anything else, and drops the record as malformed. The writer goes on
  writing and its records go on being accepted everywhere but at the owner, who has the
  empty record and drops them.
* **deadlock**: `RemoveFriend` calls its listener with the link's mutex held for writing;
  the listener takes `cmut` and waits for the looper of the friend to end. A looper on its
  way into `RoundTrip`, `UpdateHostData` or `dial` waits for the mutex. Nothing more is
  needed than a record on its way to the friend who is being removed.

Further circles appear in `locks`, whose properties hold because `Circle` names them: two
nodes that remove each other while each is calling the other; two that stop while they
notify each other, each handler waiting for the `cmut` that its node's `Stop` holds; a
`Stop` that waits for a looper in `UpdateHostData`, which waits for a handler that holds
the mutex for reading and waits for `cmut`. `Send` has no timeout, so a circle lasts until
the network fails.

Properties that the passing runs check fail under constants those runs exclude. In `Sync`:

* `SubscriptionsAgree` with two `Caller` and no failure: `Subscribe` writes its row and
  puts its record in two critical sections, and two calls may do the first in one order
  and the second in the other. With one `Caller` and `MaxRestart = 1`: a crash between the
  two leaves `desired` set and the friend uninformed, and nothing on start repeats the
  record. With `Orphans = TRUE`: a handler whose caller gave up sets `requested` from an
  old subscription after the retry has set it from a newer one.
* `EventuallyDelivered` with `MaxUnfriend = 1`: removing a friend deletes what the friend
  asked for; when the friend is added again it does not repeat it, since for the friend it
  was acknowledged.
* `NothingSkipped` and `ImplementsFeed` for topics and friends that were given up once
  (`quit`): a handler drops the records of a topic that is not wanted when it comes to them,
  and its call is acknowledged all the same. A friend that unsubscribes and subscribes again,
  or removes the publisher and adds it again, while they are on their way, does not get them
  later. The run `stale_ack` has one way to this; the proof of `DeliveryCorrect` shows that
  giving up is the only one.

In `Data`:

* `TrackingCounts` with three `Node`, all friends of each other: a record that arrives from
  two friends at once passes the check of `verifyUpdate` twice and is counted twice. With two `Putter`: overlapping
  calls of `PutData` to one key replace the same record, and the one that is overwritten is
  never counted down. With two `Writer`: putting to the key of another writer counts that
  writer's value down, though its record stays in the table, where records are kept per
  author.
* `DownloadingIsTrue` with `MaxRestart = 1`: `Downloading` is written to the row for the
  time of a download; a crash leaves it set, and the blob is not fetched again.
* After `ReadFails` a blob may stay a part. The uploader's `onDataGet` has begun its answer
  when the file fails, so the error goes nowhere and the answer ends like a whole one;
  `downloadLoop` computes the hash of what it got and does not compare it. The part is
  kept under the name of the blob, advertised and passed on, and putting the blob again
  does not mend it, since `newFile` returns early for a blob that is local. `FilesWhole`
  says that this is the only way to a part. `EventuallyLocal` asks that a file is
  there, not that it is whole.

In `Meta`:

* `ImplementsRegister` with three nodes that are all friends: `verifyUpdate` compares with the
  current record and puts later. Two handlers that have accepted two versions of one
  name may put the older one last.

In `Link`:

* `FailureIsSeen` with two friends and an address that changes hands: `RoundTrip` turns a
  fingerprint into an address, `dial` the address into a friend, and `friendsByHost` has
  one entry for the two. When a friend has moved and another has its old address, `dial`
  finds the one that was indexed last; if that is the one who listens there, the
  certificate is that friend's, the connection passes, and the call is answered by the
  wrong friend and never marked as failed.
* `FailureIsSeen` and `EventuallyReached` for a friend that was led astray (`astray`):
  `AddUpdateFriend` of a friend that exists inserts nothing, so `LastInsertId` is that of the
  last row inserted anywhere. The friend whose row that is gets the rendezvous server the user
  named for the other, and its `friendInfo` is read again without being indexed by its
  address; when there is no such row, `Scan` panics.
* A record of `rendezvous` may be overwritten by an older one, `onPut` being a comparison and
  a write in two statements. The versions of a key therefore need not grow; the next
  `Publish` heals it, so that `EventuallyReached` holds nevertheless.

In `Migrate`, `StartOpens` and `VersionTellsTables` except installs that were cut short: a
file with some of the tables and `user_version` 0 is taken for one of an old release
(`Party`) and given version 1; the next migration is refused, since a table it creates is
there, or one it changes is not. Every later start panics. `CommitFails` leaves a program that runs on
the old tables until its next start, for the error of `Commit` is not looked at.

Not in a module, but met while writing them:

* The rows of `Advert` of a friend stay when it is removed. `downloadLoop` then picks its id,
  `Send` finds no `friendInfo` for it and the program panics; its row says `Downloading`
  from then on. A friend that has removed us refuses our downloads, which are tried again
  every five seconds for ever.
* A crash inside `writeObj`, between its `DELETE` and its `INSERT`, loses the row of a blob
  whose records, file and adverts remain.
* The API is not ended before the layers stop (`api.go:165`). `RemoveFriend` after `Stop`
  closes a channel a second time and panics with `cmut` held; `AddUpdateFriend` during
  `Stop` starts a looper that outlives the database; handlers on connections kept open run
  on a closed database.

The passing runs exclude the case in question by their constants (`Enables`,
`Caller`, `Orphans`, `MaxRestart`, `MaxUnfriend`, `Putter`, `Writer`, `Node`,
`Friends`, `Friend`) or in the property itself (`astray`, `Circle`, installs cut short, a commit that failed)
where they check it, so they say what holds without it.

## 9. What is left out

* Locks, in all modules but `Locks`: `cmut`, the client's lock and the link's mutex appear as
  the atomicity of actions, and in `Sync` as `Locked` and `MutexFree` where they are held
  across a wait. That wait may be one in a circle (section 8); `RemoveEnd` of `Sync` is the
  end of a wait that `Sync` assumes to end.
* In `Locks`: what is sent, the download loop, the locks of clients and of `DataMgr` (held
  across nothing that waits for the others), connections kept open, and requests of users
  that overlap `Stop`.
* `Orphans = FALSE` in `Sync` means that a call which fails has not started its handler or
  has finished it; `TRUE` lets the handler run on.
* `Get` and `GetAuthor` only read, for the `meta` layer.
* Sinks other than that of a subscription write no state of the sync layer, except
  by `Put`: a record is a user's `Put` at the receiving node. They are marked in
  `handed`.
* In `Data`: temporary files, a crash inside a critical section of `DataMgr`, `Stop`, which
  ends the download loop, friends that come and go, and a second answer to a friend whose
  first is still being written. A file is the blob of its name, a part of it, or nothing:
  which part, and hashes, are left out.
* In `Data`, basis and writer records: who may write is the constant `Writer`.
* In `Meta`, callbacks (they are in `Data`), signatures, several collections, a second caller
  of `AddWriter` and `RemoveWriter`, and rows that a looper read before they were replaced
  (which `Sync` has).
* In `Link`, connections kept open between calls, `Stop` and locks (`Locks`), and the reads of
  the maps without the mutex in `Send`.
* In `Migrate`, columns other than those a migration adds, and rows: statements of `INSERT`
  and `UPDATE` in migrations fail or not as their tables are there.
* In `Wire`, base64 around a stream, and types that bring their own `Encode` and `Decode`:
  those of this program wrap one value of the kinds in the module.
* TLS, timing of retries, statistics.
* `crypto` (hashes, keys, signatures: functions without state, whose outcome the modules
  take for granted), `conn` and `nat` (input and output on the network and on a router),
  the web application, the test helper and the embedding tool of `db`. Of `api` and `main`
  only what publishes and gives addresses is in `Link`: the rest translates requests into
  calls of the layers, which the modules make wherever they please, or builds the program
  from its parts.

## 10. The plan

Done: `Sync` with `Feed`; `Data`; `Meta` with `Register`; `Link`; `Locks`; `Migrate`;
`Varint`, `Codec`, `Wire`; and the proofs of section 7, which treat every safety property that
a passing run checks, some under a condition named there.

What is left, in this order; each step is useful without the next.

1. `Data`: an abstract store that has a blob while somebody refers to it, and that `Data`
   implements it.
2. `Data`: friends that come and go, with their adverts; a crash inside `writeObj`.
3. `MCNode`: `Sync` composed with `Meta`, the sink of a data record being the code of `meta`,
   so that convergence is a property of the whole.
4. Requests of users that overlap `Stop`, in `Locks`.
