------------------------------- MODULE Migrate -------------------------------
(***************************************************************************)
(* How a program opens its database (db.go): on a new file it executes the *)
(* latest schema, on an older one the migrations that are missing, all in  *)
(* one transaction.  PRAGMA user_version is the number of migrations the   *)
(* tables stand for.  Programs of several releases open the file in turn,  *)
(* and crash.  A thing is a table, <<table, "">>, or an index or a column  *)
(* of one, <<table, name>>.                                                *)
(***************************************************************************)
EXTENDS Integers, Sequences

CONSTANTS
    Schema,      \* the names of schemas
    Latest,      \* Latest[s][r]: the statements that install s in release r
    Migration,   \* Migration[s]: the statements of each migration of s
    Release,     \* Release[s]: the releases of s, numbers of migrations
    MaxStart,    \* bound: starts
    MaxCrash,    \* bound: crashes
    MaxFail      \* bound: transactions that cannot be committed

VARIABLES
    schema,    \* the schema of the file
    disk,      \* the file: its things, user_version, and whether it was used
    mem,       \* the same as the program sees it: with its transaction
    pc,        \* where NewDatabase is
    release,   \* of the program that runs
    todo,      \* the statements it has yet to execute
    cut,       \* an install was cut short, and left a part of the tables
    spent      \* starts, crashes and failures so far

vars == <<schema, disk, mem, pc, release, todo, cut, spent>>

Create(things) == [do |-> "create", things |-> things, n |-> 0]
Ensure(things) == [do |-> "ensure", things |-> things, n |-> 0]
Drop(table) == [do |-> "drop", things |-> {<<table, "">>}, n |-> 0]
Version(n) == [do |-> "version", things |-> {}, n |-> n]

\* A file nobody has written to (PRAGMA schema_version is 0).
Unused == [things |-> {}, version |-> 0, used |-> FALSE]

\* Tables that statement st refers to and that are not there once it is done.
Missing(D, st) ==
    {x \in st.things : /\ <<x[1], "">> \notin D.things
                       /\ <<x[1], "">> \notin st.things \/ st.do = "drop"}

\* SQLite refuses to create what is there, unless told IF NOT EXISTS, and to use
\* or drop what is not.
Refused(D, st) == \/ st.do = "create" /\ st.things \cap D.things # {}
                  \/ Missing(D, st) # {}

\* A table is dropped with its indexes.
Exec(D, st) ==
    [things |-> IF st.do = "drop"
                THEN {x \in D.things : \A y \in st.things : x[1] # y[1]}
                ELSE D.things \cup st.things,
     version |-> IF st.do = "version" THEN st.n ELSE D.version,
     used |-> D.used \/ st.do # "version"]

Newest(s) == Len(Migration[s])

\* A migration, and the version it leads to.
Steps(s, i) == Migration[s][i] \o <<Version(i)>>

-----------------------------------------------------------------------------
(* What the statements of the schemas lead to, and what they must be.      *)

\* What the file D is after the first i statements of q.
Ran(D, q) == LET f[i \in 0 .. Len(q)] == IF i = 0 THEN D ELSE Exec(f[i - 1], q[i]) IN f

\* What it is, when it was of version v of s, after migration k.
Migrated(D, s, v) == LET f[k \in v .. Newest(s)] ==
                           IF k = v THEN D ELSE Ran(f[k - 1], Steps(s, k))[Len(Steps(s, k))]
                     IN f

\* The file of version k, and the things it has.
Whole(s, k) == Migrated(Unused, s, 0)[k]
Shape(s, k) == Whole(s, k).things

\* No statement of q is refused in D.
Accepts(D, q) == \A i \in 1 .. Len(q) : ~Refused(Ran(D, q)[i - 1], q[i])

Statement == [do : {"create", "ensure", "drop"}, things : SUBSET (STRING \X STRING), n : {0}]

\* There has been more than one release of every schema.
ASSUME ReleaseAssumption ==
    \A s \in Schema : /\ Migration[s] \in Seq(Seq(Statement) \ {<<>>}) \ {<<>>}
                      /\ Release[s] \subseteq 2 .. Newest(s)
                      /\ \A r \in Release[s] : Latest[s][r] \in Seq(Statement) \ {<<>>}

\* A migration can do with the tables of the version before it.
ASSUME MigrationAssumption ==
    \A s \in Schema : \A k \in 2 .. Newest(s) : Accepts(Whole(s, k - 1), Steps(s, k))

\* The latest schema of a release makes the tables that the migrations lead to.
ASSUME LatestAssumption ==
    \A s \in Schema : \A r \in Release[s] :
      /\ Accepts(Unused, Latest[s][r])
      /\ Ran(Unused, Latest[s][r])[Len(Latest[s][r])].things = Shape(s, r)

\* A file that has seen the first n statements of the latest schema, in release r,
\* and has been declared to be of version 1.
Torn(s, r, n) == Ran(Unused, Latest[s][r])[n]
Declared(s, r, n) == Exec(Torn(s, r, n), Version(1))

\* No release can migrate it.
ASSUME TornAssumption ==
    \A s \in Schema : \A r, t \in Release[s] : \A n \in 1 .. Len(Latest[s][r]) :
      \E k \in 2 .. t : ~Accepts(Migrated(Declared(s, r, n), s, 1)[k - 1], Steps(s, k))

-----------------------------------------------------------------------------

Stop(D) ==
    /\ disk' = D /\ mem' = D
    /\ pc' = "down" /\ todo' = <<>>

\* Fault: user_version tells whether the file is new.
StartVersion(r) ==
    /\ pc = "down" /\ spent["start"] < MaxStart
    /\ release' = r
    /\ IF disk.version = 0
       THEN pc' = "install" /\ todo' = Append(Latest[schema][r], Version(r))
       ELSE pc' = "migrate" /\ todo' = <<>>
    /\ spent' = [spent EXCEPT !["start"] = @ + 1]
    /\ UNCHANGED <<schema, disk, mem, cut>>

\* apply: an unused file gets the latest schema, each statement by itself.
Start(r) ==
    /\ pc = "down" /\ spent["start"] < MaxStart
    /\ release' = r
    /\ IF ~disk.used
       THEN pc' = "install" /\ todo' = Append(Latest[schema][r], Version(r))
       ELSE pc' = "migrate" /\ todo' = <<>>
    /\ spent' = [spent EXCEPT !["start"] = @ + 1]
    /\ UNCHANGED <<schema, disk, mem, cut>>

Install ==
    /\ pc = "install" /\ todo # <<>>
    /\ IF Refused(mem, Head(todo)) THEN Stop(disk)
       ELSE /\ mem' = Exec(mem, Head(todo)) /\ disk' = mem'
            /\ todo' = Tail(todo)
            /\ pc' = IF todo' = <<>> THEN "open" ELSE "install"
    /\ UNCHANGED <<schema, release, cut, spent>>

\* migrate: nothing to do ...
Current ==
    /\ pc = "migrate" /\ disk.version = release
    /\ pc' = "open"
    /\ UNCHANGED <<schema, disk, mem, release, todo, cut, spent>>

\* ... or a file from before there was a user_version, which is declared to be of
\* version 1 at once ...
Party ==
    /\ pc = "migrate" /\ disk.version = 0 /\ release # 0
    /\ mem' = Exec(mem, Version(1)) /\ disk' = mem'
    /\ UNCHANGED <<schema, pc, release, todo, cut, spent>>

\* Fault: one migration too few.
UpcomingButOne(D, r) == IF D.version + 1 < r THEN Steps(schema, D.version + 1) ELSE <<>>

\* The next migration of a file that is older than release r.
Upcoming(D, r) == IF D.version < r THEN Steps(schema, D.version + 1) ELSE <<>>

\* ... and the migrations that are missing, in a transaction.  There are none when
\* the file is of a later release than the program.
Begin ==
    /\ pc = "migrate" /\ disk.version \notin {0, release}
    /\ pc' = "tx" /\ todo' = Upcoming(disk, release)
    /\ UNCHANGED <<schema, disk, mem, release, cut, spent>>

\* Fault: no transaction.
MigrateOpenly ==
    /\ pc = "tx" /\ todo # <<>>
    /\ IF Refused(mem, Head(todo)) THEN Stop(disk)
       ELSE /\ mem' = Exec(mem, Head(todo)) /\ disk' = mem'
            /\ todo' = IF Len(todo) = 1 THEN Upcoming(mem', release) ELSE Tail(todo)
            /\ UNCHANGED pc
    /\ UNCHANGED <<schema, release, cut, spent>>

\* A statement that fails is rolled back with all the others, and panics.
Migrate ==
    /\ pc = "tx" /\ todo # <<>>
    /\ IF Refused(mem, Head(todo)) THEN Stop(disk)
       ELSE /\ mem' = Exec(mem, Head(todo))
            /\ todo' = IF Len(todo) = 1 THEN Upcoming(mem', release) ELSE Tail(todo)
            /\ UNCHANGED <<disk, pc>>
    /\ UNCHANGED <<schema, release, cut, spent>>

Commit ==
    /\ pc = "tx" /\ todo = <<>>
    /\ disk' = mem /\ pc' = "open"
    /\ UNCHANGED <<schema, mem, release, todo, cut, spent>>

\* Nobody looks at what Commit returns: the program runs with the old tables.
CommitFails ==
    /\ pc = "tx" /\ todo = <<>> /\ spent["fail"] < MaxFail
    /\ mem' = disk /\ pc' = "open"
    /\ spent' = [spent EXCEPT !["fail"] = @ + 1]
    /\ UNCHANGED <<schema, disk, release, todo, cut>>

Close ==
    /\ pc = "open"
    /\ Stop(disk)
    /\ UNCHANGED <<schema, release, cut, spent>>

\* SQLite rolls back what was not committed.
Crash ==
    /\ spent["crash"] < MaxCrash
    /\ pc \in {"install", "migrate", "tx"}
    /\ Stop(disk)
    /\ cut' = (cut \/ (pc = "install" /\ disk.used))
    /\ spent' = [spent EXCEPT !["crash"] = @ + 1]
    /\ UNCHANGED <<schema, release>>

-----------------------------------------------------------------------------

\* A new file, or one from before there was a user_version.
Init ==
    /\ schema \in Schema
    /\ disk \in {Unused, [Whole(schema, 1) EXCEPT !.version = 0]}
    /\ mem = disk
    /\ pc = "down" /\ release = 0 /\ todo = <<>> /\ cut = FALSE
    /\ spent = [x \in {"start", "crash", "fail"} |-> 0]

Open == Install \/ Current \/ Party \/ Begin \/ Migrate \/ Commit \/ CommitFails

Next == (\E r \in Release[schema] : Start(r)) \/ Open \/ Close \/ Crash

Spec == Init /\ [][Next]_vars

\* The program runs, and is started again after a crash or a panic.
FairSpec == Spec /\ WF_vars(Open)
-----------------------------------------------------------------------------
(* What must hold.                                                         *)

\* Whatever release wrote the file last and wherever it crashed, but for an install
\* cut short, user_version tells what is in it: the tables the missing migrations
\* start from, or, at 0, those of version 1.
VersionTellsTables ==
    pc # "install" /\ disk.used /\ ~cut =>
      disk.things = Shape(schema, IF disk.version = 0 THEN 1 ELSE disk.version)

\* A program that is running has the tables of its release, or of a later one that
\* has opened the file before, and of the version it was told: a file that was only
\* half installed is never taken for a whole one.  Only a transaction that could not
\* be committed leaves it with older ones.
OpenIsCurrent ==
    pc = "open" => /\ mem = disk
                   /\ disk.version >= release \/ spent["fail"] > 0
                   /\ disk.things = Shape(schema, disk.version)

\* A program that is started opens its database unless it crashes or an install was
\* cut short: no statement is ever refused, so that the next start does not fail in
\* the same way.
StartOpens ==
    \A n \in 0 .. MaxCrash :
      pc \in {"install", "migrate", "tx"} /\ spent["crash"] = n /\ ~cut
        ~> pc = "open" \/ spent["crash"] > n
=============================================================================
