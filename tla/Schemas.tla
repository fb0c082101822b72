------------------------------- MODULE Schemas --------------------------------
(***************************************************************************)
(* The schemas that Migrate is about: the latest one of each program, and  *)
(* the migrations that lead to it.  Columns are left out but for the ones  *)
(* of the tests' schema, whose second release adds one.                    *)
(***************************************************************************)
EXTENDS Migrate

Table(t) == {<<t, "">>}

\* The indexes of the five tables, as <<table, index>>.
Indexes == <<<<"Friend", "fingerprint">>, <<"Object", "seqno">>, <<"Blob", "key">>,
             <<"TopicFriend", "check">>, <<"Blob", "needs_download">>,
             <<"Object", "topic">>>>
Tables == <<"Object", "Friend", "TopicFriend", "Blob", "Advert">>

\* The first migration, which both schemas share.
First == [i \in 1 .. 6 |-> Ensure(Table(Append(Tables, "Rendezvous")[i]))]
           \o [i \in 1 .. 6 |-> Ensure({Indexes[i]})]
RendezvousIndex == Create({<<"Rendezvous", "fp">>})

Column(c) == Create({<<"Foo", c>>})
Foo(columns) == <<Create(Table("Foo") \cup {<<"Foo", c>> : c \in columns})>>

Names == {"h0tb0x", "rendezvous", "test"}
Migrations == [s \in Names |->
    IF s = "h0tb0x" THEN <<First, <<Drop("Rendezvous")>>>>
    ELSE IF s = "rendezvous"
    THEN <<First, [i \in 1 .. 5 |-> Drop(Tables[i])] \o <<RendezvousIndex>>>>
    ELSE <<Foo({"id"}), <<Column("name")>>, <<Column("author")>>>>]
Releases == [s \in Names |-> IF s = "test" THEN {2, 3} ELSE {2}]
LatestOf(s, r) ==
    IF s = "h0tb0x" THEN [i \in 1 .. 5 |-> Create(Table(Tables[i]))]
                           \o [i \in 1 .. 6 |-> Create({Indexes[i]})]
    ELSE IF s = "rendezvous" THEN <<Create(Table("Rendezvous")), RendezvousIndex>>
    ELSE Foo(IF r = 2 THEN {"id", "name"} ELSE {"id", "name", "author"})
Latests == [s \in Names |-> [r \in Releases[s] |-> LatestOf(s, r)]]
=============================================================================
