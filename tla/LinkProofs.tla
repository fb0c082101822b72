------------------------------ MODULE LinkProofs ------------------------------
(***************************************************************************)
(* Proofs about Link, for every set of friends, addresses and callers and  *)
(* every bound: the types, that the map by fingerprint is the table, and   *)
(* that the map by address has the friendInfo a call marks when it fails.  *)
(***************************************************************************)
EXTENDS Link, FiniteSetTheorems, TLAPS

-----------------------------------------------------------------------------
(* The inductive invariant.                                                *)

\* A call that has an answer of the server, or dials, has an address.
GoesSomewhere ==
    \A f \in Friend, c \in Caller :
      call[f][c].pc \in {"got", "dial", "wait"} => call[f][c].host \in Addr

\* What FailureIsSeen comes from when several friends may have had one address: the
\* address of a friendInfo is that of some friend in the map by address, and that
\* friend's own friendInfo is the one in byFp.
IndexedSame ==
    \A f \in Friend \ astray : \A i \in byFp[f] :
      i.host # Unknown => \E o \in Indexed : byHost[i.host] = {o} /\ (o.who = f => o.same)

Inv == TypeOK /\ GoesSomewhere /\ MapIsTable /\ IndexedSame

-----------------------------------------------------------------------------
(* What the operators return.                                              *)

\* An address is none of the two that say there is none.
LEMMA Addresses == None \notin Addr /\ Unknown \notin Addr /\ None # Unknown
BY AddrAssumption DEF None, Unknown

\* A friendInfo that is replaced stays one, of the same friend.
LEMMA OldTypes == ASSUME NEW f \in Friend, NEW s \in SUBSET Indexed PROVE Old(f, s) \in SUBSET Indexed
BY DEF Old, Indexed

\* The map by address with a friendInfo replaced is one.
LEMMA HostsTypes ==
    ASSUME TypeOK, NEW f \in Friend
    PROVE  Hosts(f) \in [Addr -> SUBSET Indexed]
BY OldTypes DEF Hosts, TypeOK

\* A call is made of where it is, an address and a friendInfo.
LEMMA AtTypes ==
    ASSUME NEW pc \in {"idle", "ask", "got", "dial", "wait", "ok"},
           NEW host \in Addr \cup {Unknown}, NEW info \in SUBSET Indexed
    PROVE  /\ At(pc, host, info) \in Call /\ Idle \in Call
           /\ At(pc, host, info).pc = pc /\ At(pc, host, info).host = host
BY DEF At, Call, Idle

\* Replacing a friendInfo leaves calls where they are, with their addresses.
LEMMA CallsTypes ==
    ASSUME TypeOK, NEW f \in Friend
    PROVE  /\ Calls(f) \in [Friend -> [Caller -> Call]]
           /\ \A g \in Friend, c \in Caller : /\ Calls(f)[g][c].pc = call[g][c].pc
                                              /\ Calls(f)[g][c].host = call[g][c].host
<1>1. ASSUME NEW g \in Friend, NEW c \in Caller
      PROVE  /\ call[g][c] \in Call /\ call[g][c].info \in SUBSET Indexed
             /\ Old(f, call[g][c].info) \in SUBSET Indexed
  <2>1. call[g][c] \in Call
    BY DEF TypeOK
  <2>2. call[g][c].info \in SUBSET Indexed
    BY <2>1 DEF Call
  <2> QED
    BY <2>1, <2>2, OldTypes
<1>2. ASSUME NEW g \in Friend, NEW c \in Caller
      PROVE  LET k == [call[g][c] EXCEPT !.info = Old(f, @)]
             IN  k \in Call /\ k.pc = call[g][c].pc /\ k.host = call[g][c].host
  BY <1>1 DEF Call
<1> QED
  BY <1>2 DEF Calls

\* The addresses of one friendInfo.
LEMMA HostOf ==
    ASSUME NEW x, NEW b
    PROVE  {i.host : i \in {[host |-> x, failed |-> b]}} = {x}
OBVIOUS

\* The total of what is spent is a number.
LEMMA SpendTypes ==
    ASSUME TypeOK, NEW x \in {"move", "fail", "remove", "update", "restart"}, NEW max, Spend(x, max)
    PROVE  spent' \in [{"move", "fail", "remove", "update", "restart"} -> Nat]
BY DEF TypeOK, Spend

\* The invariant holds at the start.
LEMMA InitInv == Init => Inv
<1> SUFFICES ASSUME Init PROVE Inv
  OBVIOUS
<1>1. TypeOK
  <2>1. at \in [Friend -> Addr]
    BY AtTypes DEF Init
  <2>2. rv \in [Friend -> SUBSET Published] /\ \A f \in Friend : Cardinality(rv[f]) <= 1
    BY FS_EmptySet DEF Init
  <2>3. /\ now \in Nat /\ pub \in [Friend -> SUBSET Request]
        /\ table \in [Friend -> Addr \cup {None, Unknown}]
        /\ byFp \in [Friend -> SUBSET Info] /\ byHost \in [Addr -> SUBSET Indexed]
        /\ astray \subseteq Friend
    BY DEF Init
  <2>4. call \in [Friend -> [Caller -> Call]]
    BY AtTypes DEF Init
  <2>5. spent \in [{"move", "fail", "remove", "update", "restart"} -> Nat]
    BY DEF Init
  <2> QED
    BY <2>1, <2>2, <2>3, <2>4, <2>5 DEF TypeOK
<1>2. GoesSomewhere
  BY DEF Init, GoesSomewhere, Idle, At
<1>3. MapIsTable /\ IndexedSame
  BY DEF Init, MapIsTable, IndexedSame
<1> QED
  BY <1>1, <1>2, <1>3 DEF Inv

\* When f gets another friendInfo, what the map has of another friend's is as before.
LEMMA HostsSame ==
    ASSUME Inv, NEW f \in Friend, NEW g \in Friend \ astray, g # f,
           NEW i \in byFp[g], i.host # Unknown
    PROVE  /\ i.host \in Addr
           /\ \E o \in Indexed : Hosts(f)[i.host] = {o} /\ (o.who = g => o.same)
<1>1. i \in Info /\ i.host \in Addr
  BY DEF Inv, TypeOK, Info
<1>2. PICK o \in Indexed : byHost[i.host] = {o} /\ (o.who = g => o.same)
  BY <1>1 DEF Inv, IndexedSame
<1>3. Hosts(f)[i.host] = {IF o.who = f THEN [o EXCEPT !.same = FALSE] ELSE o}
  BY <1>1, <1>2 DEF Hosts, Old
<1>4. CASE o.who = f
  <2>1. [o EXCEPT !.same = FALSE] \in Indexed /\ [o EXCEPT !.same = FALSE].who = f
    BY <1>4 DEF Indexed
  <2> QED
    BY <1>1, <1>3, <1>4, <2>1
<1>5. CASE o.who # f
  BY <1>1, <1>2, <1>3, <1>5
<1> QED
  BY <1>4, <1>5

\* Load fills the maps with what the table has.
LEMMA LoadInv ==
    ASSUME Inv, Load, UNCHANGED table
    PROVE  /\ byFp' \in [Friend -> SUBSET Info]
           /\ byHost' \in [Addr -> SUBSET Indexed]
           /\ call' \in [Friend -> [Caller -> Call]]
           /\ astray' \subseteq Friend
           /\ GoesSomewhere' /\ MapIsTable' /\ IndexedSame'
<1>1. /\ byFp' = [f \in Friend |-> IF table[f] = None THEN {}
                                   ELSE {[host |-> table[f], failed |-> FALSE]}]
      /\ call' = [f \in Friend |-> [c \in Caller |-> Idle]]
      /\ astray' = {} /\ table' = table
      /\ table \in [Friend -> Addr \cup {None, Unknown}]
  BY DEF Load, Inv, TypeOK
<1>2. /\ byHost' \in [Addr -> SUBSET Indexed]
      /\ \A x \in Addr, f \in Friend :
           table[f] = x => \E g \in Friend : byHost'[x] = {[who |-> g, same |-> TRUE]}
  <2>1. PICK h \in [Addr -> SUBSET [who : Friend, same : {TRUE}]] :
          /\ byHost' = h
          /\ \A x \in Addr : LET here == {f \in Friend : table[f] = x}
                             IN  \/ here = {} /\ h[x] = {}
                                 \/ \E f \in here : h[x] = {[who |-> f, same |-> TRUE]}
    BY DEF Load
  <2>2. [who : Friend, same : {TRUE}] \subseteq Indexed
    BY DEF Indexed
  <2>3. ASSUME NEW x \in Addr, NEW f \in Friend, table[f] = x
        PROVE  \E g \in Friend : byHost'[x] = {[who |-> g, same |-> TRUE]}
    <3>1. {g \in Friend : table[g] = x} # {}
      BY <2>3
    <3> QED
      BY <2>1, <3>1
  <2> QED
    BY <2>1, <2>2, <2>3
<1>3. byFp' \in [Friend -> SUBSET Info] /\ MapIsTable'
  <2>1. ASSUME NEW f \in Friend
        PROVE  byFp'[f] \in SUBSET Info /\ {i.host : i \in byFp'[f]} = {table[f]} \ {None}
    <3>1. CASE table[f] = None
      BY <1>1, <3>1
    <3>2. CASE table[f] # None
      BY <1>1, <3>2, HostOf DEF Info
    <3> QED
      BY <3>1, <3>2
  <2>2. byFp' \in [Friend -> SUBSET Info]
    BY <1>1, <2>1
  <2> QED
    BY <1>1, <2>1, <2>2 DEF MapIsTable
<1>4. call' \in [Friend -> [Caller -> Call]] /\ GoesSomewhere'
  BY <1>1, AtTypes DEF GoesSomewhere, Idle, At
<1>5. IndexedSame'
  <2> SUFFICES ASSUME NEW f \in Friend, NEW i \in byFp'[f], i.host # Unknown
               PROVE  \E o \in Indexed : byHost'[i.host] = {o} /\ (o.who = f => o.same)
    BY DEF IndexedSame
  <2>1. i.host = table[f] /\ table[f] \in Addr
    BY <1>1
  <2>2. PICK g \in Friend : byHost'[i.host] = {[who |-> g, same |-> TRUE]}
    BY <1>2, <2>1
  <2>3. [who |-> g, same |-> TRUE] \in Indexed
    BY DEF Indexed
  <2> QED
    BY <2>2, <2>3
<1> QED
  BY <1>1, <1>2, <1>3, <1>4, <1>5

\* UpdateHostData gives f a friendInfo that the map by address has.
LEMMA UpdateHostDataInv ==
    ASSUME Inv, NEW f \in Friend, NEW x \in Addr, UpdateHostData(f, x), astray' = astray \ {f}
    PROVE  /\ table' \in [Friend -> Addr \cup {None, Unknown}]
           /\ byFp' \in [Friend -> SUBSET Info]
           /\ byHost' \in [Addr -> SUBSET Indexed]
           /\ MapIsTable' /\ IndexedSame'
<1>1. /\ table' = [table EXCEPT ![f] = x]
      /\ byFp' = [byFp EXCEPT ![f] = {[host |-> x, failed |-> FALSE]}]
      /\ byHost' = [Hosts(f) EXCEPT ![x] = {[who |-> f, same |-> TRUE]}]
  BY DEF UpdateHostData
<1>2. TypeOK /\ MapIsTable /\ IndexedSame
  BY DEF Inv
<1>3. [host |-> x, failed |-> FALSE] \in Info /\ [who |-> f, same |-> TRUE] \in Indexed
  BY DEF Info, Indexed
<1>4. Hosts(f) \in [Addr -> SUBSET Indexed]
  BY <1>2, HostsTypes
<1>5. table' \in [Friend -> Addr \cup {None, Unknown}] /\ byFp' \in [Friend -> SUBSET Info]
  BY <1>1, <1>2, <1>3 DEF TypeOK
<1>6. byHost' \in [Addr -> SUBSET Indexed]
  BY <1>1, <1>3, <1>4
<1>7. MapIsTable'
  <2>1. ASSUME NEW g \in Friend
        PROVE  {i.host : i \in byFp'[g]} = {table'[g]} \ {None}
    <3>1. CASE g = f
      <4>1. byFp'[g] = {[host |-> x, failed |-> FALSE]} /\ table'[g] = x
        BY <1>1, <1>2, <3>1 DEF TypeOK
      <4> QED
        BY <4>1, HostOf, Addresses
    <3>2. CASE g # f
      BY <1>1, <1>2, <3>2 DEF MapIsTable, TypeOK
    <3> QED
      BY <3>1, <3>2
  <2> QED
    BY <2>1 DEF MapIsTable
<1>8. IndexedSame'
  <2> SUFFICES ASSUME NEW g \in Friend, g \notin astray', NEW i \in byFp'[g], i.host # Unknown
               PROVE  \E o \in Indexed : byHost'[i.host] = {o} /\ (o.who = g => o.same)
    BY DEF IndexedSame
  <2>1. CASE g = f
    <3>1. i.host = x
      BY <1>1, <1>2, <2>1 DEF TypeOK
    <3>2. byHost'[i.host] = {[who |-> f, same |-> TRUE]}
      BY <1>1, <1>4, <3>1
    <3> QED
      BY <1>3, <2>1, <3>2
  <2>2. CASE g # f /\ i.host = x
    BY <1>1, <1>3, <1>4, <2>2
  <2>3. CASE g # f /\ i.host # x
    <3>1. i \in byFp[g] /\ g \notin astray
      BY <1>1, <1>2, <2>3 DEF TypeOK
    <3>2. i.host \in Addr /\ byHost'[i.host] = Hosts(f)[i.host]
      BY <1>1, <1>4, <2>3, <3>1, HostsSame
    <3> QED
      BY <2>3, <3>1, <3>2, HostsSame
  <2> QED
    BY <2>1, <2>2, <2>3
<1> QED
  BY <1>5, <1>6, <1>7, <1>8

\* Steps of the friends, of the server, and of calls between lookups.
LEMMA MapsUnchanged ==
    ASSUME Inv, UNCHANGED <<table, byFp, byHost, astray>>
    PROVE  MapIsTable' /\ IndexedSame'
BY DEF Inv, MapIsTable, IndexedSame

\* A call that goes on as it may.
LEMMA CallGoes ==
    ASSUME Inv, NEW f \in Friend, NEW c \in Caller, NEW k \in Call,
           k.pc \in {"got", "dial", "wait"} => k.host \in Addr,
           call' = [call EXCEPT ![f][c] = k]
    PROVE  call' \in [Friend -> [Caller -> Call]] /\ GoesSomewhere'
BY DEF Inv, TypeOK, GoesSomewhere

\* A call that ends.
LEMMA CallEnds ==
    ASSUME Inv, NEW f \in Friend, NEW c \in Caller, call' = [call EXCEPT ![f][c] = Idle]
    PROVE  call' \in [Friend -> [Caller -> Call]] /\ GoesSomewhere'
<1>1. Idle \in Call /\ Idle.pc = "idle"
  BY DEF Idle, At, Call
<1> QED
  BY <1>1, CallGoes

\* What is known of a call in progress.
LEMMA CallIs ==
    ASSUME Inv, NEW f \in Friend, NEW c \in Caller
    PROVE  /\ call[f][c].pc \in {"idle", "ask", "got", "dial", "wait", "ok"}
           /\ call[f][c].host \in Addr \cup {Unknown}
           /\ call[f][c].info \in SUBSET Indexed
           /\ call[f][c].pc \in {"got", "dial", "wait"} => call[f][c].host \in Addr
           /\ call[f][c] = At(call[f][c].pc, call[f][c].host, call[f][c].info)
<1>1. call[f][c] \in Call
  BY DEF Inv, TypeOK
<1> QED
  BY <1>1 DEF Call, At, Inv, GoesSomewhere

\* A call that the server does not help.
LEMMA UnansweredGoes ==
    ASSUME Inv, NEW f \in Friend, NEW c \in Caller, Unanswered(f, c)
    PROVE  call' \in [Friend -> [Caller -> Call]] /\ GoesSomewhere'
<1> DEFINE k == call[f][c]
<1>1. CASE k.host = Unknown
  <2>1. call' = [call EXCEPT ![f][c] = Idle]
    BY <1>1 DEF Unanswered, Inv, TypeOK
  <2> QED
    BY <2>1, CallEnds
<1>2. CASE k.host # Unknown
  <2>1. [k EXCEPT !.pc = "dial"] = At("dial", k.host, k.info)
    <3>1. k \in Call
      BY DEF Inv, TypeOK
    <3> QED
      BY <3>1 DEF Call, At
  <2>2. call' = [call EXCEPT ![f][c] = At("dial", k.host, k.info)]
    BY <1>2, <2>1 DEF Unanswered, Inv, TypeOK
  <2>3. k.host \in Addr /\ k.info \in SUBSET Indexed
    BY <1>2, CallIs
  <2>4. At("dial", k.host, k.info) \in Call /\ At("dial", k.host, k.info).host \in Addr
    BY <2>3, AtTypes
  <2> QED
    BY <2>2, <2>4, CallGoes
<1> QED
  BY <1>1, <1>2

\* A failed call marks friendInfos, which keep their addresses.
LEMMA FailedInv ==
    ASSUME Inv, NEW f \in Friend, NEW c \in Caller, Failed(f, c), call[f][c].pc = "wait",
           UNCHANGED <<table, byHost, astray>>
    PROVE  /\ byFp' \in [Friend -> SUBSET Info]
           /\ call' \in [Friend -> [Caller -> Call]]
           /\ GoesSomewhere' /\ MapIsTable' /\ IndexedSame'
<1>1. PICK o \in call[f][c].info :
        byFp' = [byFp EXCEPT ![o.who] = IF o.same THEN {[i EXCEPT !.failed = TRUE] : i \in @} ELSE @]
  BY DEF Failed
<1>2. byFp \in [Friend -> SUBSET Info] /\ o.who \in Friend
  BY CallIs DEF Indexed, Inv, TypeOK
<1>3. ASSUME NEW g \in Friend
      PROVE  /\ byFp'[g] \in SUBSET Info
             /\ \A i \in byFp'[g] : \E j \in byFp[g] : i.host = j.host
             /\ {i.host : i \in byFp'[g]} = {i.host : i \in byFp[g]}
  <2>1. byFp'[g] = byFp[g] \/ byFp'[g] = {[i EXCEPT !.failed = TRUE] : i \in byFp[g]}
    BY <1>1, <1>2
  <2>2. CASE byFp'[g] = {[i EXCEPT !.failed = TRUE] : i \in byFp[g]}
    <3>1. ASSUME NEW i \in byFp[g]
          PROVE  [i EXCEPT !.failed = TRUE] \in Info /\ [i EXCEPT !.failed = TRUE].host = i.host
      <4>1. i \in Info
        BY <1>2
      <4> QED
        BY <4>1 DEF Info
    <3>2. byFp'[g] \in SUBSET Info
      BY <2>2, <3>1
    <3>3. \A i \in byFp'[g] : \E j \in byFp[g] : i.host = j.host
      BY <2>2, <3>1
    <3>4. \A j \in byFp[g] : \E i \in byFp'[g] : i.host = j.host
      BY <2>2, <3>1
    <3> QED
      BY <3>2, <3>3, <3>4
  <2> QED
    BY <1>2, <2>1, <2>2
<1>4. byFp' \in [Friend -> SUBSET Info]
  BY <1>1, <1>2, <1>3
<1>5. call' \in [Friend -> [Caller -> Call]] /\ GoesSomewhere'
  BY CallEnds DEF Failed
<1>6. MapIsTable'
  BY <1>3 DEF Inv, MapIsTable
<1>7. IndexedSame'
  <2> SUFFICES ASSUME NEW g \in Friend \ astray, NEW i \in byFp'[g], i.host # Unknown
               PROVE  \E q \in Indexed : byHost[i.host] = {q} /\ (q.who = g => q.same)
    BY DEF IndexedSame
  <2>1. PICK j \in byFp[g] : i.host = j.host
    BY <1>3
  <2> QED
    BY <2>1 DEF Inv, IndexedSame
<1> QED
  BY <1>4, <1>5, <1>6, <1>7

-----------------------------------------------------------------------------
(* Every step keeps the invariant.                                         *)

\* The requests of friends and what the server has of them keep their types.
LEMMA ServerTypes ==
    ASSUME Inv, NEW f \in Friend,
           Publish(f) \/ OnPutCheck(f) \/ OnPutWrite(f) \/ PutLost(f)
    PROVE  /\ pub' \in [Friend -> SUBSET Request]
           /\ rv' \in [Friend -> SUBSET Published]
           /\ \A g \in Friend : Cardinality(rv'[g]) <= 1
<1>1. /\ at \in [Friend -> Addr] /\ now \in Nat
      /\ pub \in [Friend -> SUBSET Request] /\ rv \in [Friend -> SUBSET Published]
      /\ \A g \in Friend : Cardinality(rv[g]) <= 1
  BY DEF Inv, TypeOK
<1>2. \A p \in pub[f] : p \in Request
  BY <1>1
<1>3. CASE Publish(f)
  <2>1. [ver |-> now, host |-> at[f], do |-> "check", late |-> FALSE] \in Request
    BY <1>1 DEF Request
  <2> QED
    BY <1>1, <1>3, <2>1 DEF Publish
<1>4. CASE OnPutCheck(f)
  <2>1. PICK p \in pub[f] :
          pub' = [pub EXCEPT ![f] = (@ \ {p}) \cup
                    IF \E r \in rv[f] : p.ver <= r.ver THEN {}
                    ELSE {[p EXCEPT !.do = IF rv[f] = {} THEN "insert" ELSE "update"]}]
    BY <1>4 DEF OnPutCheck
  <2>2. \A d \in {"insert", "update"} : [p EXCEPT !.do = d] \in Request
    BY <1>2 DEF Request
  <2>3. pub' \in [Friend -> SUBSET Request]
    BY <1>1, <2>1, <2>2
  <2> QED
    BY <1>1, <1>4, <2>3 DEF OnPutCheck
<1>5. CASE OnPutWrite(f)
  <2>1. PICK p \in pub[f] :
          /\ rv' = [rv EXCEPT ![f] = IF p.do = "insert" /\ @ # {} THEN @
                                     ELSE {[ver |-> p.ver, host |-> p.host]}]
          /\ pub' = [pub EXCEPT ![f] = @ \ {p}]
    BY <1>5 DEF OnPutWrite
  <2>2. [ver |-> p.ver, host |-> p.host] \in Published
    BY <1>2 DEF Request, Published
  <2>3. Cardinality({[ver |-> p.ver, host |-> p.host]}) <= 1
    <3>1. Cardinality({[ver |-> p.ver, host |-> p.host]}) = 1
      BY FS_Singleton, Zenon
    <3> QED
      BY <3>1
  <2> QED
    BY <1>1, <2>1, <2>2, <2>3
<1>6. CASE PutLost(f)
  <2>1. PICK p \in pub[f] :
          \/ pub' = [pub EXCEPT ![f] = @ \ {p}]
          \/ pub' = [pub EXCEPT ![f] = (@ \ {p}) \cup {[p EXCEPT !.late = TRUE]}]
    BY <1>6 DEF PutLost
  <2>2. [p EXCEPT !.late = TRUE] \in Request
    BY <1>2 DEF Request
  <2>3. rv' = rv
    BY <1>6 DEF PutLost, Spend
  <2> QED
    BY <1>1, <2>1, <2>2, <2>3
<1> QED
  BY <1>3, <1>4, <1>5, <1>6

\* A step that leaves the server and the friends alone, put together.
LEMMA NodeInv ==
    ASSUME Inv, UNCHANGED server,
           table' \in [Friend -> Addr \cup {None, Unknown}],
           byFp' \in [Friend -> SUBSET Info],
           byHost' \in [Addr -> SUBSET Indexed],
           call' \in [Friend -> [Caller -> Call]],
           astray' \subseteq Friend,
           spent' \in [{"move", "fail", "remove", "update", "restart"} -> Nat],
           GoesSomewhere', MapIsTable', IndexedSame'
    PROVE  Inv'
BY DEF Inv, TypeOK, server

\* Every step keeps it.
LEMMA StepInv == Inv /\ [Next]_vars => Inv'
<1> SUFFICES ASSUME Inv, [Next]_vars PROVE Inv'
  OBVIOUS
<1>0. /\ TypeOK /\ GoesSomewhere
      /\ table \in [Friend -> Addr \cup {None, Unknown}]
      /\ byFp \in [Friend -> SUBSET Info]
      /\ byHost \in [Addr -> SUBSET Indexed]
      /\ call \in [Friend -> [Caller -> Call]]
      /\ astray \subseteq Friend
      /\ spent \in [{"move", "fail", "remove", "update", "restart"} -> Nat]
  BY DEF Inv, TypeOK
<1>1. ASSUME NEW f \in Friend, NEW x \in Addr, Move(f, x)
      PROVE  Inv'
  <2>1. TypeOK'
    BY <1>0, <1>1, SpendTypes DEF Move, TypeOK
  <2> QED
    BY <1>1, <2>1, MapsUnchanged DEF Move, Inv, GoesSomewhere
<1>2. CASE Tick
  <2>1. TypeOK'
    BY <1>0, <1>2 DEF Tick, TypeOK
  <2> QED
    BY <1>2, <2>1, MapsUnchanged DEF Tick, Inv, GoesSomewhere
<1>3. ASSUME NEW f \in Friend, Publish(f) \/ OnPutCheck(f) \/ OnPutWrite(f) \/ PutLost(f)
      PROVE  Inv'
  <2>1. spent' \in [{"move", "fail", "remove", "update", "restart"} -> Nat]
    BY <1>0, <1>3, SpendTypes DEF Publish, OnPutCheck, OnPutWrite, PutLost
  <2>2. UNCHANGED <<at, now, table, byFp, byHost, call, astray>>
    BY <1>3 DEF Publish, OnPutCheck, OnPutWrite, PutLost
  <2>3. TypeOK'
    BY <1>0, <1>3, <2>1, <2>2, ServerTypes DEF TypeOK
  <2> QED
    BY <2>2, <2>3, MapsUnchanged DEF Inv, GoesSomewhere
<1>4. ASSUME NEW f \in Friend, AddFriend(f)
      PROVE  Inv'
  <2>1. /\ table' = [table EXCEPT ![f] = Unknown]
        /\ byFp' = [byFp EXCEPT ![f] = {[host |-> Unknown, failed |-> FALSE]}]
        /\ UNCHANGED <<server, byHost, call, astray, spent>>
    BY <1>4 DEF AddFriend
  <2>2. [host |-> Unknown, failed |-> FALSE] \in Info
    BY DEF Info
  <2>3. MapIsTable'
    <3>1. \A g \in Friend \ {f} : byFp'[g] = byFp[g] /\ table'[g] = table[g]
      BY <1>0, <2>1
    <3>2. byFp'[f] = {[host |-> Unknown, failed |-> FALSE]} /\ table'[f] = Unknown
      BY <1>0, <2>1
    <3>3. {i.host : i \in byFp'[f]} = {table'[f]} \ {None}
      BY <3>2, HostOf, Addresses
    <3> QED
      BY <3>1, <3>3 DEF Inv, MapIsTable
  <2>4. IndexedSame'
    <3>1. byFp'[f] = {[host |-> Unknown, failed |-> FALSE]}
      BY <1>0, <2>1
    <3>2. \A g \in Friend \ {f} : byFp'[g] = byFp[g]
      BY <1>0, <2>1
    <3> QED
      BY <2>1, <3>1, <3>2 DEF Inv, IndexedSame
  <2>5. GoesSomewhere'
    BY <1>0, <2>1 DEF GoesSomewhere
  <2>6. table' \in [Friend -> Addr \cup {None, Unknown}] /\ byFp' \in [Friend -> SUBSET Info]
    BY <1>0, <2>1, <2>2
  <2> QED
    BY <1>0, <2>1, <2>3, <2>4, <2>5, <2>6, NodeInv
<1>5. ASSUME NEW f \in Friend, UpdateFriend(f)
      PROVE  Inv'
  <2>1. PICK g \in Friend :
          /\ table[g] # None
          /\ byFp' = [byFp EXCEPT ![g] = {[host |-> table[g], failed |-> FALSE]}]
          /\ byHost' = Hosts(g) /\ call' = Calls(g)
          /\ astray' = IF table[g] = Unknown THEN astray ELSE astray \cup {g}
    BY <1>5 DEF UpdateFriend
  <2>2. UNCHANGED <<server, table>> /\ spent' \in [{"move", "fail", "remove", "update", "restart"} -> Nat]
    BY <1>0, <1>5, SpendTypes DEF UpdateFriend
  <2>3. [host |-> table[g], failed |-> FALSE] \in Info
    BY <1>0, <2>1 DEF Info
  <2>4. MapIsTable'
    <3>1. \A h \in Friend \ {g} : byFp'[h] = byFp[h] /\ table'[h] = table[h]
      BY <1>0, <2>1, <2>2
    <3>2. byFp'[g] = {[host |-> table[g], failed |-> FALSE]} /\ table'[g] = table[g]
      BY <1>0, <2>1, <2>2
    <3>3. {i.host : i \in byFp'[g]} = {table'[g]} \ {None}
      <4>1. {i.host : i \in byFp'[g]} = {table[g]}
        BY <3>2, HostOf
      <4> QED
        BY <2>1, <3>2, <4>1
    <3> QED
      BY <3>1, <3>3 DEF Inv, MapIsTable
  <2>5. IndexedSame'
    <3> SUFFICES ASSUME NEW h \in Friend, h \notin astray', NEW i \in byFp'[h], i.host # Unknown
                 PROVE  \E o \in Indexed : byHost'[i.host] = {o} /\ (o.who = h => o.same)
      BY DEF IndexedSame
    <3>1. h # g
      BY <1>0, <2>1
    <3>2. h \notin astray /\ i \in byFp[h]
      BY <1>0, <2>1, <3>1
    <3> QED
      BY <2>1, <3>1, <3>2, HostsSame
  <2>6. GoesSomewhere' /\ call' \in [Friend -> [Caller -> Call]]
    <3>1. call' \in [Friend -> [Caller -> Call]]
      BY <1>0, <2>1, CallsTypes
    <3>2. \A h \in Friend, c \in Caller : /\ call'[h][c].pc = call[h][c].pc
                                           /\ call'[h][c].host = call[h][c].host
      BY <1>0, <2>1, CallsTypes
    <3>3. GoesSomewhere'
      BY <1>0, <3>2 DEF GoesSomewhere
    <3> QED
      BY <3>1, <3>3
  <2>7. byFp' \in [Friend -> SUBSET Info] /\ byHost' \in [Addr -> SUBSET Indexed] /\ astray' \subseteq Friend
    BY <1>0, <2>1, <2>3, HostsTypes
  <2> QED
    BY <1>0, <2>2, <2>4, <2>5, <2>6, <2>7, NodeInv
<1>6. ASSUME NEW f \in Friend, NEW x \in Addr, GiveAddress(f, x)
      PROVE  Inv'
  <2>1. /\ UpdateHostData(f, x) /\ call' = Calls(f) /\ astray' = astray \ {f}
        /\ UNCHANGED server
    BY <1>6 DEF GiveAddress
  <2>2. spent' \in [{"move", "fail", "remove", "update", "restart"} -> Nat]
    BY <1>0, <1>6, SpendTypes DEF GiveAddress
  <2>3. GoesSomewhere' /\ call' \in [Friend -> [Caller -> Call]]
    <3>1. call' \in [Friend -> [Caller -> Call]]
      BY <1>0, <2>1, CallsTypes
    <3>2. \A h \in Friend, c \in Caller : /\ call'[h][c].pc = call[h][c].pc
                                           /\ call'[h][c].host = call[h][c].host
      BY <1>0, <2>1, CallsTypes
    <3>3. GoesSomewhere'
      BY <1>0, <3>2 DEF GoesSomewhere
    <3> QED
      BY <3>1, <3>3
  <2> QED
    BY <1>0, <2>1, <2>2, <2>3, UpdateHostDataInv, NodeInv
<1>7. ASSUME NEW f \in Friend, RemoveFriend(f)
      PROVE  Inv'
  <2>1. /\ table' = [table EXCEPT ![f] = None]
        /\ byFp' = [byFp EXCEPT ![f] = {}]
        /\ byHost' = Hosts(f) /\ call' = Calls(f) /\ astray' = astray \ {f}
        /\ UNCHANGED server
    BY <1>7 DEF RemoveFriend
  <2>2. spent' \in [{"move", "fail", "remove", "update", "restart"} -> Nat]
    BY <1>0, <1>7, SpendTypes DEF RemoveFriend
  <2>3. MapIsTable'
    BY <1>0, <2>1 DEF Inv, MapIsTable
  <2>4. IndexedSame'
    <3> SUFFICES ASSUME NEW h \in Friend, h \notin astray', NEW i \in byFp'[h], i.host # Unknown
                 PROVE  \E o \in Indexed : byHost'[i.host] = {o} /\ (o.who = h => o.same)
      BY DEF IndexedSame
    <3>1. h # f /\ h \notin astray /\ i \in byFp[h]
      BY <1>0, <2>1
    <3> QED
      BY <2>1, <3>1, HostsSame
  <2>5. GoesSomewhere' /\ call' \in [Friend -> [Caller -> Call]]
    <3>1. call' \in [Friend -> [Caller -> Call]]
      BY <1>0, <2>1, CallsTypes
    <3>2. \A h \in Friend, c \in Caller : /\ call'[h][c].pc = call[h][c].pc
                                           /\ call'[h][c].host = call[h][c].host
      BY <1>0, <2>1, CallsTypes
    <3>3. GoesSomewhere'
      BY <1>0, <3>2 DEF GoesSomewhere
    <3> QED
      BY <3>1, <3>3
  <2>6. /\ table' \in [Friend -> Addr \cup {None, Unknown}] /\ byFp' \in [Friend -> SUBSET Info]
        /\ byHost' \in [Addr -> SUBSET Indexed] /\ astray' \subseteq Friend
    BY <1>0, <2>1, HostsTypes
  <2> QED
    BY <1>0, <2>1, <2>2, <2>3, <2>4, <2>5, <2>6, NodeInv
<1>8. CASE Restart
  <2>1. spent' \in [{"move", "fail", "remove", "update", "restart"} -> Nat]
    BY <1>0, <1>8, SpendTypes DEF Restart
  <2> QED
    BY <1>0, <1>8, <2>1, LoadInv, NodeInv DEF Restart
<1>9. ASSUME NEW f \in Friend, NEW c \in Caller, UpdatePanics(f, c)
      PROVE  Inv'
  BY <1>0, <1>9, LoadInv, NodeInv DEF UpdatePanics
<1>10. ASSUME NEW f \in Friend, NEW c \in Caller, Update(f, c)
       PROVE  Inv'
  <2> DEFINE to == call[f][c].host
  <2>1. /\ call[f][c].pc = "got" /\ UpdateHostData(f, to)
        /\ call' = [Calls(f) EXCEPT ![f][c] = At("dial", to, {})]
        /\ astray' = astray \ {f} /\ UNCHANGED <<server, spent>>
    BY <1>10 DEF Update
  <2>2. to \in Addr
    BY <2>1, CallIs
  <2>3. GoesSomewhere' /\ call' \in [Friend -> [Caller -> Call]]
    <3>1. /\ At("dial", to, {}) \in Call /\ At("dial", to, {}).host \in Addr
      BY <2>2, AtTypes
    <3>2. /\ Calls(f) \in [Friend -> [Caller -> Call]]
          /\ \A g \in Friend, d \in Caller : /\ Calls(f)[g][d].pc = call[g][d].pc
                                             /\ Calls(f)[g][d].host = call[g][d].host
      BY <1>0, CallsTypes
    <3>3. call'[f][c] = At("dial", to, {})
      BY <2>1, <3>2
    <3>4. \A g \in Friend, d \in Caller : <<g, d>> # <<f, c>> => call'[g][d] = Calls(f)[g][d]
      BY <2>1, <3>2
    <3>5. call' \in [Friend -> [Caller -> Call]]
      BY <2>1, <3>1, <3>2
    <3>6. ASSUME NEW g \in Friend, NEW d \in Caller, call'[g][d].pc \in {"got", "dial", "wait"}
          PROVE  call'[g][d].host \in Addr
      <4>1. CASE <<g, d>> = <<f, c>>
        BY <3>1, <3>3, <4>1
      <4>2. CASE <<g, d>> # <<f, c>>
        BY <1>0, <3>2, <3>4, <3>6, <4>2, SMTT(40) DEF GoesSomewhere
      <4> QED
        BY <4>1, <4>2
    <3> QED
      BY <3>5, <3>6 DEF GoesSomewhere
  <2> QED
    BY <1>0, <2>1, <2>2, <2>3, UpdateHostDataInv, NodeInv
<1>11. ASSUME NEW f \in Friend, NEW c \in Caller,
              Find(f, c) \/ Ask(f, c) \/ AskFails(f, c) \/ Dial(f, c) \/ Reached(f, c)
       PROVE  Inv'
  <2>1. GoesSomewhere' /\ call' \in [Friend -> [Caller -> Call]]
    <3>1. CASE Find(f, c)
      <4>1. PICK i \in byFp[f] :
              call' = [call EXCEPT ![f][c] =
                         At(IF i.failed \/ i.host = Unknown THEN "ask" ELSE "dial", i.host, {})]
        BY <3>1 DEF Find
      <4>2. i.host \in Addr \cup {Unknown}
        BY <1>0 DEF Info
      <4>3. CASE i.failed \/ i.host = Unknown
        <5>1. call' = [call EXCEPT ![f][c] = At("ask", i.host, {})]
          BY <4>1, <4>3
        <5>2. At("ask", i.host, {}) \in Call /\ At("ask", i.host, {}).pc = "ask"
          BY <4>2, AtTypes
        <5> QED
          BY <5>1, <5>2, CallGoes
      <4>4. CASE ~(i.failed \/ i.host = Unknown)
        <5>1. call' = [call EXCEPT ![f][c] = At("dial", i.host, {})]
          BY <4>1, <4>4
        <5>2. At("dial", i.host, {}) \in Call /\ At("dial", i.host, {}).host \in Addr
          BY <4>2, <4>4, AtTypes
        <5> QED
          BY <5>1, <5>2, CallGoes
      <4> QED
        BY <4>3, <4>4
    <3>2. CASE Ask(f, c)
      <4>1. CASE Unanswered(f, c)
        BY <4>1, UnansweredGoes
      <4>2. ASSUME NEW r \in rv[f], call' = [call EXCEPT ![f][c] = At("got", r.host, {})]
            PROVE  GoesSomewhere' /\ call' \in [Friend -> [Caller -> Call]]
        <5>1. r.host \in Addr
          BY <1>0 DEF TypeOK, Published
        <5>2. At("got", r.host, {}) \in Call /\ At("got", r.host, {}).host \in Addr
          BY <5>1, AtTypes
        <5> QED
          BY <4>2, <5>2, CallGoes
      <4> QED
        BY <3>2, <4>1, <4>2 DEF Ask
    <3>3. CASE AskFails(f, c)
      BY <3>3, UnansweredGoes DEF AskFails
    <3>4. CASE Dial(f, c)
      <4> DEFINE to == call[f][c].host
      <4>1. to \in Addr /\ byHost[to] \in SUBSET Indexed
        BY <1>0, <3>4, CallIs DEF Dial
      <4>2. CASE byHost[to] = {}
        BY <3>4, <4>2, CallEnds DEF Dial
      <4>3. CASE byHost[to] # {}
        <5>1. call' = [call EXCEPT ![f][c] = At("wait", to, byHost[to])]
          BY <3>4, <4>3 DEF Dial
        <5>2. At("wait", to, byHost[to]) \in Call /\ At("wait", to, byHost[to]).host \in Addr
          BY <4>1, AtTypes
        <5> QED
          BY <5>1, <5>2, CallGoes
      <4> QED
        BY <4>2, <4>3
    <3>5. CASE Reached(f, c)
      <4>1. call' = [call EXCEPT ![f][c] = At("ok", call[f][c].host, {})]
        BY <1>0, <3>5 DEF Reached
      <4>2. At("ok", call[f][c].host, {}) \in Call /\ At("ok", call[f][c].host, {}).pc = "ok"
        BY CallIs, AtTypes
      <4> QED
        BY <4>1, <4>2, CallGoes
    <3> QED
      BY <1>11, <3>1, <3>2, <3>3, <3>4, <3>5
  <2>2. UNCHANGED <<server, table, byFp, byHost, astray>>
    BY <1>11 DEF Find, Ask, AskFails, Dial, Reached
  <2>3. spent' \in [{"move", "fail", "remove", "update", "restart"} -> Nat]
    BY <1>0, <1>11, SpendTypes DEF Find, Ask, AskFails, Dial, Reached
  <2> QED
    BY <1>0, <2>1, <2>2, <2>3, MapsUnchanged, NodeInv
<1>12. ASSUME NEW f \in Friend, NEW c \in Caller, NotReached(f, c) \/ DialFails(f, c)
       PROVE  Inv'
  <2>1. /\ Failed(f, c) /\ call[f][c].pc = "wait"
        /\ UNCHANGED <<server, table, byHost, astray>>
    BY <1>12 DEF NotReached, DialFails
  <2>2. spent' \in [{"move", "fail", "remove", "update", "restart"} -> Nat]
    BY <1>0, <1>12, SpendTypes DEF NotReached, DialFails
  <2> QED
    BY <1>0, <2>1, <2>2, FailedInv, NodeInv
<1>13. CASE UNCHANGED vars
  BY <1>0, <1>13, MapsUnchanged, NodeInv DEF vars, server, GoesSomewhere
<1> QED
  BY <1>1, <1>2, <1>3, <1>4, <1>5, <1>6, <1>7, <1>8, <1>9, <1>10, <1>11, <1>12, <1>13
     DEF Next, Server, Proceed

-----------------------------------------------------------------------------
(* The theorems.                                                           *)

\* It holds in every behaviour.
LEMMA Invariant == Spec => []Inv
<1>1. Init => Inv
  BY InitInv
<1>2. Inv /\ [Next]_vars => Inv'
  BY StepInv
<1> QED
  BY <1>1, <1>2, PTL DEF Spec

\* Every variable keeps its type, and the server one record of each friend at most.
THEOREM TypeCorrect == Spec => []TypeOK
<1>1. Inv => TypeOK
  BY DEF Inv
<1> QED
  BY <1>1, Invariant, PTL

\* The map by fingerprint has the friends of the table and their addresses, however
\* calls, updates, removals and restarts mix.
THEOREM MapCorrect == Spec => []MapIsTable
<1>1. Inv => MapIsTable
  BY DEF Inv
<1> QED
  BY <1>1, Invariant, PTL

\* Of any number of friends: the map by address leads from the address of a friendInfo
\* to that very friendInfo, unless another friend has been seen at the address.
THEOREM IndexCorrect == Spec => []IndexedSame
<1>1. Inv => IndexedSame
  BY DEF Inv
<1> QED
  BY <1>1, Invariant, PTL

\* A call that fails is noticed, where no other friend can take the address over.
THEOREM FailuresSeen ==
    ASSUME \A f, g \in Friend : f = g
    PROVE  Spec => []FailureIsSeen
<1>1. Inv => FailureIsSeen
  <2> SUFFICES ASSUME Inv, NEW f \in Friend \ astray, NEW i \in byFp[f], i.host # Unknown
               PROVE  byHost[i.host] = {[who |-> f, same |-> TRUE]}
    BY DEF FailureIsSeen
  <2>1. PICK o \in Indexed : byHost[i.host] = {o} /\ (o.who = f => o.same)
    BY DEF Inv, IndexedSame
  <2>2. o.who = f /\ o.same = TRUE
    BY <2>1 DEF Indexed
  <2>3. o = [who |-> f, same |-> TRUE]
    BY <2>2 DEF Indexed
  <2> QED
    BY <2>1, <2>3
<1> QED
  BY <1>1, Invariant, PTL
=============================================================================
