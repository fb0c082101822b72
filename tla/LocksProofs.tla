----------------------------- MODULE LocksProofs -----------------------------
(***************************************************************************)
(* Proofs about Locks, for every set of nodes and every bound: the types,  *)
(* that RemoveFriend leaves nothing running behind it, that the mutex lets *)
(* one writer in, and that nodes that wait in a circle wait for good.      *)
(***************************************************************************)
EXTENDS Locks, TLAPS

-----------------------------------------------------------------------------
(* The inductive invariant.                                                *)

\* A friend is removed with the mutex held for writing: no handler is inside.
JoinsAlone == \A n \in Node : op[n].pc = "join" => Readers(n) = {}

\* The mutex has one writer: RemoveFriend and AddUpdateFriend, or one looper.
OneWriter ==
    \A n, f \in Node :
      looper[n][f] = "drain" =>
        /\ op[n].pc \notin {"drain", "join"}
        /\ \A g \in Node : looper[n][g] = "drain" => g = f

\* A handler runs for a call, and the call waits for it.
CallsInside == \A n, f \in Node : hnd[f][n] # "idle" => looper[n][f] = "call"

\* A node stops when its user has no change of friends in progress.
StopsLast == \A n \in Node : op[n] # NoOp => stop[n] = "no"

\* Until a node stops, a looper is told to end by RemoveFriend alone.
ToldByRemove ==
    \A n, f \in Node :
      closing[n][f] /\ ~Ended(n, f) /\ stop[n] = "no" => op[n] = Doing("join", f)

Inv == /\ TypeOK /\ RemovedIsGone /\ JoinsAlone
       /\ OneWriter /\ CallsInside /\ StopsLast /\ ToldByRemove

-----------------------------------------------------------------------------
(* What the operators are, and what Broadcast and Break do.                *)

\* A change in progress is not the absence of one, and keeps what it is made of.
LEMMA Changes ==
    /\ NoOp.pc = "idle"
    /\ \A pc, f : Doing(pc, f).pc = pc /\ Doing(pc, f).peer = {f}
    /\ \A pc, f, qc, g : Doing(pc, f) = Doing(qc, g) => pc = qc /\ f = g
    /\ \A pc \in {"want", "drain", "join"} : \A f : Doing(pc, f) # NoOp
    /\ NoOp \in Progress
    /\ \A pc \in {"want", "drain", "join"}, f \in Node : Doing(pc, f) \in Progress
<1>1. NoOp.pc = "idle" /\ \A pc, f : Doing(pc, f).pc = pc /\ Doing(pc, f).peer = {f}
  BY DEF NoOp, Doing
<1>2. ASSUME NEW pc, NEW f, NEW qc, NEW g, Doing(pc, f) = Doing(qc, g)
      PROVE  pc = qc /\ f = g
  <2>1. Doing(pc, f).pc = Doing(qc, g).pc /\ Doing(pc, f).peer = Doing(qc, g).peer
    BY <1>2
  <2>2. pc = qc /\ {f} = {g}
    BY <1>1, <2>1
  <2> QED
    BY <2>2
<1> QED
  BY <1>1, <1>2 DEF Progress

\* A change in progress is of some friend.
LEMMA ChangeOf ==
    ASSUME TypeOK, NEW n \in Node, op[n].pc # "idle"
    PROVE  \E f \in Node : op[n] = Doing(op[n].pc, f)
<1>1. op[n] \in Progress
  BY DEF TypeOK
<1>2. PICK f \in Node, pc \in {"want", "drain", "join"} : op[n] = Doing(pc, f)
  BY <1>1, Changes DEF Progress
<1> QED
  BY <1>2, Changes

\* Broadcast wakes loopers that sleep, and moves no other.
LEMMA BroadcastMoves ==
    ASSUME TypeOK, NEW n \in Node, Broadcast(n)
    PROVE  \A m, g \in Node : \/ looper'[m][g] = looper[m][g]
                              \/ looper[m][g] = "sleep" /\ looper'[m][g] = "scan"
BY DEF TypeOK, Broadcast

\* What it leaves is of its type.
LEMMA BroadcastTypes ==
    ASSUME TypeOK, NEW n \in Node, Broadcast(n)
    PROVE  /\ todo' \in [Node -> [Node -> BOOLEAN]]
           /\ looper' \in [Node -> [Node -> {"none", "scan", "sleep", "find", "update", "drain",
                                       "dial", "call", "failed", "gone"}]]
BY DEF TypeOK, Broadcast, Ended

\* Break ends the call, and moves no other looper or handler.
LEMMA BreakMoves ==
    ASSUME TypeOK, NEW n \in Node, NEW f \in Node, Break(n, f)
    PROVE  /\ looper'[n][f] = "failed" /\ hnd'[f][n] = "idle"
           /\ \A m, g \in Node : <<m, g>> # <<n, f>> => /\ looper'[m][g] = looper[m][g]
                                                        /\ hnd'[g][m] = hnd[g][m]
BY DEF TypeOK, Break, Goto

\* The invariant survives the end of a call.
LEMMA BreakInv ==
    ASSUME Inv, NEW n \in Node, NEW f \in Node, Break(n, f),
           looper[n][f] \in {"dial", "call"},
           spent' \in [{"put", "change", "stop", "fail"} -> Nat]
    PROVE  Inv'
BY
   DEF Inv, TypeOK, RemovedIsGone, JoinsAlone, OneWriter, CallsInside, StopsLast,
       ToldByRemove, Break, Goto, Readers, Ended

-----------------------------------------------------------------------------
(* The invariant holds at first, and every step keeps it.                  *)

\* The invariant holds at the start.
LEMMA InitInv == Init => Inv
<1> SUFFICES ASSUME Init PROVE Inv
  OBVIOUS
<1>1. TypeOK
  BY Changes DEF Init, TypeOK
<1>2. \A n \in Node : op[n].pc = "idle"
  BY Changes DEF Init
<1> QED
  BY <1>1, <1>2
     DEF Init, Inv, RemovedIsGone, JoinsAlone, OneWriter, CallsInside, StopsLast,
         ToldByRemove, Ended

\* A looper that moves on, not out of a call, leaves the invariant as it is, if it
\* bars the mutex only when nobody else does.
LEMMA MoveInv ==
    ASSUME Inv, NEW n \in Node, NEW f \in Node,
           NEW pc \in {"scan", "sleep", "find", "update", "drain", "dial", "call", "gone"},
           Goto(n, f, pc),
           looper[n][f] \in {"scan", "find", "update", "drain", "dial", "failed"},
           pc = "drain" => ~Barred(n),
           todo' \in [Node -> [Node -> BOOLEAN]],
           UNCHANGED <<friend, closing, hnd, putting, op, stop, spent>>
    PROVE  Inv'
<1>1. TypeOK'
  BY DEF Inv, TypeOK, Goto
<1>2. /\ looper'[n][f] = pc
      /\ \A m, g \in Node : <<m, g>> # <<n, f>> => looper'[m][g] = looper[m][g]
  BY DEF Inv, TypeOK, Goto
<1>3. RemovedIsGone' /\ JoinsAlone' /\ CallsInside' /\ StopsLast'
  <2>1. RemovedIsGone'
    BY <1>2 DEF Inv, RemovedIsGone
  <2>2. JoinsAlone'
    BY DEF Inv, JoinsAlone, Readers
  <2>3. CallsInside'
    BY <1>2 DEF Inv, CallsInside
  <2>4. StopsLast'
    BY DEF Inv, StopsLast
  <2> QED
    BY <2>1, <2>2, <2>3, <2>4
<1>4. OneWriter'
  BY <1>2 DEF Inv, OneWriter, Barred
<1>5. ToldByRemove'
  BY <1>2 DEF Inv, ToldByRemove, Ended
<1> QED
  BY <1>1, <1>3, <1>4, <1>5 DEF Inv

\* Without effect on the loopers, only waking one, the locks are as they were.
LEMMA HandlersInv ==
    ASSUME Inv, TypeOK', UNCHANGED <<friend, closing, op, stop>>,
           \A n, f \in Node : \/ looper'[n][f] = looper[n][f]
                              \/ looper[n][f] = "sleep" /\ looper'[n][f] = "scan",
           \A n, f \in Node : \/ hnd'[f][n] = hnd[f][n]
                              \/ hnd[f][n] # "idle" /\ hnd'[f][n] = "done"
    PROVE  Inv'
<1>1. RemovedIsGone' /\ CallsInside' /\ StopsLast'
  BY DEF Inv, RemovedIsGone, CallsInside, StopsLast
<1>2. JoinsAlone'
  BY DEF Inv, JoinsAlone, Readers
<1>3. OneWriter'
  BY DEF Inv, OneWriter
<1>4. ToldByRemove'
  BY DEF Inv, ToldByRemove, Ended
<1> QED
  BY <1>1, <1>2, <1>3, <1>4 DEF Inv

\* Every step keeps it.
LEMMA StepInv == Inv /\ [Next]_vars => Inv'
<1> SUFFICES ASSUME Inv, [Next]_vars PROVE Inv'
  OBVIOUS
<1>0. TypeOK
  BY DEF Inv
<1>1. ASSUME NEW n \in Node, NEW f \in Node, Scan(n, f)
      PROVE  Inv'
  <2>1. CASE closing[n][f]
    BY <1>0, <1>1, <2>1, MoveInv DEF Scan, TypeOK
  <2>2. CASE ~closing[n][f] /\ todo[n][f]
    <3>1. /\ Goto(n, f, "find") /\ todo' = [todo EXCEPT ![n][f] = FALSE]
          /\ looper[n][f] = "scan"
          /\ UNCHANGED <<friend, closing, hnd, putting, op, stop, spent>>
      BY <1>1, <2>2 DEF Scan
    <3>2. todo' \in [Node -> [Node -> BOOLEAN]]
      BY <1>0, <3>1 DEF TypeOK
    <3> QED
      BY <3>1, <3>2, MoveInv
  <2>3. CASE ~closing[n][f] /\ ~todo[n][f]
    BY <1>0, <1>1, <2>3, MoveInv DEF Scan, TypeOK
  <2> QED
    BY <2>1, <2>2, <2>3
<1>2. ASSUME NEW n \in Node, NEW f \in Node,
             Find(n, f) \/ Announce(n, f) \/ Update(n, f) \/ Dial(n, f) \/ Retry(n, f)
      PROVE  Inv'
  <2>1. todo' \in [Node -> [Node -> BOOLEAN]]
    BY <1>0, <1>2 DEF TypeOK, Find, Announce, Update, Dial, Retry
  <2> QED
    BY <1>2, <2>1, MoveInv DEF Find, Announce, Update, Dial, Retry
<1>3. ASSUME NEW n \in Node, NEW f \in Node, NotThere(n, f)
      PROVE  Inv'
  BY <1>0, <1>3, BreakInv DEF NotThere, TypeOK
<1>4. ASSUME NEW n \in Node, NEW f \in Node, Fail(n, f)
      PROVE  Inv'
  <2>1. spent' \in [{"put", "change", "stop", "fail"} -> Nat]
    BY <1>0, <1>4 DEF Fail, Spend, TypeOK
  <2> QED
    BY <1>4, <2>1, BreakInv DEF Fail
<1>5. ASSUME NEW n \in Node, NEW f \in Node, Answer(n, f)
      PROVE  Inv'
  BY <1>5
     DEF Inv, TypeOK, RemovedIsGone, JoinsAlone, OneWriter, CallsInside, StopsLast,
         ToldByRemove, Answer, Goto, Readers, Ended
<1>6. ASSUME NEW n \in Node, NEW f \in Node, Serve(f, n)
      PROVE  Inv'
  <2>1. CASE friend[f][n]
    <3>1. looper[n][f] = "call" /\ ~Barred(f) /\ hnd' = [hnd EXCEPT ![f][n] = "locked"]
          /\ UNCHANGED <<friend, looper, closing, todo, putting, op, stop, spent>>
      BY <1>6, <2>1 DEF Serve
    <3> QED
      BY <2>1, <3>1
         DEF Inv, TypeOK, RemovedIsGone, JoinsAlone, OneWriter, CallsInside,
             StopsLast, ToldByRemove, Readers, Barred, Ended
  <2>2. CASE ~friend[f][n]
    BY <1>0, <1>6, <2>2, BreakInv DEF Serve, TypeOK
  <2> QED
    BY <2>1, <2>2
<1>7. ASSUME NEW n \in Node, NEW f \in Node, Enter(f, n)
      PROVE  Inv'
  <2>1. looper[n][f] = "call"
    BY <1>0, <1>7 DEF Inv, CallsInside, Enter
  <2>2. CASE stop[f] = "closed"
    BY <1>0, <1>7, <2>1, <2>2, BreakInv DEF Enter, TypeOK
  <2>3. CASE stop[f] # "closed"
    <3>1. hnd[f][n] = "locked" /\ hnd' = [hnd EXCEPT ![f][n] = "busy"]
          /\ UNCHANGED <<friend, looper, closing, todo, putting, op, stop, spent>>
      BY <1>7, <2>3 DEF Enter
    <3> QED
      BY <3>1
         DEF Inv, TypeOK, RemovedIsGone, JoinsAlone, OneWriter, CallsInside,
             StopsLast, ToldByRemove, Readers, Ended
  <2> QED
    BY <2>2, <2>3
<1>8. ASSUME NEW n \in Node, NEW f \in Node, Handle(f, n)
      PROVE  Inv'
  <2>1. \/ Broadcast(f) /\ Spend("put")
        \/ UNCHANGED <<todo, looper, spent>>
    BY <1>8 DEF Handle
  <2>2. \A m, g \in Node : \/ looper'[m][g] = looper[m][g]
                           \/ looper[m][g] = "sleep" /\ looper'[m][g] = "scan"
    BY <1>0, <2>1, BroadcastMoves
  <2>3. TypeOK'
    <3>1. CASE Broadcast(f) /\ Spend("put")
      BY <1>0, <1>8, <3>1, BroadcastTypes DEF TypeOK, Handle, Spend
    <3>2. CASE UNCHANGED <<todo, looper, spent>>
      BY <1>0, <1>8, <3>2 DEF TypeOK, Handle
    <3> QED
      BY <2>1, <3>1, <3>2
  <2>4. \A m, g \in Node : \/ hnd'[g][m] = hnd[g][m]
                           \/ hnd[g][m] # "idle" /\ hnd'[g][m] = "done"
    BY <1>0, <1>8 DEF TypeOK, Handle
  <2> QED
    BY <1>8, <2>2, <2>3, <2>4, HandlersInv DEF Handle
<1>9. ASSUME NEW n \in Node, PutBegin(n)
      PROVE  Inv'
  <2>1. TypeOK'
    BY <1>0, <1>9 DEF TypeOK, PutBegin, Spend
  <2> QED
    BY <1>9, <2>1, HandlersInv DEF PutBegin
<1>10. ASSUME NEW n \in Node, Put(n)
       PROVE  Inv'
  <2>1. TypeOK'
    BY <1>0, <1>10, BroadcastTypes DEF TypeOK, Put
  <2> QED
    BY <1>0, <1>10, <2>1, BroadcastMoves, HandlersInv DEF Put
<1>11. ASSUME NEW n \in Node, NEW f \in Node, ChangeBegin(n, f)
       PROVE  Inv'
  <2>1. /\ op[n] = NoOp /\ stop[n] = "no"
        /\ op' = [op EXCEPT ![n] = Doing("want", f)]
        /\ UNCHANGED <<friend, looper, closing, todo, hnd, putting, stop>>
    BY <1>11 DEF ChangeBegin
  <2>2. spent' \in [{"put", "change", "stop", "fail"} -> Nat]
    BY <1>0, <1>11 DEF ChangeBegin, Spend, TypeOK
  <2> QED
    BY <2>1, <2>2, Changes
       DEF Inv, TypeOK, RemovedIsGone, JoinsAlone, OneWriter, CallsInside,
           StopsLast, ToldByRemove, Readers, Ended
<1>12. ASSUME NEW n \in Node, ChangeAnnounce(n)
       PROVE  Inv'
  <2>1. op[n].pc = "want" /\ ~Barred(n) /\ op' = [op EXCEPT ![n].pc = "drain"]
        /\ UNCHANGED <<friend, looper, closing, todo, hnd, putting, stop, spent>>
    BY <1>12 DEF ChangeAnnounce
  <2>2. PICK f \in Node : op[n] = Doing("want", f)
    BY <1>0, <2>1, ChangeOf
  <2>3. op' = [op EXCEPT ![n] = Doing("drain", f)]
    <3>1. op' = [op EXCEPT ![n] = [op[n] EXCEPT !.pc = "drain"]]
      BY <2>1
    <3>2. [op[n] EXCEPT !.pc = "drain"] = Doing("drain", f)
      BY <2>2 DEF Doing
    <3> QED
      BY <3>1, <3>2
  <2>4. TypeOK' /\ RemovedIsGone'
    <3>1. Doing("drain", f) \in Progress
      BY Changes
    <3>2. op' \in [Node -> Progress]
      BY <1>0, <2>3, <3>1 DEF TypeOK
    <3>3. TypeOK'
      BY <1>0, <2>1, <3>2 DEF TypeOK
    <3> QED
      BY <2>1, <3>3 DEF Inv, RemovedIsGone
  <2>5. \A m \in Node : op'[m] = IF m = n THEN Doing("drain", f) ELSE op[m]
    BY <1>0, <2>3 DEF TypeOK
  <2>6. JoinsAlone' /\ CallsInside' /\ StopsLast'
    BY <2>1, <2>2, <2>5, Changes DEF Inv, JoinsAlone, CallsInside, StopsLast, Readers
  <2>7. OneWriter'
    BY <2>1, <2>5, Changes DEF Inv, OneWriter, Barred
  <2>8. ToldByRemove'
    BY <2>1, <2>2, <2>5, Changes DEF Inv, ToldByRemove, Ended
  <2> QED
    BY <2>4, <2>6, <2>7, <2>8 DEF Inv
<1>13. ASSUME NEW n \in Node, NEW f \in Node, Add(n, f)
       PROVE  Inv'
  <2>1. /\ op[n] = Doing("drain", f)
        /\ op' = [op EXCEPT ![n] = NoOp]
        /\ friend' = [friend EXCEPT ![n][f] = TRUE]
        /\ looper' = [looper EXCEPT ![n][f] = "scan"]
        /\ closing' = [closing EXCEPT ![n][f] = FALSE]
        /\ todo' = [todo EXCEPT ![n][f] = TRUE]
        /\ ~friend[n][f]
        /\ UNCHANGED <<hnd, putting, stop, spent>>
    BY <1>13 DEF Add, Goto
  <2> QED
    BY <2>1, Changes
       DEF Inv, TypeOK, RemovedIsGone, JoinsAlone, OneWriter, CallsInside,
           StopsLast, ToldByRemove, Readers, Ended
<1>14. ASSUME NEW n \in Node, NEW f \in Node, Remove(n, f)
       PROVE  Inv'
  <2>1. /\ op[n] = Doing("drain", f)
        /\ Readers(n) = {} /\ friend[n][f]
        /\ closing' = [closing EXCEPT ![n][f] = TRUE]
        /\ looper' = [looper EXCEPT ![n][f] = IF looper[n][f] = "sleep" THEN "scan" ELSE looper[n][f]]
        /\ UNCHANGED <<friend, todo, hnd, putting, stop, spent>>
    BY <1>14 DEF Remove, Tell, Goto
  <2>2. op' = [op EXCEPT ![n] = Doing("join", f)]
    <3>1. op' = [op EXCEPT ![n] = [op[n] EXCEPT !.pc = "join"]]
      BY <1>14 DEF Remove
    <3>2. [op[n] EXCEPT !.pc = "join"] = Doing("join", f)
      BY <2>1 DEF Doing
    <3> QED
      BY <3>1, <3>2
  <2> QED
    BY <2>1, <2>2, Changes
       DEF Inv, TypeOK, RemovedIsGone, JoinsAlone, OneWriter, CallsInside,
           StopsLast, ToldByRemove, Readers, Ended
<1>15. ASSUME NEW n \in Node, NEW f \in Node, Removed(n, f)
       PROVE  Inv'
  <2>1. /\ op[n] = Doing("join", f) /\ looper[n][f] = "gone"
        /\ op' = [op EXCEPT ![n] = NoOp]
        /\ friend' = [friend EXCEPT ![n][f] = FALSE]
        /\ looper' = [looper EXCEPT ![n][f] = "none"]
        /\ UNCHANGED <<closing, todo, hnd, putting, stop, spent>>
    BY <1>15 DEF Removed, Goto
  <2>2. Readers(n) = {}
    BY <2>1, Changes DEF Inv, JoinsAlone
  <2> QED
    BY <2>1, <2>2, Changes
       DEF Inv, TypeOK, RemovedIsGone, JoinsAlone, OneWriter, CallsInside,
           StopsLast, ToldByRemove, Readers, Ended
<1>16. ASSUME NEW n \in Node, StopBegin(n) \/ StopJoined(n) \/ Close(n)
       PROVE  Inv'
  <2>1. \E s \in {"join", "wait", "closed"} : stop' = [stop EXCEPT ![n] = s]
    BY <1>16 DEF StopBegin, StopJoined, Close
  <2>2. UNCHANGED <<friend, looper, closing, todo, hnd, putting, op>>
    BY <1>16 DEF StopBegin, StopJoined, Close
  <2>3. op[n] = NoOp \/ stop[n] # "no"
    BY <1>16 DEF StopBegin, StopJoined, Close
  <2>4. spent' \in [{"put", "change", "stop", "fail"} -> Nat]
    BY <1>0, <1>16 DEF StopBegin, StopJoined, Close, Spend, TypeOK
  <2>5. TypeOK'
    BY <1>0, <2>1, <2>2, <2>4 DEF TypeOK
  <2>6. \A m \in Node : stop'[m] = "no" => stop[m] = "no"
    BY <1>0, <2>1 DEF TypeOK
  <2>7. \A m \in Node : op[m] # NoOp => stop'[m] = "no"
    BY <1>0, <2>1, <2>3 DEF Inv, TypeOK, StopsLast
  <2> QED
    BY <2>2, <2>5, <2>6, <2>7
      
         DEF Inv, RemovedIsGone, JoinsAlone, OneWriter, CallsInside, StopsLast,
             ToldByRemove, Readers, Ended
<1>17. ASSUME NEW n \in Node, NEW f \in Node, StopNext(n, f)
       PROVE  Inv'
  BY <1>17
     DEF Inv, TypeOK, RemovedIsGone, JoinsAlone, OneWriter, CallsInside, StopsLast,
         ToldByRemove, StopNext, Tell, Goto, Readers, Ended
<1>18. CASE UNCHANGED vars
  BY <1>18
     DEF vars, Inv, TypeOK, RemovedIsGone, JoinsAlone, OneWriter, CallsInside,
         StopsLast, ToldByRemove, Readers, Ended
<1> QED
  BY <1>1, <1>2, <1>3, <1>4, <1>5, <1>6, <1>7, <1>8, <1>9, <1>10, <1>11, <1>12, <1>13,
     <1>14, <1>15, <1>16, <1>17, <1>18
     DEF Next, Lock, Loop, Handler, Change, Stop

-----------------------------------------------------------------------------
(* What a step may do to one looper, to one handler, to one node.          *)

\* A looper that needs the mutex of its node moves when nobody bars it, one that
\* waits for the readers when there are none; a call ends when the handler has
\* answered, when the friend refuses it, has stopped or panics, or when it fails.
LEMMA LooperSteps ==
    ASSUME Inv, Next, NEW n \in Node, NEW f \in Node
    PROVE  \/ looper'[n][f] = looper[n][f]
           \/ looper[n][f] \in {"none", "scan"} /\ looper'[n][f] # "none"
           \/ looper[n][f] \in {"sleep", "failed"} /\ looper'[n][f] = "scan"
           \/ looper[n][f] = "gone" /\ op[n] = Doing("join", f)
           \/ looper[n][f] \in {"find", "update", "dial"} /\ ~Barred(n) /\ looper'[n][f] \notin {"none", "gone"}
           \/ looper[n][f] = "drain" /\ Readers(n) = {} /\ looper'[n][f] = "dial"
           \/ /\ looper[n][f] = "call" /\ looper'[n][f] \in {"scan", "failed"}
              /\ \/ hnd[f][n] = "done" \/ stop[f] = "closed"
                 \/ hnd[f][n] = "idle" /\ (~Barred(f) \/ spent'["fail"] # spent["fail"])
<1> DEFINE Goal ==
           \/ looper'[n][f] = looper[n][f]
           \/ looper[n][f] \in {"none", "scan"} /\ looper'[n][f] # "none"
           \/ looper[n][f] \in {"sleep", "failed"} /\ looper'[n][f] = "scan"
           \/ looper[n][f] = "gone" /\ op[n] = Doing("join", f)
           \/ looper[n][f] \in {"find", "update", "dial"} /\ ~Barred(n) /\ looper'[n][f] \notin {"none", "gone"}
           \/ looper[n][f] = "drain" /\ Readers(n) = {} /\ looper'[n][f] = "dial"
           \/ /\ looper[n][f] = "call" /\ looper'[n][f] \in {"scan", "failed"}
              /\ \/ hnd[f][n] = "done" \/ stop[f] = "closed"
                 \/ hnd[f][n] = "idle" /\ (~Barred(f) \/ spent'["fail"] # spent["fail"])
<1>0. Inv /\ TypeOK
  BY DEF Inv
<1>1. ASSUME NEW m \in Node, NEW g \in Node, Scan(m, g)
      PROVE  Goal
  <2>1. \/ looper' = [looper EXCEPT ![m][g] = "gone"] \/ looper' = [looper EXCEPT ![m][g] = "find"]
        \/ looper' = [looper EXCEPT ![m][g] = "sleep"]
    BY <1>1 DEF Scan, Goto
  <2>2. looper[m][g] = "scan" /\ UNCHANGED <<hnd, closing, op, stop, spent>>
    BY <1>1 DEF Scan
  <2>3. /\ looper'[m][g] # "none"
        /\ \A o, h \in Node : <<o, h>> # <<m, g>> => looper'[o][h] = looper[o][h]
    BY <1>0, <2>1 DEF TypeOK
  <2> QED
    BY <2>2, <2>3
<1>2. ASSUME NEW m \in Node, NEW g \in Node, Find(m, g)
      PROVE  Goal
  BY <1>0, <1>2, Changes DEF Find, Goto, TypeOK, Spend, Inv, RemovedIsGone
<1>3. ASSUME NEW m \in Node, NEW g \in Node, Announce(m, g)
      PROVE  Goal
  BY <1>0, <1>3, Changes DEF Announce, Goto, TypeOK, Spend, Inv, RemovedIsGone
<1>4. ASSUME NEW m \in Node, NEW g \in Node, Update(m, g)
      PROVE  Goal
  BY <1>0, <1>4, Changes DEF Update, Goto, TypeOK, Spend, Inv, RemovedIsGone
<1>5. ASSUME NEW m \in Node, NEW g \in Node, Dial(m, g)
      PROVE  Goal
  BY <1>0, <1>5, Changes DEF Dial, Goto, TypeOK, Spend, Inv, RemovedIsGone
<1>6. ASSUME NEW m \in Node, NEW g \in Node, Retry(m, g)
      PROVE  Goal
  BY <1>0, <1>6, Changes DEF Retry, Goto, TypeOK, Spend, Inv, RemovedIsGone
<1>7. ASSUME NEW m \in Node, NEW g \in Node, NotThere(m, g)
      PROVE  Goal
  BY <1>0, <1>7, Changes DEF NotThere, Break, Goto, TypeOK, Spend, Inv, RemovedIsGone
<1>8. ASSUME NEW m \in Node, NEW g \in Node, Fail(m, g)
      PROVE  Goal
  BY <1>0, <1>8, Changes DEF Fail, Break, Goto, TypeOK, Spend, Inv, RemovedIsGone
<1>9. ASSUME NEW m \in Node, NEW g \in Node, Answer(m, g)
      PROVE  Goal
  BY <1>0, <1>9, Changes DEF Answer, Goto, TypeOK, Spend, Inv, RemovedIsGone
<1>10. ASSUME NEW m \in Node, NEW g \in Node, Serve(g, m)
      PROVE  Goal
  <2>1. \/ hnd' = [hnd EXCEPT ![g][m] = "locked"] /\ UNCHANGED <<looper, closing, op, stop, spent>>
        \/ Break(m, g) /\ UNCHANGED spent
    BY <1>10 DEF Serve
  <2>2. looper[m][g] = "call" /\ hnd[g][m] = "idle" /\ ~Barred(g)
    BY <1>10 DEF Serve
  <2>3. CASE Break(m, g) /\ UNCHANGED spent
    <3>1. UNCHANGED <<closing, op, stop>>
      BY <2>3 DEF Break
    <3> QED
      BY <1>0, <2>2, <2>3, <3>1, BreakMoves
  <2>4. CASE hnd' = [hnd EXCEPT ![g][m] = "locked"] /\ UNCHANGED <<looper, closing, op, stop, spent>>
    BY <1>0, <2>2, <2>4 DEF TypeOK
  <2> QED
    BY <2>1, <2>3, <2>4
<1>11. ASSUME NEW m \in Node, NEW g \in Node, Enter(g, m)
      PROVE  Goal
  <2>1. \/ hnd' = [hnd EXCEPT ![g][m] = "busy"] /\ UNCHANGED <<looper, closing, op, stop, spent>>
        \/ stop[g] = "closed" /\ Break(m, g) /\ UNCHANGED spent
    BY <1>11 DEF Enter
  <2>2. looper[m][g] = "call" /\ hnd[g][m] = "locked"
    BY <1>0, <1>11 DEF Inv, CallsInside, Enter
  <2>3. CASE stop[g] = "closed" /\ Break(m, g) /\ UNCHANGED spent
    <3>1. UNCHANGED <<closing, op, stop>>
      BY <2>3 DEF Break
    <3> QED
      BY <1>0, <2>2, <2>3, <3>1, BreakMoves
  <2>4. CASE hnd' = [hnd EXCEPT ![g][m] = "busy"] /\ UNCHANGED <<looper, closing, op, stop, spent>>
    BY <1>0, <2>2, <2>4 DEF TypeOK
  <2> QED
    BY <2>1, <2>3, <2>4
<1>12. ASSUME NEW m \in Node, NEW g \in Node, Handle(g, m)
      PROVE  Goal
  <2>1. Broadcast(g) \/ UNCHANGED looper
    BY <1>12 DEF Handle
  <2>2. \A o, h \in Node : \/ looper'[o][h] = looper[o][h]
                           \/ looper[o][h] = "sleep" /\ looper'[o][h] = "scan"
    BY <1>0, <2>1, BroadcastMoves
  <2> QED
    BY <1>0, <1>12, <2>2 DEF Handle, TypeOK, Spend, Inv, RemovedIsGone
<1>13. ASSUME NEW m \in Node, PutBegin(m)
      PROVE  Goal
  BY <1>0, <1>13, Changes DEF PutBegin, TypeOK, Spend, Inv, RemovedIsGone
<1>14. ASSUME NEW m \in Node, Put(m)
      PROVE  Goal
  <2>1. Broadcast(m) \/ UNCHANGED looper
    BY <1>14 DEF Put
  <2>2. \A o, h \in Node : \/ looper'[o][h] = looper[o][h]
                           \/ looper[o][h] = "sleep" /\ looper'[o][h] = "scan"
    BY <1>0, <2>1, BroadcastMoves
  <2> QED
    BY <1>0, <1>14, <2>2 DEF Put, TypeOK, Spend, Inv, RemovedIsGone
<1>15. ASSUME NEW m \in Node, NEW g \in Node, ChangeBegin(m, g)
      PROVE  Goal
  BY <1>0, <1>15, Changes DEF ChangeBegin, TypeOK, Spend, Inv, RemovedIsGone
<1>16. ASSUME NEW m \in Node, ChangeAnnounce(m)
      PROVE  Goal
  BY <1>0, <1>16, Changes DEF ChangeAnnounce, TypeOK, Spend, Inv, RemovedIsGone
<1>17. ASSUME NEW m \in Node, NEW g \in Node, Add(m, g)
      PROVE  Goal
  BY <1>0, <1>17, Changes DEF Add, Goto, TypeOK, Spend, Inv, RemovedIsGone
<1>18. ASSUME NEW m \in Node, NEW g \in Node, Remove(m, g)
      PROVE  Goal
  BY <1>0, <1>18, Changes DEF Remove, Tell, Goto, TypeOK, Spend, Inv, RemovedIsGone
<1>19. ASSUME NEW m \in Node, NEW g \in Node, Removed(m, g)
      PROVE  Goal
  BY <1>0, <1>19, Changes DEF Removed, Goto, TypeOK, Spend, Inv, RemovedIsGone
<1>20. ASSUME NEW m \in Node, StopBegin(m)
      PROVE  Goal
  BY <1>0, <1>20, Changes DEF StopBegin, TypeOK, Spend, Inv, RemovedIsGone
<1>21. ASSUME NEW m \in Node, NEW g \in Node, StopNext(m, g)
      PROVE  Goal
  BY <1>0, <1>21, Changes DEF StopNext, Tell, Goto, TypeOK, Spend, Inv, RemovedIsGone
<1>22. ASSUME NEW m \in Node, StopJoined(m)
      PROVE  Goal
  BY <1>0, <1>22, Changes DEF StopJoined, TypeOK, Spend, Inv, RemovedIsGone
<1>23. ASSUME NEW m \in Node, Close(m)
      PROVE  Goal
  BY <1>0, <1>23, Changes DEF Close, TypeOK, Spend, Inv, RemovedIsGone
<1> QED
  BY <1>1, <1>2, <1>3, <1>4, <1>5, <1>6, <1>7, <1>8, <1>9, <1>10, <1>11, <1>12, <1>13,
     <1>14, <1>15, <1>16, <1>17, <1>18, <1>19, <1>20, <1>21, <1>22, <1>23
     DEF Next, Lock, Loop, Handler, Change, Stop

\* A handler gets in when nobody bars the mutex, and comes to its end when cmut is
\* free; nothing else moves it but the end of the call it has answered.
LEMMA HandlerSteps ==
    ASSUME Inv, Next, NEW n \in Node, NEW f \in Node
    PROVE  \/ hnd'[f][n] = hnd[f][n]
           \/ hnd[f][n] = "idle" /\ ~Barred(f)
           \/ hnd[f][n] = "locked" /\ (stop[f] # "closed" => hnd'[f][n] = "busy")
           \/ hnd[f][n] = "busy" /\ CmutFree(f)
           \/ hnd[f][n] = "done"
<1> DEFINE Goal ==
           \/ hnd'[f][n] = hnd[f][n]
           \/ hnd[f][n] = "idle" /\ ~Barred(f)
           \/ hnd[f][n] = "locked" /\ (stop[f] # "closed" => hnd'[f][n] = "busy")
           \/ hnd[f][n] = "busy" /\ CmutFree(f)
           \/ hnd[f][n] = "done"
<1>0. Inv /\ TypeOK
  BY DEF Inv
<1>1. ASSUME NEW m \in Node, NEW g \in Node, Scan(m, g)
      PROVE  Goal
  <2>1. \/ looper' = [looper EXCEPT ![m][g] = "gone"] \/ looper' = [looper EXCEPT ![m][g] = "find"]
        \/ looper' = [looper EXCEPT ![m][g] = "sleep"]
    BY <1>1 DEF Scan, Goto
  <2>2. looper[m][g] = "scan" /\ UNCHANGED <<hnd, closing, op, stop, spent>>
    BY <1>1 DEF Scan
  <2>3. /\ looper'[m][g] # "none"
        /\ \A o, h \in Node : <<o, h>> # <<m, g>> => looper'[o][h] = looper[o][h]
    BY <1>0, <2>1 DEF TypeOK
  <2> QED
    BY <2>2, <2>3
<1>2. ASSUME NEW m \in Node, NEW g \in Node, Find(m, g)
      PROVE  Goal
  BY <1>0, <1>2, Changes DEF Find, Goto, TypeOK, Inv, CallsInside
<1>3. ASSUME NEW m \in Node, NEW g \in Node, Announce(m, g)
      PROVE  Goal
  BY <1>0, <1>3, Changes DEF Announce, Goto, TypeOK, Inv, CallsInside
<1>4. ASSUME NEW m \in Node, NEW g \in Node, Update(m, g)
      PROVE  Goal
  BY <1>0, <1>4, Changes DEF Update, Goto, TypeOK, Inv, CallsInside
<1>5. ASSUME NEW m \in Node, NEW g \in Node, Dial(m, g)
      PROVE  Goal
  BY <1>0, <1>5, Changes DEF Dial, Goto, TypeOK, Inv, CallsInside
<1>6. ASSUME NEW m \in Node, NEW g \in Node, Retry(m, g)
      PROVE  Goal
  BY <1>0, <1>6, Changes DEF Retry, Goto, TypeOK, Inv, CallsInside
<1>7. ASSUME NEW m \in Node, NEW g \in Node, NotThere(m, g)
      PROVE  Goal
  BY <1>0, <1>7, Changes DEF NotThere, Break, Goto, TypeOK, Inv, CallsInside
<1>8. ASSUME NEW m \in Node, NEW g \in Node, Fail(m, g)
      PROVE  Goal
  BY <1>0, <1>8, Changes DEF Fail, Break, Goto, TypeOK, Inv, CallsInside
<1>9. ASSUME NEW m \in Node, NEW g \in Node, Answer(m, g)
      PROVE  Goal
  BY <1>0, <1>9, Changes DEF Answer, Goto, TypeOK, Inv, CallsInside
<1>10. ASSUME NEW m \in Node, NEW g \in Node, Serve(g, m)
      PROVE  Goal
  <2>1. \/ hnd' = [hnd EXCEPT ![g][m] = "locked"] /\ UNCHANGED <<looper, closing, op, stop, spent>>
        \/ Break(m, g) /\ UNCHANGED spent
    BY <1>10 DEF Serve
  <2>2. looper[m][g] = "call" /\ hnd[g][m] = "idle" /\ ~Barred(g)
    BY <1>10 DEF Serve
  <2>3. CASE Break(m, g) /\ UNCHANGED spent
    <3>1. UNCHANGED <<closing, op, stop>>
      BY <2>3 DEF Break
    <3> QED
      BY <1>0, <2>2, <2>3, <3>1, BreakMoves
  <2>4. CASE hnd' = [hnd EXCEPT ![g][m] = "locked"] /\ UNCHANGED <<looper, closing, op, stop, spent>>
    BY <1>0, <2>2, <2>4 DEF TypeOK
  <2> QED
    BY <2>1, <2>3, <2>4
<1>11. ASSUME NEW m \in Node, NEW g \in Node, Enter(g, m)
      PROVE  Goal
  <2>1. \/ hnd' = [hnd EXCEPT ![g][m] = "busy"] /\ UNCHANGED <<looper, closing, op, stop, spent>>
        \/ stop[g] = "closed" /\ Break(m, g) /\ UNCHANGED spent
    BY <1>11 DEF Enter
  <2>2. looper[m][g] = "call" /\ hnd[g][m] = "locked"
    BY <1>0, <1>11 DEF Inv, CallsInside, Enter
  <2>3. CASE stop[g] = "closed" /\ Break(m, g) /\ UNCHANGED spent
    <3>1. UNCHANGED <<closing, op, stop>>
      BY <2>3 DEF Break
    <3> QED
      BY <1>0, <2>2, <2>3, <3>1, BreakMoves
  <2>4. CASE hnd' = [hnd EXCEPT ![g][m] = "busy"] /\ UNCHANGED <<looper, closing, op, stop, spent>>
    BY <1>0, <2>2, <2>4 DEF TypeOK
  <2> QED
    BY <2>1, <2>3, <2>4
<1>12. ASSUME NEW m \in Node, NEW g \in Node, Handle(g, m)
      PROVE  Goal
  <2>1. Broadcast(g) \/ UNCHANGED looper
    BY <1>12 DEF Handle
  <2>2. \A o, h \in Node : \/ looper'[o][h] = looper[o][h]
                           \/ looper[o][h] = "sleep" /\ looper'[o][h] = "scan"
    BY <1>0, <2>1, BroadcastMoves
  <2> QED
    BY <1>0, <1>12, <2>2 DEF Handle, TypeOK, Inv, CallsInside
<1>13. ASSUME NEW m \in Node, PutBegin(m)
      PROVE  Goal
  BY <1>0, <1>13, Changes DEF PutBegin, TypeOK, Inv, CallsInside
<1>14. ASSUME NEW m \in Node, Put(m)
      PROVE  Goal
  <2>1. Broadcast(m) \/ UNCHANGED looper
    BY <1>14 DEF Put
  <2>2. \A o, h \in Node : \/ looper'[o][h] = looper[o][h]
                           \/ looper[o][h] = "sleep" /\ looper'[o][h] = "scan"
    BY <1>0, <2>1, BroadcastMoves
  <2> QED
    BY <1>0, <1>14, <2>2 DEF Put, TypeOK, Inv, CallsInside
<1>15. ASSUME NEW m \in Node, NEW g \in Node, ChangeBegin(m, g)
      PROVE  Goal
  BY <1>0, <1>15, Changes DEF ChangeBegin, TypeOK, Inv, CallsInside
<1>16. ASSUME NEW m \in Node, ChangeAnnounce(m)
      PROVE  Goal
  BY <1>0, <1>16, Changes DEF ChangeAnnounce, TypeOK, Inv, CallsInside
<1>17. ASSUME NEW m \in Node, NEW g \in Node, Add(m, g)
      PROVE  Goal
  BY <1>0, <1>17, Changes DEF Add, Goto, TypeOK, Inv, CallsInside
<1>18. ASSUME NEW m \in Node, NEW g \in Node, Remove(m, g)
      PROVE  Goal
  BY <1>0, <1>18, Changes DEF Remove, Tell, Goto, TypeOK, Inv, CallsInside
<1>19. ASSUME NEW m \in Node, NEW g \in Node, Removed(m, g)
      PROVE  Goal
  BY <1>0, <1>19, Changes DEF Removed, Goto, TypeOK, Inv, CallsInside
<1>20. ASSUME NEW m \in Node, StopBegin(m)
      PROVE  Goal
  BY <1>0, <1>20, Changes DEF StopBegin, TypeOK, Inv, CallsInside
<1>21. ASSUME NEW m \in Node, NEW g \in Node, StopNext(m, g)
      PROVE  Goal
  BY <1>0, <1>21, Changes DEF StopNext, Tell, Goto, TypeOK, Inv, CallsInside
<1>22. ASSUME NEW m \in Node, StopJoined(m)
      PROVE  Goal
  BY <1>0, <1>22, Changes DEF StopJoined, TypeOK, Inv, CallsInside
<1>23. ASSUME NEW m \in Node, Close(m)
      PROVE  Goal
  BY <1>0, <1>23, Changes DEF Close, TypeOK, Inv, CallsInside
<1> QED
  BY <1>1, <1>2, <1>3, <1>4, <1>5, <1>6, <1>7, <1>8, <1>9, <1>10, <1>11, <1>12, <1>13,
     <1>14, <1>15, <1>16, <1>17, <1>18, <1>19, <1>20, <1>21, <1>22, <1>23
     DEF Next, Lock, Loop, Handler, Change, Stop

\* A removal ends when the looper is gone, and the joining of Stop when all are; a
\* looper told to end stays told until the friend is added again.
LEMMA NodeSteps ==
    ASSUME Inv, Next, NEW n \in Node
    PROVE  /\ \/ op'[n] = op[n]
              \/ op[n] = NoOp /\ stop[n] = "no"
              \/ \E f \in Node : op[n] = Doing("join", f) /\ looper[n][f] = "gone"
              \/ op[n].pc \in {"want", "drain"}
           /\ \/ stop'[n] = stop[n]
              \/ stop[n] = "no" /\ op[n] = NoOp
              \/ stop[n] = "join" /\ \A f \in Node : Ended(n, f)
              \/ stop[n] = "wait"
           /\ \A f \in Node : \/ closing[n][f] => closing'[n][f]
                              \/ op[n] = Doing("drain", f)
<1> DEFINE Goal ==
           /\ \/ op'[n] = op[n]
              \/ op[n] = NoOp /\ stop[n] = "no"
              \/ \E f \in Node : op[n] = Doing("join", f) /\ looper[n][f] = "gone"
              \/ op[n].pc \in {"want", "drain"}
           /\ \/ stop'[n] = stop[n]
              \/ stop[n] = "no" /\ op[n] = NoOp
              \/ stop[n] = "join" /\ \A f \in Node : Ended(n, f)
              \/ stop[n] = "wait"
           /\ \A f \in Node : \/ closing[n][f] => closing'[n][f]
                              \/ op[n] = Doing("drain", f)
<1>0. Inv /\ TypeOK
  BY DEF Inv
<1>1. ASSUME NEW m \in Node, NEW g \in Node, Scan(m, g)
      PROVE  Goal
  <2>1. \/ looper' = [looper EXCEPT ![m][g] = "gone"] \/ looper' = [looper EXCEPT ![m][g] = "find"]
        \/ looper' = [looper EXCEPT ![m][g] = "sleep"]
    BY <1>1 DEF Scan, Goto
  <2>2. looper[m][g] = "scan" /\ UNCHANGED <<hnd, closing, op, stop, spent>>
    BY <1>1 DEF Scan
  <2>3. /\ looper'[m][g] # "none"
        /\ \A o, h \in Node : <<o, h>> # <<m, g>> => looper'[o][h] = looper[o][h]
    BY <1>0, <2>1 DEF TypeOK
  <2> QED
    BY <2>2, <2>3
<1>2. ASSUME NEW m \in Node, NEW g \in Node, Find(m, g)
      PROVE  Goal
  BY <1>0, <1>2, Changes DEF Find, Goto, TypeOK
<1>3. ASSUME NEW m \in Node, NEW g \in Node, Announce(m, g)
      PROVE  Goal
  BY <1>0, <1>3, Changes DEF Announce, Goto, TypeOK
<1>4. ASSUME NEW m \in Node, NEW g \in Node, Update(m, g)
      PROVE  Goal
  BY <1>0, <1>4, Changes DEF Update, Goto, TypeOK
<1>5. ASSUME NEW m \in Node, NEW g \in Node, Dial(m, g)
      PROVE  Goal
  BY <1>0, <1>5, Changes DEF Dial, Goto, TypeOK
<1>6. ASSUME NEW m \in Node, NEW g \in Node, Retry(m, g)
      PROVE  Goal
  BY <1>0, <1>6, Changes DEF Retry, Goto, TypeOK
<1>7. ASSUME NEW m \in Node, NEW g \in Node, NotThere(m, g)
      PROVE  Goal
  BY <1>0, <1>7, Changes DEF NotThere, Break, Goto, TypeOK
<1>8. ASSUME NEW m \in Node, NEW g \in Node, Fail(m, g)
      PROVE  Goal
  BY <1>0, <1>8, Changes DEF Fail, Break, Goto, TypeOK
<1>9. ASSUME NEW m \in Node, NEW g \in Node, Answer(m, g)
      PROVE  Goal
  BY <1>0, <1>9, Changes DEF Answer, Goto, TypeOK
<1>10. ASSUME NEW m \in Node, NEW g \in Node, Serve(g, m)
      PROVE  Goal
  <2>1. \/ hnd' = [hnd EXCEPT ![g][m] = "locked"] /\ UNCHANGED <<looper, closing, op, stop, spent>>
        \/ Break(m, g) /\ UNCHANGED spent
    BY <1>10 DEF Serve
  <2>2. looper[m][g] = "call" /\ hnd[g][m] = "idle" /\ ~Barred(g)
    BY <1>10 DEF Serve
  <2>3. CASE Break(m, g) /\ UNCHANGED spent
    <3>1. UNCHANGED <<closing, op, stop>>
      BY <2>3 DEF Break
    <3> QED
      BY <1>0, <2>2, <2>3, <3>1, BreakMoves
  <2>4. CASE hnd' = [hnd EXCEPT ![g][m] = "locked"] /\ UNCHANGED <<looper, closing, op, stop, spent>>
    BY <1>0, <2>2, <2>4 DEF TypeOK
  <2> QED
    BY <2>1, <2>3, <2>4
<1>11. ASSUME NEW m \in Node, NEW g \in Node, Enter(g, m)
      PROVE  Goal
  <2>1. \/ hnd' = [hnd EXCEPT ![g][m] = "busy"] /\ UNCHANGED <<looper, closing, op, stop, spent>>
        \/ stop[g] = "closed" /\ Break(m, g) /\ UNCHANGED spent
    BY <1>11 DEF Enter
  <2>2. looper[m][g] = "call" /\ hnd[g][m] = "locked"
    BY <1>0, <1>11 DEF Inv, CallsInside, Enter
  <2>3. CASE stop[g] = "closed" /\ Break(m, g) /\ UNCHANGED spent
    <3>1. UNCHANGED <<closing, op, stop>>
      BY <2>3 DEF Break
    <3> QED
      BY <1>0, <2>2, <2>3, <3>1, BreakMoves
  <2>4. CASE hnd' = [hnd EXCEPT ![g][m] = "busy"] /\ UNCHANGED <<looper, closing, op, stop, spent>>
    BY <1>0, <2>2, <2>4 DEF TypeOK
  <2> QED
    BY <2>1, <2>3, <2>4
<1>12. ASSUME NEW m \in Node, NEW g \in Node, Handle(g, m)
      PROVE  Goal
  <2>1. Broadcast(g) \/ UNCHANGED looper
    BY <1>12 DEF Handle
  <2>2. \A o, h \in Node : \/ looper'[o][h] = looper[o][h]
                           \/ looper[o][h] = "sleep" /\ looper'[o][h] = "scan"
    BY <1>0, <2>1, BroadcastMoves
  <2> QED
    BY <1>0, <1>12, <2>2 DEF Handle, TypeOK
<1>13. ASSUME NEW m \in Node, PutBegin(m)
      PROVE  Goal
  BY <1>0, <1>13, Changes DEF PutBegin, TypeOK
<1>14. ASSUME NEW m \in Node, Put(m)
      PROVE  Goal
  <2>1. Broadcast(m) \/ UNCHANGED looper
    BY <1>14 DEF Put
  <2>2. \A o, h \in Node : \/ looper'[o][h] = looper[o][h]
                           \/ looper[o][h] = "sleep" /\ looper'[o][h] = "scan"
    BY <1>0, <2>1, BroadcastMoves
  <2> QED
    BY <1>0, <1>14, <2>2 DEF Put, TypeOK
<1>15. ASSUME NEW m \in Node, NEW g \in Node, ChangeBegin(m, g)
      PROVE  Goal
  BY <1>0, <1>15, Changes DEF ChangeBegin, TypeOK
<1>16. ASSUME NEW m \in Node, ChangeAnnounce(m)
      PROVE  Goal
  BY <1>0, <1>16, Changes DEF ChangeAnnounce, TypeOK
<1>17. ASSUME NEW m \in Node, NEW g \in Node, Add(m, g)
      PROVE  Goal
  BY <1>0, <1>17, Changes DEF Add, Goto, TypeOK
<1>18. ASSUME NEW m \in Node, NEW g \in Node, Remove(m, g)
      PROVE  Goal
  BY <1>0, <1>18, Changes DEF Remove, Tell, Goto, TypeOK
<1>19. ASSUME NEW m \in Node, NEW g \in Node, Removed(m, g)
      PROVE  Goal
  BY <1>0, <1>19, Changes DEF Removed, Goto, TypeOK
<1>20. ASSUME NEW m \in Node, StopBegin(m)
      PROVE  Goal
  BY <1>0, <1>20, Changes DEF StopBegin, TypeOK
<1>21. ASSUME NEW m \in Node, NEW g \in Node, StopNext(m, g)
      PROVE  Goal
  BY <1>0, <1>21, Changes DEF StopNext, Tell, Goto, TypeOK
<1>22. ASSUME NEW m \in Node, StopJoined(m)
      PROVE  Goal
  BY <1>0, <1>22, Changes DEF StopJoined, TypeOK
<1>23. ASSUME NEW m \in Node, Close(m)
      PROVE  Goal
  BY <1>0, <1>23, Changes DEF Close, TypeOK
<1> QED
  BY <1>1, <1>2, <1>3, <1>4, <1>5, <1>6, <1>7, <1>8, <1>9, <1>10, <1>11, <1>12, <1>13,
     <1>14, <1>15, <1>16, <1>17, <1>18, <1>19, <1>20, <1>21, <1>22, <1>23
     DEF Next, Lock, Loop, Handler, Change, Stop

-----------------------------------------------------------------------------
(* Circles.                                                                *)

\* A node that joins has not stopped, and removes a friend or stops.
LEMMA JoinsOpen ==
    ASSUME Inv, NEW n \in Node, NEW f \in Node, Joins(n, f)
    PROVE  /\ closing[n][f] /\ looper[n][f] \notin {"none", "gone"} /\ ~CmutFree(n)
           /\ \/ stop[n] = "no" /\ op[n] = Doing("join", f)
              \/ stop[n] = "join" /\ op[n] = NoOp
<1>1. /\ TypeOK /\ closing[n][f] /\ looper[n][f] \notin {"none", "gone"} /\ ~CmutFree(n)
      /\ op[n].pc = "join" \/ stop[n] = "join"
  BY DEF Inv, Joins, Ended, CmutFree
<1>2. stop[n] = "join" => op[n] = NoOp
  BY DEF Inv, StopsLast
<1>3. op[n].pc = "join" => stop[n] = "no"
  BY Changes DEF Inv, StopsLast
<1>4. stop[n] = "no" => op[n] = Doing("join", f)
  BY <1>1 DEF Inv, ToldByRemove, Ended
<1> QED
  BY <1>1, <1>2, <1>3, <1>4

\* A looper only ends at "scan": until then its node goes on joining.
LEMMA JoinsStay ==
    ASSUME Inv, Next, NEW n \in Node, NEW f \in Node, Joins(n, f), looper[n][f] # "scan"
    PROVE  Joins(n, f)' /\ stop'[n] = stop[n] /\ op'[n] = op[n]
<1>1. /\ closing[n][f] /\ looper[n][f] \notin {"none", "gone"}
      /\ \/ stop[n] = "no" /\ op[n] = Doing("join", f)
         \/ stop[n] = "join" /\ op[n] = NoOp
  BY JoinsOpen
<1>2. looper'[n][f] \notin {"none", "gone"}
  BY <1>1, LooperSteps
<1>3. op'[n] = op[n]
  <2>1. CASE op[n] = Doing("join", f)
    BY <1>1, <2>1, NodeSteps, Changes
  <2>2. CASE stop[n] = "join" /\ op[n] = NoOp
    BY <1>1, <2>2, NodeSteps, Changes
  <2> QED
    BY <1>1, <2>1, <2>2
<1>4. stop'[n] = stop[n]
  BY <1>1, NodeSteps, Changes DEF Ended
<1>5. closing'[n][f]
  BY <1>1, NodeSteps, Changes
<1> QED
  BY <1>1, <1>2, <1>3, <1>4, <1>5, Changes DEF Joins, Ended, CmutFree

\* Who is held up stays so while the node joins.
LEMMA HeldUpStays ==
    ASSUME Inv, Next, NEW n \in Node, NEW f \in Node, Joins(n, f), looper[n][f] # "scan",
           HeldUp(n)
    PROVE  HeldUp(n)'
<1>1. op'[n] = op[n] /\ stop[n] # "closed" /\ ~CmutFree(n)
  BY JoinsOpen, JoinsStay
<1>2. CASE op[n].pc = "join"
  BY <1>1, <1>2 DEF HeldUp
<1>3. CASE Readers(n) # {} /\ \E g \in Node : looper[n][g] = "drain"
  <2>1. PICK g \in Node : looper[n][g] = "drain"
    BY <1>3
  <2>2. looper'[n][g] = "drain"
    BY <1>3, <2>1, LooperSteps
  <2>3. PICK m \in Node : hnd[n][m] \in {"locked", "busy"}
    BY <1>3 DEF Readers
  <2>4. hnd'[n][m] \in {"locked", "busy"}
    BY <1>1, <2>3, HandlerSteps
  <2> QED
    BY <2>2, <2>4 DEF HeldUp, Readers
<1> QED
  BY <1>2, <1>3 DEF HeldUp

\* Nobody gets a mutex that is held up.
LEMMA HeldUpBars ==
    ASSUME NEW n \in Node, HeldUp(n) PROVE Barred(n)
BY DEF HeldUp, Barred

\* A node that waits for itself goes on doing so.
LEMMA ItselfStays ==
    ASSUME Inv, Next, NEW n \in Node, NEW f \in Node, WaitsForItself(n, f)
    PROVE  WaitsForItself(n, f)'
<1>1. /\ Joins(n, f) /\ HeldUp(n) /\ Barred(n)
      /\ looper[n][f] \in {"find", "update", "drain", "dial"}
  BY HeldUpBars DEF WaitsForItself
<1>2. Joins(n, f)' /\ HeldUp(n)'
  BY <1>1, JoinsStay, HeldUpStays
<1>3. looper[n][f] = "drain" => Readers(n) # {}
  BY <1>1 DEF HeldUp, Inv, OneWriter
<1>4. looper'[n][f] = looper[n][f]
  BY <1>1, <1>3, LooperSteps
<1> QED
  BY <1>1, <1>2, <1>4 DEF WaitsForItself

\* A node that waits for a friend goes on doing so while the friend joins for good.
LEMMA FriendStays ==
    ASSUME Inv, Next, spent'["fail"] = spent["fail"],
           NEW n \in Node, NEW f \in Node, WaitsForFriend(n, f),
           NEW g \in Node, Joins(f, g), looper[f][g] # "scan"
    PROVE  WaitsForFriend(n, f)'
<1>1. /\ Joins(n, f) /\ looper[n][f] = "call"
      /\ hnd[f][n] = "busy" \/ (hnd[f][n] = "idle" /\ HeldUp(f))
  BY DEF WaitsForFriend
<1>2. Joins(n, f)' /\ Joins(f, g)'
  BY <1>1, JoinsStay
<1>3. stop[f] # "closed" /\ ~CmutFree(f)
  BY JoinsOpen
<1>4. looper'[n][f] = "call"
  BY <1>1, <1>3, HeldUpBars, LooperSteps
<1>5. hnd'[f][n] = hnd[f][n]
  BY <1>1, <1>3, HeldUpBars, HandlerSteps
<1>6. HeldUp(f) => HeldUp(f)'
  BY HeldUpStays
<1> QED
  BY <1>1, <1>2, <1>4, <1>5, <1>6 DEF WaitsForFriend

\* The nodes of a circle go on waiting in it.
LEMMA CircleStep ==
    ASSUME Inv, [Next]_vars, spent'["fail"] = spent["fail"], Circle
    PROVE  Circle'
<1>1. PICK S \in SUBSET Node \ {{}} : \A n \in S :
        \E f \in Node : WaitsForItself(n, f) \/ (f \in S /\ WaitsForFriend(n, f))
  BY DEF Circle
<1>2. CASE UNCHANGED vars
  BY <1>2
     DEF vars, Circle, WaitsForItself, WaitsForFriend, Joins, HeldUp, Readers, Ended,
         CmutFree
<1>3. CASE Next
  <2>1. ASSUME NEW n \in S
        PROVE  \E f \in Node : Joins(n, f) /\ looper[n][f] # "scan"
    BY <1>1 DEF WaitsForItself, WaitsForFriend
  <2>2. ASSUME NEW n \in S
        PROVE  \E f \in Node : WaitsForItself(n, f)' \/ (f \in S /\ WaitsForFriend(n, f)')
    <3>1. PICK f \in Node : WaitsForItself(n, f) \/ (f \in S /\ WaitsForFriend(n, f))
      BY <1>1
    <3>2. CASE WaitsForItself(n, f)
      BY <1>3, <3>2, ItselfStays
    <3>3. CASE f \in S /\ WaitsForFriend(n, f)
      <4>1. PICK g \in Node : Joins(f, g) /\ looper[f][g] # "scan"
        BY <2>1, <3>3
      <4> QED
        BY <1>3, <3>3, <4>1, FriendStays
    <3> QED
      BY <3>1, <3>2, <3>3
  <2> QED
    BY <2>2 DEF Circle
<1> QED
  BY <1>2, <1>3

-----------------------------------------------------------------------------
(* The theorems.                                                           *)

\* It holds in every behaviour.
LEMMA Invariant == Spec => []Inv
<1>1. Init => Inv
  BY InitInv
<1>2. Inv /\ [Next]_vars => Inv'
  BY StepInv
<1> QED
  BY <1>1, <1>2, PTL DEF Spec

\* Every variable keeps its type, whatever nodes, bounds and interleavings.
THEOREM TypeCorrect == Spec => []TypeOK
<1>1. Inv => TypeOK
  BY DEF Inv
<1> QED
  BY <1>1, Invariant, PTL

\* RemoveFriend leaves no looper, and no handler in progress, behind.
THEOREM RemovalCorrect == Spec => []RemovedIsGone
<1>1. Inv => RemovedIsGone
  BY DEF Inv
<1> QED
  BY <1>1, Invariant, PTL

\* Nodes that wait in a circle do so until the network fails, however many they are.
THEOREM CirclesLast == Spec => CircleStays
<1>1. Inv /\ [Next]_vars => [Circle /\ spent'["fail"] = spent["fail"] => Circle']_vars
  BY CircleStep
<1> QED
  BY <1>1, Invariant, PTL DEF Spec, CircleStays

=============================================================================
