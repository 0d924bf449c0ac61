--------------------------- MODULE FrontDeskProofs ---------------------------
(***************************************************************************)
(* Theorems about FrontDesk for every set of reservations, rooms and       *)
(* request slots, however many requests are in flight.  Types come first,  *)
(* with the fact they need: a request that has read a row refers to one    *)
(* that exists, since rows are never deleted.  Then the optimistic lock,   *)
(* what the desk guarantees because of it, the lifecycle of a reservation  *)
(* among it, and the book of reservations, which it implements only with   *)
(* one clerk and one booker.                                               *)
(***************************************************************************)
EXTENDS FrontDesk, TLAPS

\* The slots that have read a reservation row and will come back to it.
ReadersHaveRow ==
    \A w \in Slots : req[w].pc \notin {"idle", "insert"} => res[req[w].r] \in Row

TypeInv == TypeOK /\ ReadersHaveRow

LEMMA WrittenType ==
    ASSUME NEW row \in Row, NEW status \in Status, NEW stay \in Row \cup Stay
    PROVE  Written(row, status, stay) \in Row
  BY DEF Row, Stay, Written

LEMMA TypeInvInit == Init => TypeInv
  BY DEF Init, TypeInv, TypeOK, ReadersHaveRow, Request, RoomRow, Idle

\* What a slot's local variables hold while it awaits its write.
LEMMA ReaderType ==
    ASSUME TypeInv, NEW w \in Slots, req[w].pc \notin {"idle", "insert"}
    PROVE  /\ req[w].r \in Reservation
           /\ res[req[w].r] \in Row
           /\ req[w].pc \in {"recheck", "rewrite"} => req[w].stay \in Stay
           /\ req[w].pc = "set_status" => req[w].target \in Status
           /\ req[w].pc # "details" => req[w].seen \in Row
  BY DEF TypeInv, TypeOK, ReadersHaveRow, Request, Idle

\* A request that writes back the row it referred to, and ends, keeps the types.
LEMMA WriteKeepsTypes ==
    ASSUME TypeInv, NEW w \in Slots, NEW row \in Row,
           req[w].pc \notin {"idle", "insert"},
           res' = [res EXCEPT ![req[w].r] = row],
           Finish(w)
    PROVE  /\ res' \in [Reservation -> Row \cup {NoRow}]
           /\ req' \in [Slots -> Request]
           /\ ReadersHaveRow'
  <1>1. req[w].r \in Reservation
    BY ReaderType
  <1>2. res' \in [Reservation -> Row \cup {NoRow}]
    BY <1>1 DEF TypeInv, TypeOK
  <1>3. req' \in [Slots -> Request]
    BY DEF TypeInv, TypeOK, Finish, Request
  <1>4. ASSUME NEW v \in Slots, req'[v].pc \notin {"idle", "insert"}
        PROVE  res'[req'[v].r] \in Row
    <2>1. v # w /\ req'[v] = req[v]
      BY <1>4 DEF Finish, Idle, TypeInv, TypeOK
    <2>2. res[req[v].r] \in Row /\ req[v].r \in Reservation
      BY <2>1, <1>4, ReaderType
    <2>3. QED
      BY <2>1, <2>2, <1>1 DEF TypeInv, TypeOK
  <1>5. QED
    BY <1>2, <1>3, <1>4 DEF ReadersHaveRow

LEMMA TypeInvBook ==
    ASSUME TypeInv, NEW w \in Bookers, Book(w)
    PROVE  TypeInv'
  <1> USE DEF TypeInv
  <1>1. w \in Slots
    BY DEF Slots
  <1>2. ASSUME NEW stay \in Stay, NEW origin \in {"staff", "website"}, FindFree(w, stay, origin)
        PROVE  TypeInv'
    BY <1>1, <1>2 DEF FindFree, Await, tables, TypeOK, ReadersHaveRow, Request, Idle
  <1>3. ASSUME NEW r \in Reservation, Insert(w, r)
        PROVE  TypeInv'
    BY <1>1, <1>3 DEF Insert, Finish, TypeOK, ReadersHaveRow, Request, Idle, Row, Stay, NoRow, Status
  <1>4. ASSUME NEW r \in Reservation, NEW stay \in Stay, ReadForMove(w, r, stay)
        PROVE  TypeInv'
    BY <1>1, <1>4 DEF ReadForMove, ReadForUpdate, Editable, Await, tables, TypeOK, ReadersHaveRow, Request, Idle
  <1>5. ASSUME NEW r \in Reservation, ReadForDetails(w, r)
        PROVE  TypeInv'
    BY <1>1, <1>5 DEF ReadForDetails, ReadForUpdate, Editable, Await, tables, TypeOK, ReadersHaveRow, Request, Idle
  <1>6. CASE Recheck(w)
    <2>1. req[w].pc = "recheck" /\ res' = res
      BY <1>6 DEF Recheck, tables
    <2>2. /\ req[w].r \in Reservation /\ res[req[w].r] \in Row
          /\ req[w].seen \in Row /\ req[w].stay \in Stay
      BY <1>1, <2>1, ReaderType
    <2>3. PICK memory \in Request :
            /\ req' = [req EXCEPT ![w] = memory]
            /\ memory.pc # "idle" => memory.r = req[w].r
      BY <1>6, <2>2 DEF Recheck, Finish, Request, Idle
    <2>4. ReadersHaveRow'
      BY <1>1, <2>1, <2>2, <2>3 DEF ReadersHaveRow, TypeOK
    <2>5. QED
      BY <1>6, <2>3, <2>4 DEF Recheck, tables, TypeOK
  <1>7. CASE Rewrite(w)
    <2>1. req[w].pc = "rewrite" /\ Finish(w)
      BY <1>7 DEF Rewrite
    <2>2. /\ req[w].stay \in Stay
          /\ res[req[w].r] \in Row
      BY <1>1, <2>1, ReaderType
    <2>3. PICK row \in Row : res' = [res EXCEPT ![req[w].r] = row]
      <3>1. CASE Unchanged(w)
        <4>1. Written(res[req[w].r], res[req[w].r].status, req[w].stay) \in Row
          BY <2>2, WrittenType DEF Row
        <4>2. QED
          BY <4>1, <3>1, <1>7 DEF Rewrite
      <3>2. CASE ~Unchanged(w)
        BY <3>2, <1>7, <2>2 DEF Rewrite, TypeOK
      <3>3. QED
        BY <3>1, <3>2
    <2>4. QED
      BY <1>1, <1>7, <2>1, <2>3, WriteKeepsTypes DEF Rewrite, TypeOK
  <1>8. CASE WriteDetails(w)
    <2>1. req[w].pc = "details" /\ Finish(w)
      BY <1>8 DEF WriteDetails
    <2>2. Written(res[req[w].r], res[req[w].r].status, res[req[w].r]) \in Row
      <3>1. res[req[w].r] \in Row
        BY <1>1, <2>1, ReaderType
      <3>2. QED
        BY <3>1, WrittenType DEF Row
    <2>3. QED
      BY <1>1, <1>8, <2>1, <2>2, WriteKeepsTypes DEF WriteDetails, TypeOK
  <1>9. QED
    BY <1>2, <1>3, <1>4, <1>5, <1>6, <1>7, <1>8 DEF Book

LEMMA TypeInvServe ==
    ASSUME TypeInv, NEW w \in Clerks, Serve(w)
    PROVE  TypeInv'
  <1> USE DEF TypeInv
  <1>1. w \in Slots
    BY DEF Slots
  <1>2. ASSUME NEW r \in Reservation, NEW target \in Status, ReadForStatus(w, r, target)
        PROVE  TypeInv'
    BY <1>1, <1>2 DEF ReadForStatus, Editable, Await, tables, TypeOK, ReadersHaveRow, Request, Idle
  <1>3. ASSUME NEW r \in Reservation, ReadForCancel(w, r)
        PROVE  TypeInv'
    BY <1>2, <1>3 DEF ReadForCancel, Status
  <1>4. ASSUME NEW r \in Reservation, ReadForCheckIn(w, r)
        PROVE  TypeInv'
    BY <1>1, <1>4 DEF ReadForCheckIn, Editable, Await, tables, TypeOK, ReadersHaveRow, Request, Idle
  <1>5. ASSUME NEW r \in Reservation, ReadForCheckOut(w, r)
        PROVE  TypeInv'
    BY <1>1, <1>5 DEF ReadForCheckOut, Editable, Await, tables, TypeOK, ReadersHaveRow, Request, Idle
  <1>6. CASE WriteStatus(w)
    <2>1. req[w].pc = "set_status" /\ Finish(w)
      BY <1>6 DEF WriteStatus
    <2>2. Written(res[req[w].r], req[w].target, res[req[w].r]) \in Row
      BY <1>1, <2>1, ReaderType, WrittenType
    <2>3. overtaken' \subseteq Reservation
      BY <1>1, <1>6, <2>1, ReaderType DEF WriteStatus, MarkOvertaken, TypeOK
    <2>4. QED
      BY <1>1, <1>6, <2>1, <2>2, <2>3, WriteKeepsTypes DEF WriteStatus, TypeOK
  <1>7. CASE ConfirmFirst(w)
    <2>1. req[w].pc = "confirm"
      BY <1>7 DEF ConfirmFirst
    <2>2. req[w].r \in Reservation /\ res[req[w].r] \in Row /\ req[w].seen \in Row
      BY <1>1, <2>1, ReaderType
    <2>3. PICK row \in Row, seen \in Row :
            /\ res' = [res EXCEPT ![req[w].r] = row]
            /\ req' = [req EXCEPT ![w] = [pc |-> "admit", r |-> req[w].r, seen |-> seen]]
      <3>1. "confirmed" \in Status
        BY DEF Status
      <3>2. /\ Written(res[req[w].r], "confirmed", res[req[w].r]) \in Row
            /\ Written(res[req[w].r], "confirmed", req[w].seen) \in Row
        BY <2>2, <3>1, WrittenType
      <3>3. QED
        BY <1>7, <3>2 DEF ConfirmFirst
    <2>4. res' \in [Reservation -> Row \cup {NoRow}] /\ req' \in [Slots -> Request]
      BY <2>2, <2>3 DEF TypeOK, Request
    <2>5. ReadersHaveRow'
      <3> SUFFICES ASSUME NEW v \in Slots, req'[v].pc \notin {"idle", "insert"}
                   PROVE  res'[req'[v].r] \in Row
        BY DEF ReadersHaveRow
      <3>1. req'[v].r = req[v].r /\ req[v].pc \notin {"idle", "insert"}
        BY <1>1, <2>1, <2>3 DEF TypeOK
      <3>2. req[v].r \in Reservation /\ res[req[v].r] \in Row
        BY <3>1, ReaderType
      <3>3. QED
        BY <2>3, <3>1, <3>2 DEF TypeOK
    <2>6. overtaken' \subseteq Reservation
      BY <1>7, <2>2 DEF ConfirmFirst, MarkOvertaken, TypeOK
    <2>7. QED
      BY <1>7, <2>4, <2>5, <2>6 DEF ConfirmFirst, TypeOK
  <1>8. CASE Admit(w)
    <2>1. req[w].pc = "admit" /\ Finish(w)
      BY <1>8 DEF Admit
    <2>2. req[w].r \in Reservation /\ res[req[w].r] \in Row /\ req[w].seen \in Row
      BY <1>1, <2>1, ReaderType
    <2>3. PICK row \in Row : res' = [res EXCEPT ![req[w].r] = row]
      <3>1. Written(res[req[w].r], "checked_in", res[req[w].r]) \in Row
        BY <2>2, WrittenType DEF Status
      <3>2. QED
        BY <1>8, <2>2, <3>1 DEF Admit, TypeOK
    <2>4. PICK roomRow \in RoomRow : room' = [room EXCEPT ![req[w].seen.room] = roomRow]
      <3>1. room[req[w].seen.room] \in RoomRow
        BY <2>2 DEF TypeOK, Row
      <3>2. [status |-> "occupied", cleaning |-> room[req[w].seen.room].cleaning] \in RoomRow
        BY <3>1 DEF RoomRow
      <3>3. QED
        BY <1>8, <3>1, <3>2 DEF Admit, TypeOK
    <2>5. checkIns' \subseteq Reservation /\ invoiced' \subseteq Reservation
      BY <1>8, <2>2 DEF Admit, TypeOK
    <2>6. checkOuts' = checkOuts /\ tasks' = tasks /\ overtaken' = overtaken
      BY <1>8 DEF Admit
    <2>7. QED
      BY <1>1, <2>1, <2>3, <2>4, <2>5, <2>6, WriteKeepsTypes DEF TypeOK
  <1>9. CASE Release(w)
    <2>1. req[w].pc = "release" /\ Finish(w)
      BY <1>9 DEF Release
    <2>2. req[w].r \in Reservation /\ res[req[w].r] \in Row /\ req[w].seen \in Row
      BY <1>1, <2>1, ReaderType
    <2>3. PICK row \in Row : res' = [res EXCEPT ![req[w].r] = row]
      <3>1. Written(res[req[w].r], "checked_out", res[req[w].r]) \in Row
        BY <2>2, WrittenType DEF Status
      <3>2. QED
        BY <1>9, <2>2, <3>1 DEF Release, TypeOK
    <2>4. PICK roomRow \in RoomRow : room' = [room EXCEPT ![req[w].seen.room] = roomRow]
      <3>1. room[req[w].seen.room] \in RoomRow
        BY <2>2 DEF TypeOK, Row
      <3>2. [status |-> "available", cleaning |-> "dirty"] \in RoomRow
        BY DEF RoomRow
      <3>3. QED
        BY <1>9, <3>1, <3>2 DEF Release, TypeOK
    <2>5. checkOuts' \subseteq Reservation
      BY <1>9, <2>2 DEF Release, TypeOK
    <2>6. tasks' \in Seq(Task)
      <3>1. TaskFor(req[w].r, req[w].seen.room, "desk") \in Task
        BY <2>2 DEF TaskFor, Task, Row
      <3>2. \/ tasks' = tasks
            \/ tasks' = Append(tasks, TaskFor(req[w].r, req[w].seen.room, "desk"))
        BY <1>9 DEF Release
      <3>3. tasks \in Seq(Task)
        BY DEF TypeOK
      <3>4. QED
        BY <3>1, <3>2, <3>3
    <2>7. checkIns' = checkIns /\ invoiced' = invoiced /\ overtaken' = overtaken
      BY <1>9 DEF Release
    <2>8. QED
      BY <1>1, <2>1, <2>3, <2>4, <2>5, <2>6, <2>7, WriteKeepsTypes DEF TypeOK
  <1>10. QED
    BY <1>2, <1>3, <1>4, <1>5, <1>6, <1>7, <1>8, <1>9 DEF Serve

LEMMA TypeInvNext == TypeInv /\ [Next]_vars => TypeInv'
  <1> SUFFICES ASSUME TypeInv, [Next]_vars
               PROVE  TypeInv'
    OBVIOUS
  <1>1. ASSUME NEW w \in Slots, Abandon(w)
        PROVE  TypeInv'
    BY <1>1 DEF Abandon, Finish, tables, TypeInv, TypeOK, ReadersHaveRow, Request, Idle
  <1>2. ASSUME NEW r \in Reservation, NEW m \in Room, CreateTask(r, m)
        PROVE  TypeInv'
    <2>1. tasks \in Seq(Task) /\ TaskFor(r, m, "manager") \in Task
      BY DEF TypeInv, TypeOK, TaskFor, Task
    <2>2. tasks' \in Seq(Task)
      BY <1>2, <2>1 DEF CreateTask
    <2>3. QED
      BY <1>2, <2>2 DEF CreateTask, TypeInv, TypeOK, ReadersHaveRow
  <1>3. CASE UNCHANGED vars
    BY <1>3 DEF vars, tables, TypeInv, TypeOK, ReadersHaveRow
  <1>4. QED
    BY <1>1, <1>2, <1>3, TypeInvBook, TypeInvServe DEF Next

LEMMA TypesAreInvariant == Spec => []TypeInv
  BY TypeInvInit, TypeInvNext, PTL DEF Spec

(***************************************************************************)
(* Type correctness: what every table and every request's memory holds.    *)
(***************************************************************************)
THEOREM TypeCorrect == Spec => []TypeOK
  BY TypesAreInvariant, PTL DEF TypeInv

-----------------------------------------------------------------------------
(* What a step does to the reservations table, action by action *)

LEMMA BookEffect ==
    ASSUME TypeInv, NEW w \in Bookers, Book(w)
    PROVE  \/ res' = res
           \/ /\ req[w].pc = "insert"
              /\ \E r \in Reservation, status \in {"pending", "confirmed"} :
                    /\ res[r] = NoRow
                    /\ res' = [res EXCEPT ![r] =
                                  [status |-> status, room |-> req[w].stay.room,
                                   from |-> req[w].stay.from, to |-> req[w].stay.to,
                                   version |-> 0]]
           \/ /\ req[w].pc = "rewrite"
              /\ Unchanged(w)
              /\ res' = [res EXCEPT ![req[w].r] =
                            Written(res[req[w].r], res[req[w].r].status, req[w].stay)]
           \/ /\ req[w].pc = "details"
              /\ res' = [res EXCEPT ![req[w].r] =
                            Written(res[req[w].r], res[req[w].r].status, res[req[w].r])]
  <1>1. ASSUME NEW r \in Reservation, Insert(w, r)
        PROVE  /\ req[w].pc = "insert"
               /\ \E status \in {"pending", "confirmed"} :
                    /\ res[r] = NoRow
                    /\ res' = [res EXCEPT ![r] =
                                  [status |-> status, room |-> req[w].stay.room,
                                   from |-> req[w].stay.from, to |-> req[w].stay.to,
                                   version |-> 0]]
    BY <1>1 DEF Insert
  <1>2. CASE Rewrite(w)
    BY <1>2 DEF Rewrite
  <1>3. CASE WriteDetails(w)
    BY <1>3 DEF WriteDetails
  <1>4. CASE \/ \E stay \in Stay, origin \in {"staff", "website"} : FindFree(w, stay, origin)
             \/ \E r \in Reservation, stay \in Stay : ReadForMove(w, r, stay)
             \/ \E r \in Reservation : ReadForDetails(w, r)
             \/ Recheck(w)
    BY <1>4 DEF FindFree, ReadForMove, ReadForDetails, Recheck, tables
  <1>5. QED
    BY <1>1, <1>2, <1>3, <1>4 DEF Book

LEMMA ServeEffect ==
    ASSUME TypeInv, NEW w \in Clerks, Serve(w)
    PROVE  \/ res' = res
           \/ \E status \in Status :
                /\ res' = [res EXCEPT ![req[w].r] = Written(res[req[w].r], status, res[req[w].r])]
                /\ \/ req[w].pc = "set_status" /\ status = req[w].target
                   \/ req[w].pc = "confirm" /\ status = "confirmed"
                   \/ req[w].pc = "admit" /\ Unchanged(w) /\ status = "checked_in"
                   \/ req[w].pc = "release" /\ Unchanged(w) /\ status = "checked_out"
  <1>1. {"confirmed", "checked_in", "checked_out"} \subseteq Status
    BY DEF Status
  <1>2. CASE WriteStatus(w)
    <2>1. req[w].pc = "set_status"
      BY <1>2 DEF WriteStatus
    <2>2. req[w].target \in Status
      BY <2>1, ReaderType DEF Slots
    <2>3. QED
      BY <1>2, <2>1, <2>2 DEF WriteStatus
  <1>3. CASE ConfirmFirst(w)
    BY <1>1, <1>3 DEF ConfirmFirst
  <1>4. CASE Admit(w)
    BY <1>1, <1>4 DEF Admit
  <1>5. CASE Release(w)
    BY <1>1, <1>5 DEF Release
  <1>6. CASE \E r \in Reservation :
                \/ \E target \in Status : ReadForStatus(w, r, target)
                \/ ReadForCancel(w, r)
                \/ ReadForCheckIn(w, r)
                \/ ReadForCheckOut(w, r)
    BY <1>6 DEF ReadForStatus, ReadForCancel, ReadForCheckIn, ReadForCheckOut, tables
  <1>7. QED
    BY <1>2, <1>3, <1>4, <1>5, <1>6 DEF Serve

\* A step is a booker's, a clerk's, the end of a request, or nothing but a new task.
LEMMA StepsAre ==
    ASSUME [Next]_vars
    PROVE  \/ \E w \in Bookers : Book(w)
           \/ \E w \in Clerks : Serve(w)
           \/ \E w \in Slots : Abandon(w)
           \/ UNCHANGED <<res, room, checkIns, checkOuts, invoiced, req, overtaken>>
  BY DEF Next, CreateTask, vars, tables

LEMMA AbandonEffect ==
    ASSUME NEW w \in Slots, Abandon(w)
    PROVE  res' = res /\ req' = [req EXCEPT ![w] = Idle]
  BY DEF Abandon, Finish, tables

\* Every write of an existing row increments its version by one.
VersionsCount ==
    \A r \in Reservation :
        \/ res'[r] = res[r]
        \/ res[r] = NoRow
        \/ /\ res[r] \in Row
           /\ res'[r].version = res[r].version + 1

LEMMA StepVersionsCount ==
    ASSUME TypeInv, [Next]_vars
    PROVE  VersionsCount
  <1>1. ASSUME NEW w \in Slots, req[w].pc \notin {"idle", "insert"},
               NEW row, row.version = res[req[w].r].version + 1,
               res' = [res EXCEPT ![req[w].r] = row]
        PROVE  VersionsCount
    <2>1. req[w].r \in Reservation /\ res[req[w].r] \in Row
      BY <1>1, ReaderType
    <2>2. QED
      BY <1>1, <2>1 DEF VersionsCount, TypeInv, TypeOK
  <1>2. ASSUME NEW w \in Bookers, Book(w)
        PROVE  VersionsCount
    <2>1. w \in Slots
      BY DEF Slots
    <2>2. ASSUME NEW r \in Reservation, NEW row, res[r] = NoRow, res' = [res EXCEPT ![r] = row]
          PROVE  VersionsCount
      BY <2>2 DEF VersionsCount, TypeInv, TypeOK
    <2>3. CASE /\ req[w].pc = "rewrite"
               /\ res' = [res EXCEPT ![req[w].r] =
                            Written(res[req[w].r], res[req[w].r].status, req[w].stay)]
      BY <1>1, <2>1, <2>3 DEF Written
    <2>4. CASE /\ req[w].pc = "details"
               /\ res' = [res EXCEPT ![req[w].r] =
                            Written(res[req[w].r], res[req[w].r].status, res[req[w].r])]
      BY <1>1, <2>1, <2>4 DEF Written
    <2>5. CASE res' = res
      BY <2>5 DEF VersionsCount
    <2>6. QED
      BY <1>2, <2>2, <2>3, <2>4, <2>5, BookEffect
  <1>3. ASSUME NEW w \in Clerks, Serve(w)
        PROVE  VersionsCount
    <2>1. w \in Slots
      BY DEF Slots
    <2>2. CASE res' = res
      BY <2>2 DEF VersionsCount
    <2>3. ASSUME NEW status \in Status,
                 res' = [res EXCEPT ![req[w].r] = Written(res[req[w].r], status, res[req[w].r])],
                 req[w].pc \in {"set_status", "confirm", "admit", "release"}
          PROVE  VersionsCount
      BY <1>1, <2>1, <2>3 DEF Written
    <2>4. QED
      BY <1>3, <2>2, <2>3, ServeEffect
  <1>4. QED
    BY <1>2, <1>3, AbandonEffect, StepsAre DEF VersionsCount

-----------------------------------------------------------------------------
(* The optimistic lock *)

\* What each handler checked on the row it read.
ReadGuard(w) ==
    /\ req[w].pc \in {"recheck", "rewrite"} => req[w].seen.status \notin Terminal
    /\ req[w].pc = "set_status" => <<req[w].seen.status, req[w].target>> \in ValidTransitions
    /\ req[w].pc = "confirm" => req[w].seen.status = "pending"
    /\ req[w].pc = "admit" => req[w].seen.status = "confirmed"
    /\ req[w].pc = "release" => req[w].seen.status = "checked_in"

LockInv == \A w \in Slots : Coherent(w) /\ ReadGuard(w)

LEMMA LockInit == Init => LockInv
  BY DEF Init, LockInv, Coherent, ReadGuard, Idle

LEMMA OthersKeepMemory ==
    ASSUME TypeInv, NEW w \in Slots, NEW v \in Slots \ {w},
           \/ w \in Bookers /\ Book(w)
           \/ w \in Clerks /\ Serve(w)
           \/ Abandon(w)
    PROVE  req'[v] = req[v]
  <1>1. ASSUME NEW memory, req' = [req EXCEPT ![w] = memory]
        PROVE  req'[v] = req[v]
    BY <1>1 DEF TypeInv, TypeOK
  <1>2. CASE Abandon(w)
    BY <1>1, <1>2 DEF Abandon, Finish
  <1>3. CASE Book(w)
    BY <1>1, <1>3 DEF Book, FindFree, Insert, ReadForMove, ReadForDetails, Recheck, Rewrite,
                      WriteDetails, Await, Finish
  <1>4. CASE Serve(w)
    BY <1>1, <1>4 DEF Serve, ReadForStatus, ReadForCancel, ReadForCheckIn, ReadForCheckOut,
                      WriteStatus, ConfirmFirst, Admit, Release, Await, Finish
  <1>5. QED
    BY <1>2, <1>3, <1>4

\* A slot that did not move stays coherent: other writes only raise the version.
LEMMA OthersStayCoherent ==
    ASSUME TypeInv, TypeInv', VersionsCount, NEW v \in Slots, req'[v] = req[v],
           Coherent(v), ReadGuard(v)
    PROVE  Coherent(v)' /\ ReadGuard(v)'
  <1>1. ReadGuard(v)'
    BY DEF ReadGuard
  <1>2. Coherent(v)'
    <2> SUFFICES ASSUME req[v].pc \in {"recheck", "rewrite", "set_status", "confirm", "admit", "release"}
                 PROVE  Coherent(v)'
      BY DEF Coherent
    <2>1. /\ req[v].r \in Reservation /\ res[req[v].r] \in Row /\ req[v].seen \in Row
      BY ReaderType
    <2>2. res[req[v].r] # NoRow
      BY <2>1 DEF Row, NoRow, Status
    <2>3. CASE res'[req[v].r] = res[req[v].r]
      BY <2>3 DEF Coherent
    <2>4. CASE res'[req[v].r].version = res[req[v].r].version + 1
      <3>1. res[req[v].r].version \in Nat /\ req[v].seen.version \in Nat
        BY <2>1 DEF Row
      <3>2. req[v].seen.version <= res[req[v].r].version
        BY DEF Coherent
      <3>3. res'[req[v].r] # NoRow
        BY DEF TypeInv, ReadersHaveRow, Row, NoRow, Status
      <3>4. req[v].seen.version < res'[req[v].r].version
        BY <2>4, <3>1, <3>2
      <3>5. QED
        BY <3>1, <3>3, <3>4, <2>4 DEF Coherent
    <2>5. QED
      BY <2>1, <2>2, <2>3, <2>4 DEF VersionsCount
  <1>3. QED
    BY <1>1, <1>2

LEMMA BookerStaysCoherent ==
    ASSUME TypeInv, NEW w \in Bookers, Book(w), Coherent(w), ReadGuard(w)
    PROVE  Coherent(w)' /\ ReadGuard(w)'
  <1>1. w \in Slots
    BY DEF Slots
  <1>2. ASSUME req'[w].pc \in {"idle", "insert", "details"}
        PROVE  Coherent(w)' /\ ReadGuard(w)'
    BY <1>2 DEF Coherent, ReadGuard
  <1>3. ASSUME NEW r \in Reservation, NEW stay \in Stay, ReadForMove(w, r, stay)
        PROVE  Coherent(w)' /\ ReadGuard(w)'
    <2>1. /\ req'[w] = [pc |-> "recheck", r |-> r, seen |-> res[r], stay |-> stay]
          /\ res' = res
      BY <1>1, <1>3 DEF ReadForMove, Await, tables, TypeInv, TypeOK
    <2>2. /\ res[r] \in Row /\ res[r] # NoRow
          /\ res[r].status \notin Terminal
      BY <1>3 DEF ReadForMove, ReadForUpdate, Editable, TypeInv, TypeOK
    <2>3. QED
      BY <2>1, <2>2 DEF Coherent, ReadGuard, Row
  <1>4. CASE Recheck(w)
    <2>1. /\ res' = res /\ req[w].pc = "recheck"
          /\ \/ req'[w] = Idle
             \/ req'[w] = [pc |-> "rewrite", r |-> req[w].r, seen |-> req[w].seen,
                           stay |-> req[w].stay]
      BY <1>1, <1>4 DEF Recheck, Finish, tables, TypeInv, TypeOK
    <2>2. QED
      BY <2>1, <1>2 DEF Coherent, ReadGuard, Idle
  <1>5. QED
    <2>1. ASSUME Finish(w) PROVE req'[w].pc = "idle"
      BY <1>1, <2>1 DEF Finish, Idle, TypeInv, TypeOK
    <2>2. ASSUME NEW stay, NEW origin, FindFree(w, stay, origin) PROVE req'[w].pc = "insert"
      BY <1>1, <2>2 DEF FindFree, Await, TypeInv, TypeOK
    <2>3. ASSUME NEW r, ReadForDetails(w, r) PROVE req'[w].pc = "details"
      BY <1>1, <2>3 DEF ReadForDetails, Await, TypeInv, TypeOK
    <2>4. ASSUME NEW r \in Reservation, Insert(w, r) PROVE Finish(w)
      BY <2>4 DEF Insert
    <2>5. Rewrite(w) \/ WriteDetails(w) => Finish(w)
      BY DEF Rewrite, WriteDetails
    <2>6. QED
      BY <1>2, <1>3, <1>4, <2>1, <2>2, <2>3, <2>4, <2>5 DEF Book

LEMMA ClerkStaysCoherent ==
    ASSUME TypeInv, NEW w \in Clerks, Serve(w), Coherent(w), ReadGuard(w)
    PROVE  Coherent(w)' /\ ReadGuard(w)'
  <1>1. w \in Slots
    BY DEF Slots
  <1>2. CASE \E r \in Reservation :
                \/ \E target \in Status : ReadForStatus(w, r, target)
                \/ ReadForCancel(w, r)
                \/ ReadForCheckIn(w, r)
                \/ ReadForCheckOut(w, r)
    <2>1. ASSUME NEW r \in Reservation, Editable(r), res' = res,
                 req'[w].r = r, req'[w].seen = res[r],
                 \/ /\ req'[w].pc = "set_status"
                    /\ <<res[r].status, req'[w].target>> \in ValidTransitions
                 \/ req'[w].pc = "confirm" /\ res[r].status = "pending"
                 \/ req'[w].pc = "admit" /\ res[r].status = "confirmed"
                 \/ req'[w].pc = "release" /\ res[r].status = "checked_in"
          PROVE  Coherent(w)' /\ ReadGuard(w)'
      <3>1. res[r] \in Row /\ res[r] # NoRow
        BY <2>1 DEF Editable, TypeInv, TypeOK
      <3>2. QED
        BY <2>1, <3>1 DEF Coherent, ReadGuard, Row
    <2>2. ASSUME NEW memory, Await(w, memory)
          PROVE  req'[w] = memory
      BY <1>1, <2>2 DEF Await, TypeInv, TypeOK
    <2>3. ASSUME NEW r \in Reservation, NEW target \in Status, ReadForStatus(w, r, target)
          PROVE  Coherent(w)' /\ ReadGuard(w)'
      <3>1. req'[w] = [pc |-> "set_status", r |-> r, seen |-> res[r], target |-> target]
        BY <2>2, <2>3 DEF ReadForStatus
      <3>2. QED
        BY <2>1, <2>3, <3>1 DEF ReadForStatus, tables
    <2>4. ASSUME NEW r \in Reservation, ReadForCheckIn(w, r)
          PROVE  Coherent(w)' /\ ReadGuard(w)'
      <3>1. CASE res[r].status = "pending"
        <4>1. req'[w] = [pc |-> "confirm", r |-> r, seen |-> res[r]]
          BY <2>2, <2>4, <3>1 DEF ReadForCheckIn
        <4>2. QED
          BY <2>1, <2>4, <3>1, <4>1 DEF ReadForCheckIn, tables
      <3>2. CASE res[r].status = "confirmed"
        <4>1. req'[w] = [pc |-> "admit", r |-> r, seen |-> res[r]]
          BY <2>2, <2>4, <3>2 DEF ReadForCheckIn
        <4>2. QED
          BY <2>1, <2>4, <3>2, <4>1 DEF ReadForCheckIn, tables
      <3>3. QED
        BY <2>4, <3>1, <3>2 DEF ReadForCheckIn
    <2>5. ASSUME NEW r \in Reservation, ReadForCheckOut(w, r)
          PROVE  Coherent(w)' /\ ReadGuard(w)'
      <3>1. req'[w] = [pc |-> "release", r |-> r, seen |-> res[r]]
        BY <2>2, <2>5 DEF ReadForCheckOut
      <3>2. QED
        BY <2>1, <2>5, <3>1 DEF ReadForCheckOut, tables
    <2>6. QED
      BY <1>2, <2>3, <2>4, <2>5 DEF ReadForCancel, Status
  <1>3. CASE ConfirmFirst(w)
    <2>1. req[w].pc = "confirm"
      BY <1>3 DEF ConfirmFirst
    <2>2. req[w].r \in Reservation /\ res[req[w].r] \in Row /\ req[w].seen \in Row
      BY <1>1, <2>1, ReaderType
    <2>3. /\ req'[w].pc = "admit" /\ req'[w].r = req[w].r
          /\ req'[w].seen = Written(res[req[w].r], "confirmed", req[w].seen)
          /\ res'[req[w].r] = Written(res[req[w].r], "confirmed", res[req[w].r])
      BY <1>1, <1>3, <2>2 DEF ConfirmFirst, TypeInv, TypeOK
    <2>4. res'[req[w].r] # NoRow
      BY <2>3 DEF Written, NoRow
    <2>5. res[req[w].r].version + 1 \in Nat
      BY <2>2 DEF Row
    <2>6. QED
      BY <2>3, <2>4, <2>5 DEF Coherent, ReadGuard, Written
  <1>4. ASSUME Finish(w)
        PROVE  Coherent(w)' /\ ReadGuard(w)'
    BY <1>1, <1>4 DEF Finish, Idle, TypeInv, TypeOK, Coherent, ReadGuard
  <1>5. QED
    BY <1>2, <1>3, <1>4 DEF Serve, WriteStatus, Admit, Release

LEMMA LockNext == TypeInv /\ LockInv /\ [Next]_vars => LockInv'
  <1> SUFFICES ASSUME TypeInv, LockInv, [Next]_vars
               PROVE  LockInv'
    OBVIOUS
  <1>1. TypeInv' /\ VersionsCount
    BY TypeInvNext, StepVersionsCount
  <1>2. ASSUME NEW w \in Slots,
               \/ w \in Bookers /\ Book(w)
               \/ w \in Clerks /\ Serve(w)
               \/ Abandon(w),
               Coherent(w)' /\ ReadGuard(w)'
        PROVE  LockInv'
    BY <1>1, <1>2, OthersKeepMemory, OthersStayCoherent DEF LockInv
  <1>3. ASSUME NEW w \in Bookers, Book(w)
        PROVE  LockInv'
    BY <1>2, <1>3, BookerStaysCoherent DEF LockInv, Slots
  <1>4. ASSUME NEW w \in Clerks, Serve(w)
        PROVE  LockInv'
    BY <1>2, <1>4, ClerkStaysCoherent DEF LockInv, Slots
  <1>5. ASSUME NEW w \in Slots, Abandon(w)
        PROVE  LockInv'
    <2>1. req'[w] = Idle
      BY <1>5, AbandonEffect DEF TypeInv, TypeOK
    <2>2. Coherent(w)' /\ ReadGuard(w)'
      BY <2>1 DEF Coherent, ReadGuard, Idle
    <2>3. QED
      BY <1>2, <1>5, <2>2
  <1>6. CASE UNCHANGED <<res, req>>
    BY <1>6 DEF LockInv, Coherent, ReadGuard
  <1>7. QED
    BY <1>3, <1>4, <1>5, <1>6, StepsAre

LEMMA LockIsInvariant == Spec => [](TypeInv /\ LockInv)
  BY TypesAreInvariant, LockInit, LockNext, PTL DEF Spec

(***************************************************************************)
(* The optimistic lock works for any number of requests in flight: what a  *)
(* request read is still true of the row while its version is unchanged.   *)
(***************************************************************************)
THEOREM OptimisticLock == Spec => []SnapshotCoherent
  <1>1. LockInv => SnapshotCoherent
    BY DEF LockInv, SnapshotCoherent
  <1>2. QED
    BY <1>1, LockIsInvariant, PTL

-----------------------------------------------------------------------------
(* What the desk guarantees because of its types and its optimistic lock *)

\* The actions of a clerk that leave the desk's own tables alone.
ReadsOrSetsStatus(w) ==
    \/ \E r \in Reservation :
        \/ \E target \in Status : ReadForStatus(w, r, target)
        \/ ReadForCancel(w, r)
        \/ ReadForCheckIn(w, r)
        \/ ReadForCheckOut(w, r)
    \/ WriteStatus(w)
    \/ ConfirmFirst(w)

\* Check-ins, check-outs and the status of rooms come only from Admit and Release;
\* invoices only from these and from Insert, which adds some.
LEMMA DeskFrame ==
    ASSUME [Next]_vars,
           \A w \in Clerks : ~Admit(w) /\ ~Release(w)
    PROVE  /\ UNCHANGED <<room, checkIns, checkOuts>>
           /\ invoiced \subseteq invoiced'
           /\ \/ tasks' = tasks
              \/ \E r \in Reservation, m \in Room : tasks' = Append(tasks, TaskFor(r, m, "manager"))
  <1>1. ASSUME NEW w \in Bookers, Book(w)
        PROVE  UNCHANGED <<room, checkIns, checkOuts, tasks>> /\ invoiced \subseteq invoiced'
    BY <1>1 DEF Book, FindFree, Insert, ReadForMove, ReadForDetails, Recheck, Rewrite,
                WriteDetails, tables
  <1>2. ASSUME NEW w \in Clerks, ReadsOrSetsStatus(w)
        PROVE  UNCHANGED <<room, checkIns, checkOuts, tasks>> /\ invoiced \subseteq invoiced'
    BY <1>2 DEF ReadsOrSetsStatus, ReadForStatus, ReadForCancel, ReadForCheckIn,
                ReadForCheckOut, WriteStatus, ConfirmFirst, tables
  <1>3. ASSUME NEW w \in Slots, Abandon(w)
        PROVE  UNCHANGED <<room, checkIns, checkOuts, tasks>> /\ invoiced \subseteq invoiced'
    BY <1>3 DEF Abandon, tables
  <1>4. ASSUME NEW r \in Reservation, NEW m \in Room, CreateTask(r, m)
        PROVE  /\ UNCHANGED <<room, checkIns, checkOuts, invoiced>>
               /\ tasks' = Append(tasks, TaskFor(r, m, "manager"))
    BY <1>4 DEF CreateTask
  <1>5. CASE UNCHANGED vars
    BY <1>5 DEF vars, tables
  <1>6. QED
    BY <1>1, <1>2, <1>3, <1>4, <1>5 DEF Next, Serve, ReadsOrSetsStatus

\* Under the lock, the guard a handler checked on its read holds of the row it writes.
LEMMA LockedGuard ==
    ASSUME TypeInv, LockInv, NEW w \in Slots, Unchanged(w),
           req[w].pc \in {"rewrite", "admit", "release"}
    PROVE  /\ req[w].r \in Reservation
           /\ res[req[w].r] \in Row
           /\ req[w].pc = "rewrite" => res[req[w].r].status \notin Terminal
           /\ req[w].pc = "admit" => res[req[w].r].status = "confirmed"
           /\ req[w].pc = "release" =>
                /\ res[req[w].r].status = "checked_in"
                /\ req[w].seen = res[req[w].r]
  BY ReaderType DEF LockInv, Coherent, ReadGuard, Unchanged

-----------------------------------------------------------------------------
(* The desk acts on the row as it is *)

LEMMA DeskActsStep ==
    ASSUME TypeInv, LockInv, [Next]_vars, NEW r \in Reservation
    PROVE  /\ r \in checkIns' \ checkIns => res[r].status = "confirmed"
           /\ r \in checkOuts' \ checkOuts =>
                /\ res[r].status = "checked_in"
                /\ room'[res[r].room] = [status |-> "available", cleaning |-> "dirty"]
                /\ tasks' = Append(tasks, TaskFor(r, res[r].room, "desk"))
  <1>1. CASE \A w \in Clerks : ~Admit(w) /\ ~Release(w)
    BY <1>1, DeskFrame
  <1>2. ASSUME NEW w \in Clerks, Admit(w), r \in checkIns' \ checkIns
        PROVE  res[r].status = "confirmed"
    <2>1. req[w].pc = "admit" /\ Unchanged(w) /\ r = req[w].r
      BY <1>2 DEF Admit
    <2>2. QED
      BY <2>1, LockedGuard DEF Slots
  <1>3. ASSUME NEW w \in Clerks, Release(w), r \in checkOuts' \ checkOuts
        PROVE  /\ res[r].status = "checked_in"
               /\ room'[res[r].room] = [status |-> "available", cleaning |-> "dirty"]
               /\ tasks' = Append(tasks, TaskFor(r, res[r].room, "desk"))
    <2>1. /\ req[w].pc = "release" /\ Unchanged(w) /\ r = req[w].r
          /\ room' = [room EXCEPT ![req[w].seen.room] = [status |-> "available", cleaning |-> "dirty"]]
          /\ tasks' = Append(tasks, TaskFor(r, req[w].seen.room, "desk"))
      BY <1>3 DEF Release
    <2>2. res[r] \in Row /\ res[r].status = "checked_in" /\ req[w].seen = res[r]
      BY <2>1, LockedGuard DEF Slots
    <2>3. res[r].room \in Room
      BY <2>2 DEF Row
    <2>4. QED
      BY <2>1, <2>2, <2>3 DEF TypeInv, TypeOK
  <1>4. ASSUME NEW w \in Clerks, Admit(w) PROVE checkOuts' = checkOuts
    BY <1>4 DEF Admit
  <1>5. ASSUME NEW w \in Clerks, Release(w) PROVE checkIns' = checkIns
    BY <1>5 DEF Release
  <1>6. QED
    BY <1>1, <1>2, <1>3, <1>4, <1>5

(***************************************************************************)
(* Check-in admits only a reservation that is confirmed at that instant,   *)
(* check-out releases only one that is checked in, and it is the room the  *)
(* reservation is in that is freed and gets the cleaning task.             *)
(***************************************************************************)
THEOREM DeskIsCurrent == Spec => DeskActsOnCurrentRow
  <1>1. TypeInv /\ LockInv /\ [Next]_vars =>
            [\A r \in Reservation :
                /\ r \in checkIns' \ checkIns => res[r].status = "confirmed"
                /\ r \in checkOuts' \ checkOuts =>
                    /\ res[r].status = "checked_in"
                    /\ room'[res[r].room] = [status |-> "available", cleaning |-> "dirty"]
                    /\ tasks' = Append(tasks, TaskFor(r, res[r].room, "desk"))]_vars
    BY DeskActsStep
  <1>2. QED
    BY <1>1, LockIsInvariant, PTL DEF Spec, DeskActsOnCurrentRow

-----------------------------------------------------------------------------
(* A reservation that has ended stays where it was *)

LEMMA EndedStep ==
    ASSUME TypeInv, LockInv, [Next]_vars, NEW r \in Reservation, res[r].status \in Terminal
    PROVE  <<res[r].room, res[r].from, res[r].to>> = <<res'[r].room, res'[r].from, res'[r].to>>
  <1>1. res[r] # NoRow
    BY DEF NoRow, Terminal
  <1>2. ASSUME NEW s \in Reservation, NEW row, res' = [res EXCEPT ![s] = row],
               \/ s # r
               \/ <<row.room, row.from, row.to>> = <<res[r].room, res[r].from, res[r].to>>
        PROVE  <<res[r].room, res[r].from, res[r].to>> = <<res'[r].room, res'[r].from, res'[r].to>>
    BY <1>2 DEF TypeInv, TypeOK
  <1>3. ASSUME NEW w \in Slots, req[w].pc \notin {"idle", "insert"}, NEW status,
               res' = [res EXCEPT ![req[w].r] = Written(res[req[w].r], status, res[req[w].r])]
        PROVE  <<res[r].room, res[r].from, res[r].to>> = <<res'[r].room, res'[r].from, res'[r].to>>
    <2>1. req[w].r \in Reservation
      BY <1>3, ReaderType
    <2>2. QED
      BY <1>2, <1>3, <2>1 DEF Written
  <1>4. ASSUME NEW w \in Bookers, Book(w)
        PROVE  <<res[r].room, res[r].from, res[r].to>> = <<res'[r].room, res'[r].from, res'[r].to>>
    <2>1. w \in Slots
      BY DEF Slots
    <2>2. ASSUME NEW s \in Reservation, NEW row, res[s] = NoRow, res' = [res EXCEPT ![s] = row]
          PROVE  <<res[r].room, res[r].from, res[r].to>> = <<res'[r].room, res'[r].from, res'[r].to>>
      BY <1>1, <1>2, <2>2
    <2>3. CASE /\ req[w].pc = "rewrite" /\ Unchanged(w)
               /\ res' = [res EXCEPT ![req[w].r] =
                            Written(res[req[w].r], res[req[w].r].status, req[w].stay)]
      BY <1>2, <2>1, <2>3, LockedGuard
    <2>4. CASE /\ req[w].pc = "details"
               /\ res' = [res EXCEPT ![req[w].r] =
                            Written(res[req[w].r], res[req[w].r].status, res[req[w].r])]
      BY <1>3, <2>1, <2>4
    <2>5. QED
      BY <1>4, <2>2, <2>3, <2>4, BookEffect
  <1>5. ASSUME NEW w \in Clerks, Serve(w)
        PROVE  <<res[r].room, res[r].from, res[r].to>> = <<res'[r].room, res'[r].from, res'[r].to>>
    BY <1>3, <1>5, ServeEffect DEF Slots
  <1>6. QED
    BY <1>4, <1>5, AbandonEffect, StepsAre

(***************************************************************************)
(* A reservation that was checked out, cancelled or marked no-show is      *)
(* never moved, by an update that was in flight when it ended either.      *)
(***************************************************************************)
THEOREM EndedStayPut == Spec => EndedStaysPut
  <1>1. TypeInv /\ LockInv /\ [Next]_vars =>
            [\A r \in Reservation :
                res[r].status \in Terminal =>
                    <<res[r].room, res[r].from, res[r].to>>
                        = <<res'[r].room, res'[r].from, res'[r].to>>]_vars
    BY EndedStep
  <1>2. QED
    BY <1>1, LockIsInvariant, PTL DEF Spec, EndedStaysPut

-----------------------------------------------------------------------------
(* Cleaning tasks and invoices *)

\* Appending a task adds it to those of its creator and keeps every other one.
LEMMA TaskAppended ==
    ASSUME TypeInv, NEW task \in Task, tasks' = Append(tasks, task)
    PROVE  /\ \A i \in TasksBy("desk") : tasks'[i] = tasks[i]
           /\ tasks'[Len(tasks) + 1] = task /\ Len(tasks) + 1 \notin TasksBy("desk")
           /\ TasksBy("desk")' = IF task.createdBy = "desk"
                                 THEN TasksBy("desk") \cup {Len(tasks) + 1}
                                 ELSE TasksBy("desk")
  <1>1. tasks \in Seq(Task)
    BY DEF TypeInv, TypeOK
  <1>2. /\ DOMAIN tasks = 1 .. Len(tasks) /\ Len(tasks) \in Nat
        /\ DOMAIN tasks' = 1 .. Len(tasks) + 1
        /\ tasks'[Len(tasks) + 1] = task
        /\ \A i \in DOMAIN tasks : tasks'[i] = tasks[i]
    BY <1>1
  <1>3. DOMAIN tasks' = DOMAIN tasks \cup {Len(tasks) + 1} /\ Len(tasks) + 1 \notin DOMAIN tasks
    BY <1>2
  <1>4. QED
    BY <1>2, <1>3 DEF TasksBy

LEMMA TasksStep ==
    ASSUME TypeInv, OneTaskPerCheckOut, [Next]_vars
    PROVE  OneTaskPerCheckOut'
  <1>1. CASE UNCHANGED <<checkOuts, tasks>>
    BY <1>1 DEF OneTaskPerCheckOut, TasksBy
  <1>2. ASSUME NEW r \in Reservation, NEW m \in Room, checkOuts' = checkOuts,
               tasks' = Append(tasks, TaskFor(r, m, "manager"))
        PROVE  OneTaskPerCheckOut'
    <2>1. TaskFor(r, m, "manager") \in Task /\ TaskFor(r, m, "manager").createdBy # "desk"
      BY DEF TaskFor, Task
    <2>2. TasksBy("desk")' = TasksBy("desk") /\ \A i \in TasksBy("desk") : tasks'[i] = tasks[i]
      BY <1>2, <2>1, TaskAppended
    <2>3. checkOuts' = {tasks'[i].reservation : i \in TasksBy("desk")'}
      <3>1. checkOuts = {tasks[i].reservation : i \in TasksBy("desk")}
        BY DEF OneTaskPerCheckOut
      <3>2. \A x : x \in checkOuts' <=> \E i \in TasksBy("desk")' : x = tasks'[i].reservation
        BY <1>2, <2>2, <3>1
      <3>3. QED
        BY <3>2
    <2>4. \A i, j \in TasksBy("desk")' : tasks'[i].reservation = tasks'[j].reservation => i = j
      BY <2>2 DEF OneTaskPerCheckOut
    <2>5. QED
      BY <2>3, <2>4 DEF OneTaskPerCheckOut
  <1>3. ASSUME NEW r \in Reservation, NEW m \in Room, r \notin checkOuts,
               checkOuts' = checkOuts \cup {r}, tasks' = Append(tasks, TaskFor(r, m, "desk"))
        PROVE  OneTaskPerCheckOut'
    <2>1. /\ TaskFor(r, m, "desk") \in Task
          /\ TaskFor(r, m, "desk").createdBy = "desk" /\ TaskFor(r, m, "desk").reservation = r
      BY DEF TaskFor, Task
    <2>2. PICK n : /\ TasksBy("desk")' = TasksBy("desk") \cup {n} /\ n \notin TasksBy("desk")
                   /\ tasks'[n].reservation = r
                   /\ \A i \in TasksBy("desk") : tasks'[i] = tasks[i]
      BY <1>3, <2>1, TaskAppended
    <2>3. \A i \in TasksBy("desk") : tasks[i].reservation # r
      BY <1>3 DEF OneTaskPerCheckOut
    <2>4. checkOuts' = {tasks'[i].reservation : i \in TasksBy("desk")'}
      <3>1. checkOuts = {tasks[i].reservation : i \in TasksBy("desk")}
        BY DEF OneTaskPerCheckOut
      <3>2. \A x : x \in checkOuts' <=> \E i \in TasksBy("desk")' : x = tasks'[i].reservation
        BY <1>3, <2>2, <3>1
      <3>3. QED
        BY <3>2
    <2>5. \A i, j \in TasksBy("desk")' : tasks'[i].reservation = tasks'[j].reservation => i = j
      BY <2>2, <2>3 DEF OneTaskPerCheckOut
    <2>6. QED
      BY <2>4, <2>5 DEF OneTaskPerCheckOut
  <1>4. ASSUME NEW w \in Clerks, Release(w)
        PROVE  OneTaskPerCheckOut'
    <2>1. /\ w \in Slots /\ req[w].pc = "release"
      BY <1>4 DEF Release, Slots
    <2>2. req[w].r \in Reservation /\ req[w].seen.room \in Room
      BY <2>1, ReaderType DEF Row
    <2>3. QED
      BY <1>1, <1>3, <1>4, <2>2 DEF Release
  <1>5. ASSUME NEW w \in Clerks, Admit(w)
        PROVE  UNCHANGED <<checkOuts, tasks>>
    BY <1>5 DEF Admit
  <1>6. QED
    BY <1>1, <1>2, <1>4, <1>5, DeskFrame

(***************************************************************************)
(* Every recorded check-out has exactly one cleaning task of its own, and  *)
(* the desk makes no other, however often and by however many clerks the   *)
(* check-out is attempted and whatever tasks managers add.                 *)
(***************************************************************************)
THEOREM OneTaskEach == Spec => []OneTaskPerCheckOut
  <1>1. Init => OneTaskPerCheckOut
    BY DEF Init, OneTaskPerCheckOut, TasksBy
  <1>2. TypeInv /\ OneTaskPerCheckOut /\ [Next]_vars => OneTaskPerCheckOut'
    BY TasksStep
  <1>3. QED
    BY <1>1, <1>2, TypesAreInvariant, PTL DEF Spec

LEMMA InvoicesStep ==
    ASSUME AdmittedAreInvoiced, [Next]_vars
    PROVE  AdmittedAreInvoiced'
  <1>1. CASE \A w \in Clerks : ~Admit(w) /\ ~Release(w)
    BY <1>1, DeskFrame DEF AdmittedAreInvoiced
  <1>2. ASSUME NEW w \in Clerks, Admit(w) \/ Release(w)
        PROVE  AdmittedAreInvoiced'
    BY <1>2 DEF Admit, Release, AdmittedAreInvoiced
  <1>3. QED
    BY <1>1, <1>2

(***************************************************************************)
(* Nobody is checked in without an invoice.                                *)
(***************************************************************************)
THEOREM AdmittedInvoiced == Spec => []AdmittedAreInvoiced
  <1>1. Init => AdmittedAreInvoiced
    BY DEF Init, AdmittedAreInvoiced
  <1>2. QED
    BY <1>1, InvoicesStep, PTL DEF Spec

-----------------------------------------------------------------------------
(* Status changes, with any number of clerks: what the desk guarantees unless a   *)
(* reservation was overtaken                                                      *)

ClerkAtWork(w) == req[w].pc \in {"set_status", "confirm", "admit", "release"}

LEMMA BookerKeepsStatus ==
    ASSUME TypeInv, NEW w \in Bookers, Book(w), NEW r \in Reservation, res[r] # NoRow
    PROVE  res'[r].status = res[r].status /\ res'[r] # NoRow
  <1>1. w \in Slots
    BY DEF Slots
  <1>2. ASSUME NEW s \in Reservation, NEW row, res[s] = NoRow, res' = [res EXCEPT ![s] = row]
        PROVE  res'[r] = res[r]
    BY <1>2 DEF TypeInv, TypeOK
  <1>3. ASSUME req[w].pc \notin {"idle", "insert"}, NEW stay,
               res' = [res EXCEPT ![req[w].r] = Written(res[req[w].r], res[req[w].r].status, stay)]
        PROVE  res'[r].status = res[r].status /\ res'[r] # NoRow
    <2>1. req[w].r \in Reservation
      BY <1>1, <1>3, ReaderType
    <2>2. Written(res[req[w].r], res[req[w].r].status, stay) # NoRow
      BY DEF Written, NoRow
    <2>3. QED
      BY <1>3, <2>1, <2>2 DEF Written, TypeInv, TypeOK
  <1>4. QED
    BY <1>1, <1>2, <1>3, BookEffect

\* What a clerk does to a row it does not leave alone: one transition, in place.
Advances(w, r) ==
    \/ res'[r] = res[r]
    \/ /\ r = req[w].r
       /\ res[r] \in Row
       /\ \E status \in Status :
             /\ <<res[r].status, status>> \in ValidTransitions
             /\ res' = [res EXCEPT ![r] = Written(res[r], status, res[r])]

\* check-in and check-out commit under the lock; the other writes are a transition
\* as long as the status they validated is still the row's.
LEMMA ClerkAdvances ==
    ASSUME TypeInv, LockInv, NEW w \in Clerks, Serve(w), NEW r \in Reservation,
           req[w].pc \in {"set_status", "confirm"} /\ r = req[w].r
                => req[w].seen.status = res[r].status
    PROVE  Advances(w, r)
  <1>1. w \in Slots
    BY DEF Slots
  <1>2. CASE res' = res
    BY <1>2 DEF Advances
  <1>3. ASSUME NEW status \in Status, ClerkAtWork(w),
               res' = [res EXCEPT ![req[w].r] = Written(res[req[w].r], status, res[req[w].r])],
               r = req[w].r => <<res[r].status, status>> \in ValidTransitions
        PROVE  Advances(w, r)
    <2>1. req[w].r \in Reservation /\ res[req[w].r] \in Row
      BY <1>1, <1>3, ReaderType DEF ClerkAtWork
    <2>2. QED
      BY <1>3, <2>1 DEF Advances, TypeInv, TypeOK
  <1>4. ReadGuard(w)
    BY <1>1 DEF LockInv
  <1>5. CASE /\ req[w].pc = "set_status"
             /\ res' = [res EXCEPT ![req[w].r] =
                           Written(res[req[w].r], req[w].target, res[req[w].r])]
    <2>1. req[w].target \in Status
      BY <1>1, <1>5, ReaderType
    <2>2. r = req[w].r => <<res[r].status, req[w].target>> \in ValidTransitions
      BY <1>4, <1>5 DEF ReadGuard
    <2>3. QED
      BY <1>3, <1>5, <2>1, <2>2 DEF ClerkAtWork
  <1>6. CASE /\ req[w].pc = "confirm"
             /\ res' = [res EXCEPT ![req[w].r] =
                           Written(res[req[w].r], "confirmed", res[req[w].r])]
    <2>1. r = req[w].r => res[r].status = "pending"
      BY <1>4, <1>6 DEF ReadGuard
    <2>2. QED
      BY <1>3, <1>6, <2>1 DEF ClerkAtWork, Status, ValidTransitions
  <1>7. CASE /\ req[w].pc = "admit" /\ Unchanged(w)
             /\ res' = [res EXCEPT ![req[w].r] =
                           Written(res[req[w].r], "checked_in", res[req[w].r])]
    <2>1. res[req[w].r].status = "confirmed"
      BY <1>1, <1>7, LockedGuard
    <2>2. QED
      BY <1>3, <1>7, <2>1 DEF ClerkAtWork, Status, ValidTransitions
  <1>8. CASE /\ req[w].pc = "release" /\ Unchanged(w)
             /\ res' = [res EXCEPT ![req[w].r] =
                           Written(res[req[w].r], "checked_out", res[req[w].r])]
    <2>1. res[req[w].r].status = "checked_in"
      BY <1>1, <1>8, LockedGuard
    <2>2. QED
      BY <1>3, <1>8, <2>1 DEF ClerkAtWork, Status, ValidTransitions
  <1>9. QED
    BY <1>2, <1>5, <1>6, <1>7, <1>8, ServeEffect

\* The mark stays, and a write that leaves no mark found the status it had validated.
LEMMA OvertakenMarked ==
    ASSUME TypeInv, NEW w \in Clerks, Serve(w)
    PROVE  /\ overtaken \subseteq overtaken'
           /\ \/ res' = res
              \/ req[w].pc \notin {"set_status", "confirm"}
              \/ req[w].r \in overtaken'
              \/ req[w].seen.status = res[req[w].r].status
  <1>1. CASE WriteStatus(w) \/ ConfirmFirst(w)
    BY <1>1 DEF WriteStatus, ConfirmFirst, MarkOvertaken
  <1>2. CASE Admit(w) \/ Release(w)
    BY <1>2 DEF Admit, Release
  <1>3. CASE \E r \in Reservation :
                \/ \E target \in Status : ReadForStatus(w, r, target)
                \/ ReadForCancel(w, r)
                \/ ReadForCheckIn(w, r)
                \/ ReadForCheckOut(w, r)
    BY <1>3 DEF ReadForStatus, ReadForCancel, ReadForCheckIn, ReadForCheckOut, tables
  <1>4. QED
    BY <1>1, <1>2, <1>3 DEF Serve

LEMMA OvertakenGrows ==
    ASSUME TypeInv, [Next]_vars
    PROVE  overtaken \subseteq overtaken'
  <1>1. ASSUME NEW w \in Bookers, Book(w)
        PROVE  overtaken' = overtaken
    BY <1>1 DEF Book, FindFree, Insert, ReadForMove, ReadForDetails, Recheck, Rewrite, WriteDetails
  <1>2. ASSUME NEW w \in Slots, Abandon(w)
        PROVE  overtaken' = overtaken
    BY <1>2 DEF Abandon
  <1>3. QED
    BY <1>1, <1>2, OvertakenMarked, StepsAre

LEMMA LifecycleStep ==
    ASSUME TypeInv, LockInv, [Next]_vars, NEW r \in Reservation \ overtaken', res[r] # NoRow
    PROVE  \/ res'[r].status = res[r].status
           \/ <<res[r].status, res'[r].status>> \in ValidTransitions
  <1>1. ASSUME NEW w \in Bookers, Book(w)
        PROVE  res'[r].status = res[r].status
    BY <1>1, BookerKeepsStatus
  <1>2. ASSUME NEW w \in Clerks, Serve(w)
        PROVE  \/ res'[r].status = res[r].status
               \/ <<res[r].status, res'[r].status>> \in ValidTransitions
    <2>1. CASE res'[r] = res[r]
      BY <2>1
    <2>2. CASE res'[r] # res[r]
      <3>1. Advances(w, r)
        BY <1>2, <2>2, OvertakenMarked, ClerkAdvances
      <3>2. PICK status \in Status : /\ <<res[r].status, status>> \in ValidTransitions
                                     /\ res'[r] = Written(res[r], status, res[r])
        BY <2>2, <3>1 DEF Advances, TypeInv, TypeOK
      <3>3. QED
        BY <3>2 DEF Written
    <2>3. QED
      BY <2>1, <2>2
  <1>3. QED
    BY <1>1, <1>2, AbandonEffect, StepsAre

(***************************************************************************)
(* However many requests are in flight, a reservation leaves the lifecycle *)
(* of VALID_TRANSITIONS only by a write that was overtaken: the status it  *)
(* had validated was no longer the row's.  Bookings, moves, check-ins and  *)
(* check-outs never take it out.                                           *)
(***************************************************************************)
THEOREM LifecycleUnlessOvertaken == Spec => StatusLifecycle
  <1>1. TypeInv /\ LockInv /\ [Next]_vars =>
            [\A r \in Reservation \ overtaken' :
                res[r] # NoRow /\ res'[r].status # res[r].status =>
                    <<res[r].status, res'[r].status>> \in ValidTransitions]_vars
    BY LifecycleStep
  <1>2. QED
    BY <1>1, LockIsInvariant, PTL DEF Spec, StatusLifecycle

LEMMA AdmittedStep ==
    ASSUME TypeInv, LockInv, AdmittedOnce, [Next]_vars
    PROVE  AdmittedOnce'
  <1> SUFFICES ASSUME NEW r \in checkIns' \ overtaken'
               PROVE  res'[r].status \in {"checked_in", "checked_out", "no_show"}
    BY DEF AdmittedOnce
  <1>1. CASE r \in checkIns
    <2>1. r \in checkIns \ overtaken
      BY <1>1, OvertakenGrows
    <2>2. res[r].status \in {"checked_in", "checked_out", "no_show"}
      BY <2>1 DEF AdmittedOnce
    <2>3. r \in Reservation \ overtaken' /\ res[r] # NoRow
      BY <1>1, <2>2 DEF TypeInv, TypeOK, NoRow
    <2>4. QED
      BY <2>2, <2>3, LifecycleStep DEF ValidTransitions
  <1>2. ASSUME NEW w \in Clerks, Admit(w), r \notin checkIns
        PROVE  res'[r].status \in {"checked_in", "checked_out", "no_show"}
    <2>1. /\ req[w].pc = "admit" /\ r = req[w].r
          /\ res' = [res EXCEPT ![r] = Written(res[r], "checked_in", res[r])]
      BY <1>2 DEF Admit
    <2>2. r \in Reservation
      BY <2>1, ReaderType DEF Slots
    <2>3. QED
      BY <2>1, <2>2 DEF Written, TypeInv, TypeOK
  <1>3. ASSUME NEW w \in Clerks, Release(w)
        PROVE  checkIns' = checkIns
    BY <1>3 DEF Release
  <1>4. QED
    BY <1>1, <1>2, <1>3, DeskFrame

(***************************************************************************)
(* With any number of clerks, a guest who was checked in is in the house   *)
(* or has left: only an overtaken status write can take the reservation    *)
(* back to where it could be admitted again.                               *)
(***************************************************************************)
THEOREM AdmittedOnceUnlessOvertaken == Spec => []AdmittedOnce
  <1>1. Init => AdmittedOnce
    BY DEF Init, AdmittedOnce
  <1>2. TypeInv /\ LockInv /\ AdmittedOnce /\ [Next]_vars => AdmittedOnce'
    BY AdmittedStep
  <1>3. QED
    BY <1>1, <1>2, LockIsInvariant, PTL DEF Spec

-----------------------------------------------------------------------------
(* What the desk guarantees about nights when status changes are handled one at   *)
(* a time (OneClerk) and bookings and moves are too (OneBooker): with both it     *)
(* implements ReservationBook.  two_bookers shows that OneBooker cannot be        *)
(* dropped; a check-in in flight that revives a reservation needs OneClerk.       *)

OneClerk == \A a, b \in Clerks : a = b
OneBooker == \A a, b \in Bookers : a = b

\* The status the clerk read is still the status of the row.
ClerkSeesStatus ==
    \A w \in Clerks : ClerkAtWork(w) => req[w].seen.status = res[req[w].r].status

DeskInv == TypeInv /\ LockInv /\ ClerkSeesStatus

LEMMA LoneClerkAdvances ==
    ASSUME DeskInv, NEW w \in Clerks, Serve(w), NEW r \in Reservation
    PROVE  Advances(w, r)
  BY ClerkAdvances DEF DeskInv, ClerkSeesStatus, ClerkAtWork

\* After its own step a clerk still sees the status: it has ended, or just read
\* the row, or just confirmed it.
LEMMA ClerkSeesOwnWrite ==
    ASSUME TypeInv, NEW w \in Clerks, Serve(w), ClerkAtWork(w)'
    PROVE  req'[w].seen.status = res'[req'[w].r].status
  <1>1. w \in Slots
    BY DEF Slots
  <1>2. ~Finish(w)
    BY <1>1 DEF Finish, Idle, ClerkAtWork, TypeInv, TypeOK
  <1>3. ASSUME NEW memory, Await(w, memory) PROVE req'[w] = memory
    BY <1>1, <1>3 DEF Await, TypeInv, TypeOK
  <1>4. ASSUME NEW r \in Reservation, NEW target \in Status, ReadForStatus(w, r, target)
        PROVE  req'[w].seen.status = res'[req'[w].r].status
    BY <1>3, <1>4 DEF ReadForStatus, tables
  <1>5. ASSUME NEW r \in Reservation, ReadForCheckIn(w, r)
        PROVE  req'[w].seen.status = res'[req'[w].r].status
    BY <1>3, <1>5 DEF ReadForCheckIn, tables
  <1>6. ASSUME NEW r \in Reservation, ReadForCheckOut(w, r)
        PROVE  req'[w].seen.status = res'[req'[w].r].status
    BY <1>3, <1>6 DEF ReadForCheckOut, tables
  <1>7. CASE ConfirmFirst(w)
    <2>1. req[w].r \in Reservation
      BY <1>1, <1>7, ReaderType DEF ConfirmFirst
    <2>2. QED
      BY <1>1, <1>7, <2>1 DEF ConfirmFirst, Written, TypeInv, TypeOK
  <1>8. QED
    BY <1>2, <1>4, <1>5, <1>6, <1>7 DEF Serve, ReadForCancel, Status, WriteStatus, Admit, Release

LEMMA ClerkSeesStatusNext ==
    ASSUME OneClerk, DeskInv, [Next]_vars
    PROVE  ClerkSeesStatus'
  <1> SUFFICES ASSUME NEW v \in Clerks, ClerkAtWork(v)'
               PROVE  req'[v].seen.status = res'[req'[v].r].status
    BY DEF ClerkSeesStatus, ClerkAtWork
  <1>1. v \in Slots
    BY DEF Slots
  <1>2. ASSUME req'[v] = req[v],
               \A r \in Reservation : res[r] # NoRow => res'[r].status = res[r].status
        PROVE  req'[v].seen.status = res'[req'[v].r].status
    <2>1. ClerkAtWork(v)
      BY <1>2 DEF ClerkAtWork
    <2>2. req[v].r \in Reservation /\ res[req[v].r] \in Row
      BY <1>1, <2>1, ReaderType DEF DeskInv, ClerkAtWork
    <2>3. res[req[v].r] # NoRow
      BY <2>2 DEF Row, NoRow, Status
    <2>4. QED
      BY <1>2, <2>1, <2>2, <2>3 DEF DeskInv, ClerkSeesStatus
  <1>3. ASSUME NEW w \in Bookers, Book(w)
        PROVE  req'[v].seen.status = res'[req'[v].r].status
    <2>1. v # w
      BY SlotsAssumption
    <2>2. req'[v] = req[v]
      BY <1>1, <1>3, <2>1, OthersKeepMemory DEF DeskInv, Slots
    <2>3. QED
      BY <1>2, <1>3, <2>2, BookerKeepsStatus DEF DeskInv
  <1>4. ASSUME NEW w \in Clerks, Serve(w)
        PROVE  req'[v].seen.status = res'[req'[v].r].status
    BY <1>4, ClerkSeesOwnWrite DEF OneClerk, DeskInv
  <1>5. ASSUME NEW w \in Slots, Abandon(w)
        PROVE  req'[v].seen.status = res'[req'[v].r].status
    <2>1. v # w
      BY <1>5, AbandonEffect DEF DeskInv, TypeInv, TypeOK, Idle, ClerkAtWork
    <2>2. req'[v] = req[v] /\ res' = res
      BY <2>1, <1>1, <1>5, AbandonEffect DEF DeskInv, TypeInv, TypeOK
    <2>3. QED
      BY <1>2, <2>2
  <1>6. CASE UNCHANGED <<res, req>>
    BY <1>6, <1>2
  <1>7. QED
    BY <1>3, <1>4, <1>5, <1>6, StepsAre

LEMMA DeskIsInvariant ==
    ASSUME OneClerk
    PROVE  Spec => []DeskInv
  <1>1. Init => ClerkSeesStatus
    BY DEF Init, ClerkSeesStatus, ClerkAtWork, Idle, Slots
  <1>2. DeskInv /\ [Next]_vars => ClerkSeesStatus'
    BY ClerkSeesStatusNext
  <1>3. QED
    BY <1>1, <1>2, LockIsInvariant, PTL DEF Spec, DeskInv

-----------------------------------------------------------------------------
(* One booker and one clerk: the nights found free are still free *)

\* Between the conflict query and the write it decided, the nights stay free.
PlanIsFree ==
    \A w \in Bookers : req[w].pc \in {"insert", "rewrite"} => IsFree(res, req[w].stay)

BookInv == DeskInv /\ PlanIsFree /\ NoOverlap

\* A clerk's step frees rooms, and never takes one.
LEMMA ClerkOnlyFrees ==
    ASSUME DeskInv, NEW w \in Clerks, Serve(w), NEW r \in Reservation, Holds(res'[r])
    PROVE  /\ Holds(res[r])
           /\ res'[r].room = res[r].room /\ res'[r].from = res[r].from /\ res'[r].to = res[r].to
  <1>1. CASE res'[r] = res[r]
    BY <1>1
  <1>2. ASSUME NEW status \in Status, <<res[r].status, status>> \in ValidTransitions,
               res' = [res EXCEPT ![r] = Written(res[r], status, res[r])]
        PROVE  /\ Holds(res[r])
               /\ res'[r].room = res[r].room /\ res'[r].from = res[r].from /\ res'[r].to = res[r].to
    <2>1. res'[r] = Written(res[r], status, res[r])
      BY <1>2 DEF DeskInv, TypeInv, TypeOK
    <2>2. res[r].status \in {"pending", "confirmed", "checked_in"}
      BY <1>2 DEF ValidTransitions
    <2>3. QED
      BY <2>1, <2>2 DEF Written, Holds, Freeing
  <1>3. QED
    BY <1>1, <1>2, LoneClerkAdvances DEF Advances

\* A table that holds no more than another one has at least its free nights.
LEMMA FewerHeld ==
    ASSUME NEW old, NEW new, NEW stay, IsFree(old, stay),
           \A r \in Reservation : Holds(new[r]) =>
                /\ Holds(old[r])
                /\ new[r].room = old[r].room /\ new[r].from = old[r].from /\ new[r].to = old[r].to
    PROVE  IsFree(new, stay)
  BY DEF IsFree, Overlaps

\* Writing a stay on free nights keeps the reservations apart.
LEMMA FreeStayFits ==
    ASSUME DeskInv, NoOverlap, NEW r \in Reservation, NEW stay, IsFree(res, stay),
           NEW row, row.room = stay.room, row.from = stay.from, row.to = stay.to,
           res' = [res EXCEPT ![r] = row]
    PROVE  NoOverlap'
  <1> SUFFICES ASSUME NEW a \in Reservation, NEW b \in Reservation, a # b,
                      Holds(res'[a]), Holds(res'[b])
               PROVE  ~Overlaps(res'[a], res'[b])
    BY DEF NoOverlap
  <1>1. res'[r] = row /\ \A s \in Reservation \ {r} : res'[s] = res[s]
    BY DEF DeskInv, TypeInv, TypeOK
  <1>2. CASE a = r
    <2>1. ~Overlaps(res[b], stay)
      BY <1>1, <1>2 DEF IsFree
    <2>2. QED
      BY <1>1, <1>2, <2>1 DEF Overlaps
  <1>3. CASE b = r
    <2>1. ~Overlaps(res[a], stay)
      BY <1>1, <1>3 DEF IsFree
    <2>2. QED
      BY <1>1, <1>3, <2>1 DEF Overlaps
  <1>4. CASE a # r /\ b # r
    BY <1>1, <1>4 DEF NoOverlap
  <1>5. QED
    BY <1>2, <1>3, <1>4

LEMMA PlanAfterBook ==
    ASSUME OneBooker, BookInv, NEW w \in Bookers, Book(w)
    PROVE  PlanIsFree'
  <1> SUFFICES ASSUME req'[w].pc \in {"insert", "rewrite"}
               PROVE  IsFree(res', req'[w].stay)
    BY DEF OneBooker, PlanIsFree
  <1>1. w \in Slots
    BY DEF Slots
  <1>2. ~Finish(w)
    BY <1>1 DEF Finish, Idle, BookInv, DeskInv, TypeInv, TypeOK
  <1>3. ASSUME NEW memory, Await(w, memory) PROVE req'[w] = memory
    BY <1>1, <1>3 DEF Await, BookInv, DeskInv, TypeInv, TypeOK
  <1>4. ASSUME NEW stay \in Stay, NEW origin, FindFree(w, stay, origin)
        PROVE  IsFree(res', req'[w].stay)
    BY <1>3, <1>4 DEF FindFree, tables
  <1>5. CASE Recheck(w)
    <2>1. /\ IsFree(res, req[w].stay) /\ res' = res
          /\ req' = [req EXCEPT ![w] = [pc |-> "rewrite", r |-> req[w].r,
                                        seen |-> req[w].seen, stay |-> req[w].stay]]
      BY <1>2, <1>5 DEF Recheck, tables
    <2>2. req'[w].stay = req[w].stay
      BY <1>1, <2>1 DEF BookInv, DeskInv, TypeInv, TypeOK
    <2>3. QED
      BY <2>1, <2>2
  <1>6. ASSUME NEW r, NEW stay, ReadForMove(w, r, stay) PROVE FALSE
    BY <1>3, <1>6 DEF ReadForMove
  <1>7. ASSUME NEW r, ReadForDetails(w, r) PROVE FALSE
    BY <1>3, <1>7 DEF ReadForDetails
  <1>8. QED
    BY <1>2, <1>4, <1>5, <1>6, <1>7 DEF Book, Insert, Rewrite, WriteDetails

LEMMA OverlapAfterBook ==
    ASSUME BookInv, NEW w \in Bookers, Book(w)
    PROVE  NoOverlap'
  <1>1. w \in Slots
    BY DEF Slots
  <1>2. CASE res' = res
    BY <1>2 DEF BookInv, NoOverlap
  <1>3. ASSUME req[w].pc = "insert", NEW r \in Reservation, NEW status,
               res' = [res EXCEPT ![r] = [status |-> status, room |-> req[w].stay.room,
                                          from |-> req[w].stay.from, to |-> req[w].stay.to,
                                          version |-> 0]]
        PROVE  NoOverlap'
    <2>1. IsFree(res, req[w].stay)
      BY <1>3 DEF BookInv, PlanIsFree
    <2>2. QED
      BY <1>3, <2>1, FreeStayFits DEF BookInv
  <1>4. CASE /\ req[w].pc = "rewrite"
             /\ res' = [res EXCEPT ![req[w].r] =
                           Written(res[req[w].r], res[req[w].r].status, req[w].stay)]
    <2>1. IsFree(res, req[w].stay) /\ req[w].r \in Reservation
      BY <1>1, <1>4, ReaderType DEF BookInv, PlanIsFree, DeskInv
    <2>2. QED
      BY <1>4, <2>1, FreeStayFits DEF BookInv, Written
  <1>5. CASE /\ req[w].pc = "details"
             /\ res' = [res EXCEPT ![req[w].r] =
                           Written(res[req[w].r], res[req[w].r].status, res[req[w].r])]
    <2>1. req[w].r \in Reservation
      BY <1>1, <1>5, ReaderType DEF BookInv, DeskInv
    <2>2. \A s \in Reservation : /\ res'[s].status = res[s].status
                                 /\ s = req[w].r \/ res'[s] = res[s]
      BY <1>5, <2>1 DEF Written, BookInv, DeskInv, TypeInv, TypeOK
    <2>3. LET r == req[w].r
          IN  /\ res'[r].room = res[r].room
              /\ res'[r].from = res[r].from /\ res'[r].to = res[r].to
      BY <1>5, <2>1 DEF Written, BookInv, DeskInv, TypeInv, TypeOK
    <2>4. QED
      BY <2>1, <2>2, <2>3 DEF BookInv, NoOverlap, Holds, Overlaps
  <1>6. QED
    BY <1>2, <1>3, <1>4, <1>5, BookEffect DEF BookInv, DeskInv

LEMMA BookInvNext ==
    ASSUME OneBooker, OneClerk, BookInv, [Next]_vars
    PROVE  PlanIsFree' /\ NoOverlap'
  <1>1. ASSUME NEW w \in Bookers, Book(w)
        PROVE  PlanIsFree' /\ NoOverlap'
    BY <1>1, PlanAfterBook, OverlapAfterBook
  <1>2. ASSUME NEW w \in Clerks, Serve(w)
        PROVE  PlanIsFree' /\ NoOverlap'
    <2>1. \A r \in Reservation : Holds(res'[r]) =>
            /\ Holds(res[r])
            /\ res'[r].room = res[r].room /\ res'[r].from = res[r].from /\ res'[r].to = res[r].to
      BY <1>2, ClerkOnlyFrees DEF BookInv
    <2>2. ASSUME NEW v \in Bookers PROVE req'[v] = req[v]
      BY <1>2, OthersKeepMemory, SlotsAssumption DEF BookInv, DeskInv, Slots
    <2>3. PlanIsFree'
      BY <2>1, <2>2, FewerHeld DEF PlanIsFree, BookInv
    <2>4. NoOverlap'
      BY <2>1 DEF BookInv, NoOverlap, Overlaps
    <2>5. QED
      BY <2>3, <2>4
  <1>3. ASSUME NEW w \in Slots, Abandon(w)
        PROVE  PlanIsFree' /\ NoOverlap'
    <2>1. res' = res /\ \A v \in Slots : req'[v] = req[v] \/ req'[v] = Idle
      BY <1>3, AbandonEffect DEF BookInv, DeskInv, TypeInv, TypeOK
    <2>2. QED
      BY <2>1 DEF BookInv, PlanIsFree, NoOverlap, Idle, Slots
  <1>4. CASE UNCHANGED <<res, req>>
    BY <1>4 DEF BookInv, PlanIsFree, NoOverlap
  <1>5. QED
    BY <1>1, <1>2, <1>3, <1>4, StepsAre

LEMMA BookIsInvariant ==
    ASSUME OneBooker, OneClerk
    PROVE  Spec => []BookInv
  <1>1. Init => PlanIsFree /\ NoOverlap
    BY DEF Init, PlanIsFree, NoOverlap, Holds, NoRow, Freeing, Idle, Slots
  <1>2. BookInv /\ [Next]_vars => PlanIsFree' /\ NoOverlap'
    BY BookInvNext
  <1>3. QED
    BY <1>1, <1>2, DeskIsInvariant, PTL DEF Spec, BookInv

(***************************************************************************)
(* With one booker and one clerk no room is ever booked twice for a night. *)
(***************************************************************************)
THEOREM SerialDeskNeverDoubleBooks ==
    ASSUME OneBooker, OneClerk
    PROVE  Spec => []NoOverlap
  BY BookIsInvariant, PTL DEF BookInv

-----------------------------------------------------------------------------
(* With one clerk and one booker each commit is one entry, move or advance of the *)
(* book, and every other step leaves the book alone                               *)

Pages == [r \in Reservation |-> Page(res[r])]

\* The book's own copies of the definitions it shares with the desk.
LEMMA SameWords ==
    /\ Ledger!Status = Status
    /\ Ledger!Terminal = Terminal
    /\ Ledger!ValidTransitions = ValidTransitions
    /\ Ledger!Stay = Stay
    /\ Ledger!NoEntry = NoRow
  BY DEF Ledger!Status, Status, Ledger!Terminal, Terminal, Ledger!ValidTransitions,
         ValidTransitions, Ledger!Stay, Stay, Ledger!NoEntry, NoRow

LEMMA PageOfRow ==
    ASSUME NEW row \in Row
    PROVE  Page(row) = [status |-> row.status, room |-> row.room, from |-> row.from, to |-> row.to]
  BY DEF Page, Row, NoRow, Status

\* Nights free of rows are free of their pages.
LEMMA FreePages ==
    ASSUME DeskInv, NEW stay, IsFree(res, stay), NEW r \in Reservation, Ledger!Holds(Pages[r])
    PROVE  ~Ledger!Overlaps(Pages[r], stay)
  <1>1. CASE res[r] = NoRow
    BY <1>1 DEF Pages, Page, Ledger!Holds, Ledger!Freeing, NoRow
  <1>2. CASE res[r] \in Row
    <2>1. Pages[r] = [status |-> res[r].status, room |-> res[r].room,
                      from |-> res[r].from, to |-> res[r].to]
      BY <1>2, PageOfRow DEF Pages
    <2>2. Holds(res[r])
      BY <2>1 DEF Ledger!Holds, Ledger!Freeing, Holds, Freeing
    <2>3. QED
      BY <2>1, <2>2 DEF IsFree, Overlaps, Ledger!Overlaps
  <1>3. QED
    BY <1>1, <1>2 DEF DeskInv, TypeInv, TypeOK

\* One written row changes one page.
LEMMA OnePage ==
    ASSUME DeskInv, NEW r \in Reservation, NEW row \in Row, res' = [res EXCEPT ![r] = row]
    PROVE  Pages' = [Pages EXCEPT ![r] = Page(row)]
  <1>1. res'[r] = row /\ \A s \in Reservation \ {r} : res'[s] = res[s]
    BY DEF DeskInv, TypeInv, TypeOK
  <1>2. Page(res'[r]) = Page(row) /\ \A s \in Reservation \ {r} : Page(res'[s]) = Page(res[s])
    BY <1>1
  <1>3. QED
    BY <1>2 DEF Pages

LEMMA BookerTurnsPage ==
    ASSUME BookInv, NEW w \in Bookers, Book(w)
    PROVE  Ledger!Next \/ Pages' = Pages
  <1>1. w \in Slots /\ DeskInv /\ TypeInv
    BY DEF Slots, BookInv, DeskInv
  <1>2. CASE res' = res
    BY <1>2 DEF Pages
  <1>3. ASSUME req[w].pc = "insert",
               NEW r \in Reservation, NEW status \in {"pending", "confirmed"}, res[r] = NoRow,
               res' = [res EXCEPT ![r] = [status |-> status, room |-> req[w].stay.room,
                                          from |-> req[w].stay.from, to |-> req[w].stay.to,
                                          version |-> 0]]
        PROVE  Ledger!Next
    <2>1. req[w].stay \in Stay /\ IsFree(res, req[w].stay)
      BY <1>1, <1>3 DEF BookInv, PlanIsFree, TypeInv, TypeOK, Request, Idle
    <2>2. [status |-> status, room |-> req[w].stay.room, from |-> req[w].stay.from,
           to |-> req[w].stay.to, version |-> 0] \in Row
      BY <2>1 DEF Row, Stay, Status
    <2>3. Pages' = [Pages EXCEPT ![r] = [status |-> status, room |-> req[w].stay.room,
                                         from |-> req[w].stay.from, to |-> req[w].stay.to]]
      <3> DEFINE row == [status |-> status, room |-> req[w].stay.room, from |-> req[w].stay.from,
                         to |-> req[w].stay.to, version |-> 0]
      <3>1. Pages' = [Pages EXCEPT ![r] = Page(row)]
        BY <1>1, <1>3, <2>2, OnePage
      <3>2. Page(row) = [status |-> status, room |-> req[w].stay.room,
                         from |-> req[w].stay.from, to |-> req[w].stay.to]
        BY <2>2, PageOfRow
      <3>3. QED
        BY <3>1, <3>2
    <2>4. Pages[r] = NoRow
      BY <1>3 DEF Pages, Page
    <2>5. Ledger!IsFree(Pages, req[w].stay)
      BY <1>1, <2>1, FreePages DEF Ledger!IsFree
    <2>6. Ledger!Enter(r, req[w].stay, status)
      BY <2>3, <2>4, <2>5, SameWords DEF Ledger!Enter, Pages
    <2>7. QED
      BY <2>1, <2>6, SameWords DEF Ledger!Next, Status
  <1>4. CASE /\ req[w].pc = "rewrite" /\ Unchanged(w)
             /\ res' = [res EXCEPT ![req[w].r] =
                           Written(res[req[w].r], res[req[w].r].status, req[w].stay)]
    <2> DEFINE r == req[w].r
               stay == req[w].stay
    <2>1. /\ r \in Reservation /\ res[r] \in Row /\ stay \in Stay
          /\ res[r].status \notin Terminal /\ IsFree(res, stay)
      BY <1>1, <1>4, ReaderType, LockedGuard DEF BookInv, PlanIsFree, DeskInv
    <2>2. /\ Written(res[r], res[r].status, stay) \in Row
          /\ Written(res[r], res[r].status, stay) =
                [status |-> res[r].status, room |-> stay.room, from |-> stay.from, to |-> stay.to,
                 version |-> res[r].version + 1]
      <3>1. res[r].status \in Status
        BY <2>1 DEF Row
      <3>2. QED
        BY <2>1, <3>1, WrittenType DEF Written
    <2>3. Pages' = [Pages EXCEPT ![r] = [status |-> res[r].status, room |-> stay.room,
                                         from |-> stay.from, to |-> stay.to]]
      <3>1. Pages' = [Pages EXCEPT ![r] = Page(Written(res[r], res[r].status, stay))]
        BY <1>1, <1>4, <2>1, <2>2, OnePage
      <3>2. Page(Written(res[r], res[r].status, stay)) =
                [status |-> res[r].status, room |-> stay.room, from |-> stay.from, to |-> stay.to]
        BY <2>2, PageOfRow
      <3>3. QED
        BY <3>1, <3>2
    <2>4. Pages[r].status = res[r].status
      BY <2>1, PageOfRow DEF Pages
    <2>5. \A s \in Reservation \ {r} : Ledger!Holds(Pages[s]) => ~Ledger!Overlaps(Pages[s], stay)
      BY <1>1, <2>1, FreePages
    <2>6. res[r].status \in Status \ Terminal
      BY <2>1 DEF Row
    <2>7. Ledger!Move(r, stay)
      BY <2>3, <2>4, <2>5, <2>6, SameWords DEF Ledger!Move, Pages
    <2>8. QED
      BY <2>1, <2>7, SameWords DEF Ledger!Next
  <1>5. CASE /\ req[w].pc = "details"
             /\ res' = [res EXCEPT ![req[w].r] =
                           Written(res[req[w].r], res[req[w].r].status, res[req[w].r])]
    <2> DEFINE r == req[w].r
    <2>1. r \in Reservation /\ res[r] \in Row
      BY <1>1, <1>5, ReaderType
    <2>2. Page(Written(res[r], res[r].status, res[r])) = Page(res[r])
      <3>1. Written(res[r], res[r].status, res[r]) \in Row
        BY <2>1, WrittenType DEF Row
      <3>2. QED
        BY <2>1, <3>1, PageOfRow DEF Written
    <2>3. \A s \in Reservation : Page(res'[s]) = Page(res[s])
      BY <1>1, <1>5, <2>1, <2>2 DEF TypeInv, TypeOK
    <2>4. QED
      BY <2>3 DEF Pages
  <1>6. QED
    BY <1>1, <1>2, <1>3, <1>4, <1>5, BookEffect

LEMMA ClerkTurnsPage ==
    ASSUME DeskInv, NEW w \in Clerks, Serve(w)
    PROVE  Ledger!Next \/ Pages' = Pages
  <1>1. ASSUME NEW r \in Reservation, res[r] \in Row, NEW status \in Status,
               <<res[r].status, status>> \in ValidTransitions,
               res' = [res EXCEPT ![r] = Written(res[r], status, res[r])]
        PROVE  Ledger!Next
    <2>1. /\ Written(res[r], status, res[r]) \in Row
          /\ Written(res[r], status, res[r]) =
                [status |-> status, room |-> res[r].room, from |-> res[r].from, to |-> res[r].to,
                 version |-> res[r].version + 1]
      BY <1>1, WrittenType DEF Written
    <2>2. Pages' = [Pages EXCEPT ![r] = [status |-> status, room |-> res[r].room,
                                         from |-> res[r].from, to |-> res[r].to]]
      <3>1. Pages' = [Pages EXCEPT ![r] = Page(Written(res[r], status, res[r]))]
        BY <1>1, <2>1, OnePage
      <3>2. Page(Written(res[r], status, res[r])) =
                [status |-> status, room |-> res[r].room, from |-> res[r].from, to |-> res[r].to]
        BY <2>1, PageOfRow
      <3>3. QED
        BY <3>1, <3>2
    <2>3. Pages[r] = [status |-> res[r].status, room |-> res[r].room,
                      from |-> res[r].from, to |-> res[r].to]
      BY <1>1, PageOfRow DEF Pages
    <2>4. Ledger!Advance(r, status)
      <3>1. <<Pages[r].status, status>> \in ValidTransitions
        BY <1>1, <2>3
      <3>2. Pages' = [Pages EXCEPT ![r] = [status |-> status, room |-> Pages[r].room,
                                           from |-> Pages[r].from, to |-> Pages[r].to]]
        BY <2>2, <2>3
      <3>3. QED
        BY <3>1, <3>2, SameWords DEF Ledger!Advance, Pages
    <2>5. QED
      BY <2>4, SameWords DEF Ledger!Next
  <1>2. CASE \A r \in Reservation : res'[r] = res[r]
    BY <1>2 DEF Pages
  <1>3. QED
    BY <1>1, <1>2, LoneClerkAdvances DEF Advances

(***************************************************************************)
(* The reservations table, read without versions, behaves as the atomic    *)
(* book: create, update, updateStatus, cancel, checkIn and checkOut each   *)
(* take effect in one legal step of it or not at all.                      *)
(***************************************************************************)
THEOREM SerialDeskImplementsBook ==
    ASSUME OneBooker, OneClerk
    PROVE  Spec => ImplementsBook
  <1>1. Init => Ledger!Init
    BY DEF Init, Ledger!Init, Ledger!NoEntry, Page, NoRow
  <1>2. BookInv /\ [Next]_vars => [Ledger!Next]_Pages
    <2> SUFFICES ASSUME BookInv, [Next]_vars
                 PROVE  Ledger!Next \/ Pages' = Pages
      OBVIOUS
    <2>1. ASSUME NEW w \in Bookers, Book(w) PROVE Ledger!Next \/ Pages' = Pages
      BY <2>1, BookerTurnsPage
    <2>2. ASSUME NEW w \in Clerks, Serve(w) PROVE Ledger!Next \/ Pages' = Pages
      BY <2>2, ClerkTurnsPage DEF BookInv
    <2>3. CASE res' = res
      BY <2>3 DEF Pages
    <2>4. QED
      BY <2>1, <2>2, <2>3, AbandonEffect, StepsAre
  <1>3. BookInv /\ [Next]_vars => [Ledger!Next]_[r \in Reservation |-> Page(res[r])]
    BY <1>2 DEF Pages
  <1>4. QED
    BY <1>1, <1>3, BookIsInvariant, PTL DEF Spec, ImplementsBook, Ledger!Spec

=============================================================================
