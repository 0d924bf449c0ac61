------------------------- MODULE HousekeepingProofs -------------------------
(***************************************************************************)
(* Theorems about Housekeeping for every set of rooms, guests, tasks and   *)
(* request slots, with any number of requests in flight.  The invariant    *)
(* adds to the types what each request checked before it went on, that a   *)
(* task it read is still there, since none is ever deleted, and that the   *)
(* version under which a check-out commits means the row it read.          *)
(***************************************************************************)
EXTENDS Housekeeping, TLAPS

\* A request that has read a task refers to one that exists, and completes only one
\* that was started.
TaskReaders ==
    \A w \in Slots :
        /\ req[w].pc \in {"start", "complete", "skip"} => tasks[req[w].t] \in TaskRow
        /\ req[w].pc = "complete" => tasks[req[w].t].startedAt

\* What each request checked, of what it remembers.
Checked ==
    \A w \in Slots :
        /\ req[w].pc = "set_room" /\ req[w].status = "available" => ~req[w].inHouse
        /\ req[w].pc = "start" => req[w].seen = "pending"
        /\ req[w].pc = "complete" => req[w].seen = "in_progress"
        /\ req[w].pc = "skip" => req[w].seen \in {"pending", "in_progress"}

\* As long as the version it read is the row's, a check-out frees the guest's room.
ReleaseLock ==
    \A w \in Slots : req[w].pc = "release" =>
        /\ req[w].version <= stay[req[w].g].version
        /\ req[w].version = stay[req[w].g].version =>
               stay[req[w].g].at = req[w].m /\ stay[req[w].g].status = "in_house"

Readers == TaskReaders /\ Checked /\ ReleaseLock

HkInv == TypeOK /\ Readers /\ CompletedWasStarted

-----------------------------------------------------------------------------
(* The invariant *)

LEMMA InitHk == Init => HkInv
  BY DEF Init, HkInv, TypeOK, Readers, TaskReaders, Checked, ReleaseLock, CompletedWasStarted,
     RoomStatus, StayRow, Request, Idle, NoTask

\* What a slot remembers while it awaits.
LEMMA Memory ==
    ASSUME TypeOK, NEW w \in Slots
    PROVE  /\ req[w].pc = "set_room" => /\ req[w].m \in Room /\ req[w].status \in RoomStatus
                                        /\ req[w].inHouse \in BOOLEAN
           /\ req[w].pc \in {"start", "complete", "skip"} => req[w].t \in Task
           /\ req[w].pc \in {"confirm", "admit", "release"} => req[w].g \in Guest /\ req[w].m \in Room
           /\ req[w].pc \in {"admit", "release"} => req[w].version \in Nat
  BY DEF TypeOK, Request, Idle

\* A write of a reservation keeps its type and raises its version.
LEMMA WrittenType ==
    ASSUME NEW row \in StayRow, NEW m \in Room, NEW status \in {"confirmed", "in_house", "left", row.status}
    PROVE  Written(row, status, m) \in StayRow /\ Written(row, status, m).version = row.version + 1
  BY DEF Written, StayRow

\* Tasks stay or are rewritten so that a started task stays started.
TasksGoOn ==
    \A t \in Task : tasks[t] \in TaskRow =>
        tasks'[t] \in TaskRow /\ (tasks[t].startedAt => tasks'[t].startedAt)

\* Reservations stay or get the next version.
StaysGoOn == \A g \in Guest : stay'[g] = stay[g] \/ stay'[g].version = stay[g].version + 1

\* Slot w ends, or has confirmed the reservation it checks in.
SlotGoesOn(w) ==
    /\ req'[w].pc \in {"idle", "admit"}
    /\ \A v \in Slots \ {w} : req'[v] = req[v]

LEMMA ReadersKept ==
    ASSUME TypeOK, Readers, NEW w \in Slots, SlotGoesOn(w), TasksGoOn, StaysGoOn
    PROVE  Readers'
  <1>1. ASSUME NEW v \in Slots, req'[v].pc \notin {"idle", "admit"}
        PROVE  v # w /\ req'[v] = req[v]
    BY <1>1 DEF SlotGoesOn
  <1>2. TaskReaders'
    <2> SUFFICES ASSUME NEW v \in Slots, req'[v].pc \in {"start", "complete", "skip"}
                 PROVE  /\ tasks'[req'[v].t] \in TaskRow
                        /\ req'[v].pc = "complete" => tasks'[req'[v].t].startedAt
      BY DEF TaskReaders
    <2>1. req'[v] = req[v]
      BY <1>1
    <2>2. req[v].t \in Task /\ tasks[req[v].t] \in TaskRow
      BY <2>1, Memory DEF Readers, TaskReaders
    <2>3. req[v].pc = "complete" => tasks[req[v].t].startedAt
      BY DEF Readers, TaskReaders
    <2>4. QED
      BY <2>1, <2>2, <2>3 DEF TasksGoOn
  <1>3. Checked'
    BY <1>1 DEF Readers, Checked
  <1>4. ReleaseLock'
    <2> SUFFICES ASSUME NEW v \in Slots, req'[v].pc = "release"
                 PROVE  /\ req'[v].version <= stay'[req'[v].g].version
                        /\ req'[v].version = stay'[req'[v].g].version =>
                               stay'[req'[v].g].at = req'[v].m /\ stay'[req'[v].g].status = "in_house"
      BY DEF ReleaseLock
    <2>1. req'[v] = req[v]
      BY <1>1
    <2>2. req[v].g \in Guest /\ req[v].version \in Nat
      BY <2>1, Memory
    <2>3. stay[req[v].g].version \in Nat
      BY <2>2 DEF TypeOK, StayRow
    <2>4. /\ req[v].version <= stay[req[v].g].version
          /\ req[v].version = stay[req[v].g].version =>
                 stay[req[v].g].at = req[v].m /\ stay[req[v].g].status = "in_house"
      BY <2>1 DEF Readers, ReleaseLock
    <2>5. CASE stay'[req[v].g] = stay[req[v].g]
      BY <2>1, <2>4, <2>5
    <2>6. CASE stay'[req[v].g].version = stay[req[v].g].version + 1
      BY <2>1, <2>2, <2>3, <2>4, <2>6
    <2>7. QED
      BY <2>2, <2>5, <2>6 DEF StaysGoOn
  <1>5. QED
    BY <1>2, <1>3, <1>4 DEF Readers

LEMMA TasksStay == UNCHANGED tasks => TasksGoOn
  BY DEF TasksGoOn

LEMMA StaysStay == UNCHANGED stay => StaysGoOn
  BY DEF StaysGoOn

\* A request that ends without touching tasks or reservations.
LEMMA EndKeeps ==
    ASSUME HkInv, NEW w \in Slots, Finish(w), UNCHANGED <<stay, checkIns, tasks>>,
           room' \in [Room -> RoomStatus], overtaken' \subseteq Task \cup Room
    PROVE  HkInv'
  <1>1. Idle \in Request /\ Idle.pc = "idle"
    BY DEF Idle, Request
  <1>2. SlotGoesOn(w)
    BY <1>1 DEF Finish, SlotGoesOn, HkInv, TypeOK
  <1>3. Readers'
    BY <1>2, TasksStay, StaysStay, ReadersKept DEF HkInv
  <1>4. QED
    BY <1>1, <1>3 DEF HkInv, TypeOK, Finish, CompletedWasStarted

LEMMA RoomsStepKeeps ==
    ASSUME HkInv, NEW w \in Slots, RoomsStep(w)
    PROVE  HkInv'
  <1>1. ASSUME NEW m \in Room, NEW status \in RoomStatus, ReadForRoomStatus(w, m, status)
        PROVE  HkInv'
    <2>1. InHouse(m) \in BOOLEAN
      BY DEF InHouse
    <2>2. PICK b \in BOOLEAN : b = InHouse(m)
      BY <2>1
    <2>3. [pc |-> "set_room", m |-> m, status |-> status, inHouse |-> b] \in Request
      BY DEF Request
    <2>4. req' = [req EXCEPT ![w] = [pc |-> "set_room", m |-> m, status |-> status, inHouse |-> b]]
      BY <1>1, <2>2 DEF ReadForRoomStatus, Await
    <2>5. TypeOK'
      BY <1>1, <2>3, <2>4 DEF ReadForRoomStatus, HkInv, TypeOK
    <2>6. \A v \in Slots \ {w} : req'[v] = req[v]
      BY <2>4 DEF HkInv, TypeOK
    <2>7. req'[w] = [pc |-> "set_room", m |-> m, status |-> status, inHouse |-> b]
      BY <2>4 DEF HkInv, TypeOK
    <2>8. status = "available" => ~b
      BY <1>1, <2>2 DEF ReadForRoomStatus
    <2>9. Checked'
      BY <2>6, <2>7, <2>8 DEF HkInv, Readers, Checked
    <2>10. TaskReaders' /\ ReleaseLock' /\ CompletedWasStarted'
      BY <1>1, <2>6, <2>7
      DEF ReadForRoomStatus, HkInv, Readers, TaskReaders, ReleaseLock, CompletedWasStarted
    <2>11. QED
      BY <2>5, <2>9, <2>10 DEF HkInv, Readers
  <1>2. CASE WriteRoomStatus(w)
    <2>1. req[w].m \in Room /\ req[w].status \in RoomStatus
      BY <1>2, Memory DEF WriteRoomStatus, HkInv
    <2>2. room' \in [Room -> RoomStatus] /\ overtaken' \subseteq Task \cup Room
      BY <1>2, <2>1 DEF WriteRoomStatus, Mark, HkInv, TypeOK
    <2>3. QED
      BY <1>2, <2>2, EndKeeps DEF WriteRoomStatus
  <1>3. QED
    BY <1>1, <1>2 DEF RoomsStep

LEMMA TaskStepKeeps ==
    ASSUME HkInv, NEW w \in Slots, TaskStep(w)
    PROVE  HkInv'
  <1> USE DEF HkInv
  \* A read: the slot remembers a task that is there.
  <1>1. ASSUME NEW t \in Task, NEW pc \in {"start", "complete", "skip"}, ReadTask(w, t, pc),
               tasks[t] # NoTask,
               pc = "start" => tasks[t].status = "pending",
               pc = "complete" => tasks[t].status = "in_progress",
               pc = "skip" => tasks[t].status \in {"pending", "in_progress"}
        PROVE  HkInv'
    <2>1. tasks[t] \in TaskRow /\ (pc = "complete" => tasks[t].startedAt)
      BY <1>1 DEF TypeOK, CompletedWasStarted
    <2>2. [pc |-> pc, t |-> t, seen |-> tasks[t].status] \in Request
      BY <2>1 DEF Request, TaskRow
    <2>3. /\ req'[w] = [pc |-> pc, t |-> t, seen |-> tasks[t].status]
          /\ \A v \in Slots \ {w} : req'[v] = req[v]
          /\ TypeOK'
      BY <1>1, <2>2 DEF ReadTask, Await, TypeOK
    <2>4. Checked'
      BY <1>1, <2>3 DEF Readers, Checked
    <2>5. TaskReaders'
      BY <1>1, <2>1, <2>3 DEF ReadTask, Readers, TaskReaders
    <2>6. ReleaseLock' /\ CompletedWasStarted'
      BY <1>1, <2>3 DEF ReadTask, Readers, ReleaseLock, CompletedWasStarted
    <2>7. QED
      BY <2>3, <2>4, <2>5, <2>6 DEF Readers
  \* A write of one task, with or without the room.
  <1>2. ASSUME NEW t \in Task, NEW row \in TaskRow, tasks' = [tasks EXCEPT ![t] = row],
               tasks[t].startedAt => row.startedAt,
               row.completedAt => row.startedAt,
               row.status = "in_progress" => row.startedAt,
               row.status = "completed" => row.completedAt,
               Finish(w), room' \in [Room -> RoomStatus], UNCHANGED <<stay, checkIns>>,
               overtaken' \subseteq Task \cup Room
        PROVE  HkInv'
    <2>1. Idle \in Request /\ Idle.pc = "idle"
      BY DEF Idle, Request
    <2>2. TypeOK'
      BY <1>2, <2>1 DEF Finish, TypeOK
    <2>3. \A s \in Task : tasks'[s] = IF s = t THEN row ELSE tasks[s]
      BY <1>2 DEF TypeOK
    <2>4. TasksGoOn
      BY <1>2, <2>3 DEF TasksGoOn
    <2>5. SlotGoesOn(w)
      BY <1>2, <2>1 DEF Finish, SlotGoesOn, TypeOK
    <2>6. Readers'
      BY <1>2, <2>4, <2>5, StaysStay, ReadersKept
    <2>7. CompletedWasStarted'
      BY <1>2, <2>3 DEF CompletedWasStarted
    <2>8. QED
      BY <2>2, <2>6, <2>7
  <1>3. ASSUME req[w].pc \in {"start", "complete", "skip"}
        PROVE  /\ req[w].t \in Task /\ tasks[req[w].t] \in TaskRow
               /\ tasks[req[w].t].room \in Room
               /\ tasks[req[w].t].completedAt => tasks[req[w].t].startedAt
               /\ tasks[req[w].t].startedAt \in BOOLEAN /\ tasks[req[w].t].completedAt \in BOOLEAN
    <2>1. req[w].t \in Task /\ tasks[req[w].t] \in TaskRow
      BY <1>3, Memory DEF Readers, TaskReaders
    <2>2. tasks[req[w].t].room \in Room /\ tasks[req[w].t] # NoTask
      BY <2>1 DEF TaskRow, NoTask, TaskStatus
    <2>3. tasks[req[w].t].startedAt \in BOOLEAN /\ tasks[req[w].t].completedAt \in BOOLEAN
      BY <2>1 DEF TaskRow
    <2>4. QED
      BY <2>1, <2>2, <2>3 DEF CompletedWasStarted
  <1>4. ASSUME NEW t \in Task, ReadForStart(w, t)
        PROVE  HkInv'
    BY <1>1, <1>4 DEF ReadForStart, NoTask
  <1>5. ASSUME NEW t \in Task, ReadForComplete(w, t)
        PROVE  HkInv'
    BY <1>1, <1>5 DEF ReadForComplete, NoTask
  <1>6. ASSUME NEW t \in Task, ReadForSkip(w, t)
        PROVE  HkInv'
    BY <1>1, <1>6 DEF ReadForSkip, NoTask
  <1>7. CASE Start(w)
    <2> DEFINE t == req[w].t
               row == [room |-> tasks[t].room, status |-> "in_progress", startedAt |-> TRUE,
                       completedAt |-> tasks[t].completedAt]
    <2>1. req[w].pc = "start"
      BY <1>7 DEF Start
    <2>2. row \in TaskRow
      BY <1>3, <2>1 DEF TaskRow, TaskStatus
    <2>3. room' \in [Room -> RoomStatus] /\ overtaken' \subseteq Task \cup Room
      BY <1>3, <1>7, <2>1 DEF Start, Mark, TypeOK
    <2>4. QED
      BY <1>2, <1>3, <1>7, <2>1, <2>2, <2>3 DEF Start
  <1>8. CASE Complete(w)
    <2> DEFINE t == req[w].t
               row == [room |-> tasks[t].room, status |-> "completed",
                       startedAt |-> tasks[t].startedAt, completedAt |-> TRUE]
    <2>1. req[w].pc = "complete" /\ tasks[t].startedAt
      BY <1>8 DEF Complete, Readers, TaskReaders
    <2>2. row \in TaskRow
      BY <1>3, <2>1 DEF TaskRow, TaskStatus
    <2>3. room' \in [Room -> RoomStatus] /\ overtaken' \subseteq Task \cup Room
      BY <1>3, <1>8, <2>1 DEF Complete, Mark, RoomStatus, TypeOK
    <2>4. QED
      BY <1>2, <1>3, <1>8, <2>1, <2>2, <2>3 DEF Complete
  <1>9. CASE Skip(w)
    <2> DEFINE t == req[w].t
               row == [room |-> tasks[t].room, status |-> "skipped",
                       startedAt |-> tasks[t].startedAt, completedAt |-> tasks[t].completedAt]
    <2>1. req[w].pc = "skip"
      BY <1>9 DEF Skip
    <2>2. row \in TaskRow
      BY <1>3, <2>1 DEF TaskRow, TaskStatus
    <2>3. room' \in [Room -> RoomStatus] /\ overtaken' \subseteq Task \cup Room
      BY <1>3, <1>9, <2>1 DEF Skip, Mark, TypeOK
    <2>4. QED
      BY <1>2, <1>3, <1>9, <2>1, <2>2, <2>3 DEF Skip
  <1>10. QED
    BY <1>4, <1>5, <1>6, <1>7, <1>8, <1>9 DEF TaskStep

LEMMA NewTaskKeeps ==
    ASSUME HkInv, NEW t \in Task, NEW m \in Room, tasks[t] = NoTask,
           tasks' = [tasks EXCEPT ![t] = NewTask(m)]
    PROVE  TasksGoOn /\ CompletedWasStarted' /\ tasks' \in [Task -> TaskRow \cup {NoTask}]
  <1>1. NewTask(m) \in TaskRow /\ NoTask \notin TaskRow
    BY DEF NewTask, TaskRow, NoTask, TaskStatus
  <1>2. \A s \in Task : tasks'[s] = IF s = t THEN NewTask(m) ELSE tasks[s]
    BY DEF HkInv, TypeOK
  <1>3. TasksGoOn
    BY <1>1, <1>2 DEF TasksGoOn
  <1>4. CompletedWasStarted'
    BY <1>2 DEF HkInv, CompletedWasStarted, NewTask
  <1>5. QED
    BY <1>1, <1>3, <1>4 DEF HkInv, TypeOK

LEMMA DeskStepKeeps ==
    ASSUME HkInv, NEW w \in Slots, DeskStep(w)
    PROVE  HkInv'
  <1> USE DEF HkInv
  \* A read of a reservation.
  <1>1. ASSUME NEW memory \in Request, Await(w, memory),
               memory.pc \in {"confirm", "admit", "release"},
               memory.pc = "release" =>
                   /\ memory.version = stay[memory.g].version
                   /\ stay[memory.g].version \in Nat
                   /\ stay[memory.g].at = memory.m /\ stay[memory.g].status = "in_house",
               UNCHANGED <<room, stay, checkIns, tasks, overtaken>>
        PROVE  HkInv'
    <2>1. /\ req'[w] = memory /\ \A v \in Slots \ {w} : req'[v] = req[v]
          /\ TypeOK'
      BY <1>1 DEF Await, TypeOK
    <2>2. ReleaseLock'
      BY <1>1, <2>1 DEF Readers, ReleaseLock
    <2>3. TaskReaders' /\ Checked' /\ CompletedWasStarted'
      BY <1>1, <2>1 DEF Readers, TaskReaders, Checked, CompletedWasStarted
    <2>4. QED
      BY <2>1, <2>2, <2>3 DEF Readers
  <1>2. ASSUME NEW g \in Guest
        PROVE  stay[g] \in StayRow /\ stay[g].at \in Room /\ stay[g].version \in Nat
    BY DEF TypeOK, StayRow
  <1>3. ASSUME NEW g \in Guest, ReadForAdmit(w, g)
        PROVE  HkInv'
    <2>1. CASE Await(w, [pc |-> "confirm", g |-> g, m |-> stay[g].at])
      <3>1. [pc |-> "confirm", g |-> g, m |-> stay[g].at] \in Request
        BY <1>2 DEF Request
      <3>2. QED
        BY <1>1, <1>3, <2>1, <3>1 DEF ReadForAdmit
    <2>2. CASE Await(w, [pc |-> "admit", g |-> g, m |-> stay[g].at, version |-> stay[g].version])
      <3>1. [pc |-> "admit", g |-> g, m |-> stay[g].at, version |-> stay[g].version] \in Request
        BY <1>2 DEF Request
      <3>2. QED
        BY <1>1, <1>3, <2>2, <3>1 DEF ReadForAdmit
    <2>3. QED
      BY <1>3, <2>1, <2>2 DEF ReadForAdmit
  <1>4. ASSUME NEW g \in Guest, ReadForRelease(w, g)
        PROVE  HkInv'
    <2>1. [pc |-> "release", g |-> g, m |-> stay[g].at, version |-> stay[g].version] \in Request
      BY <1>2 DEF Request
    <2>2. QED
      BY <1>1, <1>2, <1>4, <2>1 DEF ReadForRelease
  <1>5. CASE Confirm(w)
    <2>1. req[w].g \in Guest /\ req[w].m \in Room
      BY <1>5, Memory DEF Confirm
    <2>2. PICK row \in StayRow :
            /\ stay' = [stay EXCEPT ![req[w].g] = row]
            /\ row.version = stay[req[w].g].version + 1
            /\ req' = [req EXCEPT ![w] = [pc |-> "admit", g |-> req[w].g, m |-> req[w].m,
                                          version |-> row.version]]
      BY <1>2, <1>5, <2>1, WrittenType DEF Confirm
    <2>3. [pc |-> "admit", g |-> req[w].g, m |-> req[w].m, version |-> row.version] \in Request
      BY <2>1, <2>2 DEF Request, StayRow
    <2>4. TypeOK'
      BY <1>5, <2>1, <2>2, <2>3 DEF Confirm, TypeOK
    <2>5. SlotGoesOn(w) /\ StaysGoOn
      BY <2>1, <2>2 DEF SlotGoesOn, StaysGoOn, TypeOK
    <2>6. Readers'
      BY <1>5, <2>5, TasksStay, ReadersKept DEF Confirm
    <2>7. QED
      BY <1>5, <2>4, <2>6 DEF Confirm, CompletedWasStarted
  \* The desk's commits.
  <1>6. ASSUME NEW g \in Guest, NEW row \in StayRow, row.version = stay[g].version + 1,
               stay' = [stay EXCEPT ![g] = row], Finish(w),
               room' \in [Room -> RoomStatus], checkIns' \subseteq Guest,
               TasksGoOn, CompletedWasStarted', tasks' \in [Task -> TaskRow \cup {NoTask}],
               UNCHANGED overtaken
        PROVE  HkInv'
    <2>1. Idle \in Request /\ Idle.pc = "idle"
      BY DEF Idle, Request
    <2>2. TypeOK'
      BY <1>6, <2>1 DEF Finish, TypeOK
    <2>3. SlotGoesOn(w) /\ StaysGoOn
      BY <1>6, <2>1 DEF Finish, SlotGoesOn, StaysGoOn, TypeOK
    <2>4. QED
      BY <1>6, <2>2, <2>3, ReadersKept
  <1>7. CASE Admit(w)
    <2>1. req[w].g \in Guest /\ req[w].m \in Room
      BY <1>7, Memory DEF Admit
    <2>2. CASE UNCHANGED <<room, stay, checkIns>>
      BY <1>7, <2>2, EndKeeps DEF Admit, TypeOK
    <2>3. CASE /\ stay' = [stay EXCEPT ![req[w].g] =
                              Written(stay[req[w].g], "in_house", stay[req[w].g].at)]
               /\ room' = [room EXCEPT ![req[w].m] = "occupied"]
               /\ checkIns' = checkIns \cup {req[w].g}
      <3>1. /\ Written(stay[req[w].g], "in_house", stay[req[w].g].at) \in StayRow
            /\ Written(stay[req[w].g], "in_house", stay[req[w].g].at).version
                   = stay[req[w].g].version + 1
        BY <1>2, <2>1, WrittenType
      <3>2. room' \in [Room -> RoomStatus] /\ checkIns' \subseteq Guest
        BY <2>1, <2>3 DEF TypeOK, RoomStatus
      <3>3. /\ Finish(w) /\ UNCHANGED <<tasks, overtaken>>
            /\ CompletedWasStarted' /\ tasks' \in [Task -> TaskRow \cup {NoTask}]
        BY <1>7 DEF Admit, CompletedWasStarted, TypeOK
      <3>4. QED
        BY <1>6, <2>1, <2>3, <3>1, <3>2, <3>3, TasksStay
    <2>4. QED
      BY <1>7, <2>2, <2>3 DEF Admit
  <1>8. ASSUME NEW t \in Task, Release(w, t)
        PROVE  HkInv'
    <2>1. req[w].g \in Guest /\ req[w].m \in Room
      BY <1>8, Memory DEF Release
    <2>2. CASE UNCHANGED <<room, stay, tasks>>
      BY <1>8, <2>2, EndKeeps DEF Release, TypeOK
    <2>3. CASE /\ stay' = [stay EXCEPT ![req[w].g] = Written(stay[req[w].g], "left", req[w].m)]
               /\ room' = [room EXCEPT ![req[w].m] = "available"]
               /\ tasks' = [tasks EXCEPT ![t] = NewTask(req[w].m)]
      <3>1. /\ Written(stay[req[w].g], "left", req[w].m) \in StayRow
            /\ Written(stay[req[w].g], "left", req[w].m).version = stay[req[w].g].version + 1
        BY <1>2, <2>1, WrittenType
      <3>2. room' \in [Room -> RoomStatus] /\ checkIns' \subseteq Guest
        BY <1>8, <2>1, <2>3 DEF Release, TypeOK, RoomStatus
      <3>3. Finish(w) /\ UNCHANGED overtaken
        BY <1>8 DEF Release
      <3>4. TasksGoOn /\ CompletedWasStarted' /\ tasks' \in [Task -> TaskRow \cup {NoTask}]
        BY <1>8, <2>1, <2>3, NewTaskKeeps DEF Release
      <3>5. QED
        BY <1>6, <2>1, <2>3, <3>1, <3>2, <3>3, <3>4
    <2>4. QED
      BY <1>8, <2>2, <2>3 DEF Release
  <1>9. QED
    BY <1>3, <1>4, <1>5, <1>7, <1>8 DEF DeskStep

LEMMA NextKeeps == HkInv /\ [Next]_vars => HkInv'
  <1> SUFFICES ASSUME HkInv, [Next]_vars
               PROVE  HkInv'
    OBVIOUS
  \* Nobody's request moves.
  <1>1. ASSUME UNCHANGED <<room, checkIns, req, overtaken>>, TasksGoOn, StaysGoOn,
               CompletedWasStarted', tasks' \in [Task -> TaskRow \cup {NoTask}],
               stay' \in [Guest -> StayRow]
        PROVE  HkInv'
    <2>1. TypeOK'
      BY <1>1 DEF HkInv, TypeOK
    <2>2. TaskReaders' /\ Checked'
      <3>1. \A w \in Slots : req[w].pc \in {"start", "complete", "skip"} => req[w].t \in Task
        BY Memory DEF HkInv
      <3>2. QED
        BY <1>1, <3>1 DEF HkInv, Readers, TaskReaders, Checked, TasksGoOn
    <2>3. ReleaseLock'
      <3> SUFFICES ASSUME NEW v \in Slots, req[v].pc = "release"
                   PROVE  /\ req[v].version <= stay'[req[v].g].version
                          /\ req[v].version = stay'[req[v].g].version =>
                                 stay'[req[v].g].at = req[v].m /\ stay'[req[v].g].status = "in_house"
        BY <1>1 DEF ReleaseLock
      <3>1. req[v].g \in Guest /\ req[v].version \in Nat /\ stay[req[v].g].version \in Nat
        BY Memory DEF HkInv, TypeOK, StayRow
      <3>2. /\ req[v].version <= stay[req[v].g].version
            /\ req[v].version = stay[req[v].g].version =>
                   stay[req[v].g].at = req[v].m /\ stay[req[v].g].status = "in_house"
        BY DEF HkInv, Readers, ReleaseLock
      <3>3. CASE stay'[req[v].g] = stay[req[v].g]
        BY <3>2, <3>3
      <3>4. CASE stay'[req[v].g].version = stay[req[v].g].version + 1
        BY <3>1, <3>2, <3>4
      <3>5. QED
        BY <1>1, <3>1, <3>3, <3>4 DEF StaysGoOn
    <2>4. QED
      BY <1>1, <2>1, <2>2, <2>3 DEF HkInv, Readers
  <1>2. ASSUME NEW w \in Slots, Abandon(w)
        PROVE  HkInv'
    BY <1>2, EndKeeps DEF Abandon, HkInv, TypeOK
  <1>3. ASSUME NEW t \in Task, NEW m \in Room, CreateTask(t, m)
        PROVE  HkInv'
    <2>1. TasksGoOn /\ CompletedWasStarted' /\ tasks' \in [Task -> TaskRow \cup {NoTask}]
      BY <1>3, NewTaskKeeps DEF CreateTask
    <2>2. QED
      BY <1>1, <1>3, <2>1, StaysStay DEF CreateTask, HkInv, TypeOK
  <1>4. ASSUME NEW g \in Guest, NEW m \in Room, MoveStay(g, m)
        PROVE  HkInv'
    <2>1. /\ Written(stay[g], stay[g].status, m) \in StayRow
          /\ Written(stay[g], stay[g].status, m).version = stay[g].version + 1
      BY WrittenType DEF HkInv, TypeOK
    <2>2. stay' \in [Guest -> StayRow] /\ StaysGoOn
      BY <1>4, <2>1 DEF MoveStay, StaysGoOn, HkInv, TypeOK
    <2>3. QED
      BY <1>1, <1>4, <2>2, TasksStay DEF MoveStay, HkInv, TypeOK, CompletedWasStarted
  <1>5. CASE UNCHANGED vars
    BY <1>1, <1>5, TasksStay, StaysStay DEF vars, HkInv, TypeOK, CompletedWasStarted
  <1>6. QED
    BY <1>2, <1>3, <1>4, <1>5, RoomsStepKeeps, TaskStepKeeps, DeskStepKeeps DEF Next

LEMMA HkIsInvariant == Spec => []HkInv
  BY InitHk, NextKeeps, PTL DEF Spec

(***************************************************************************)
(* Type correctness of rooms, stays, check-ins, tasks and requests.        *)
(***************************************************************************)
THEOREM HousekeepingTypes == Spec => []TypeOK
  BY HkIsInvariant, PTL DEF HkInv

(***************************************************************************)
(* However many requests start, complete and skip a task at once, none is  *)
(* ever finished without having been started.                              *)
(***************************************************************************)
THEOREM FinishedWasStarted == Spec => []CompletedWasStarted
  BY HkIsInvariant, PTL DEF HkInv

-----------------------------------------------------------------------------
(* What only an overtaken write can break *)

TaskGoesOn ==
    \A t \in Task \ overtaken' :
         tasks[t] # NoTask /\ tasks'[t].status # tasks[t].status =>
            <<tasks[t].status, tasks'[t].status>> \in Lifecycle

LEMMA LifecycleStep == HkInv /\ [Next]_vars => TaskGoesOn
  <1> SUFFICES ASSUME HkInv, [Next]_vars
               PROVE  TaskGoesOn
    OBVIOUS
  <1>1. CASE UNCHANGED tasks
    BY <1>1 DEF TaskGoesOn
  <1>2. ASSUME NEW t \in Task, NEW row, tasks' = [tasks EXCEPT ![t] = row], tasks[t] = NoTask
        PROVE  TaskGoesOn
    BY <1>2 DEF TaskGoesOn, HkInv, TypeOK
  <1>3. ASSUME NEW w \in Slots, Start(w) \/ Complete(w) \/ Skip(w)
        PROVE  TaskGoesOn
    <2>1. req[w].t \in Task
      BY <1>3, Memory DEF Start, Complete, Skip, HkInv
    <2>2. \A t \in Task \ {req[w].t} : tasks'[t] = tasks[t]
      BY <1>3 DEF Start, Complete, Skip, HkInv, TypeOK
    <2>3. CASE req[w].t \in overtaken'
      BY <2>2, <2>3 DEF TaskGoesOn
    <2>4. CASE req[w].t \notin overtaken'
      <3>1. req[w].seen = tasks[req[w].t].status
        BY <1>3, <2>4 DEF Start, Complete, Skip, Mark
      <3>2. \/ tasks[req[w].t].status = "pending" /\ tasks'[req[w].t].status = "in_progress"
            \/ tasks[req[w].t].status = "in_progress" /\ tasks'[req[w].t].status = "completed"
            \/ /\ tasks[req[w].t].status \in {"pending", "in_progress"}
               /\ tasks'[req[w].t].status = "skipped"
        BY <1>3, <2>1, <3>1 DEF Start, Complete, Skip, HkInv, TypeOK, Readers, Checked
      <3>3. QED
        BY <2>2, <3>2 DEF TaskGoesOn, Lifecycle
    <2>5. QED
      BY <2>3, <2>4
  <1>4. QED
    BY <1>1, <1>2, <1>3
    DEF Next, vars, RoomsStep, ReadForRoomStatus, WriteRoomStatus,
        TaskStep, CreateTask, ReadTask, ReadForStart, ReadForComplete, ReadForSkip,
        DeskStep, ReadForAdmit, Confirm, Admit, ReadForRelease, Release, MoveStay, Abandon

(***************************************************************************)
(* With any number of requests in flight, a task leaves its lifecycle only *)
(* by a start, complete or skip that found another status than the one it  *)
(* had validated, and wrote all the same.                                  *)
(***************************************************************************)
THEOREM TasksFollowLifecycle == Spec => TaskLifecycle
  <1>1. HkInv /\ [Next]_vars => [TaskGoesOn]_vars
    BY LifecycleStep
  <1>2. QED
    BY <1>1, HkIsInvariant, PTL DEF Spec, TaskLifecycle, TaskGoesOn

GuestHolds ==
    \A m \in Room \ overtaken' :
         InHouse(m)' /\ room[m] # "available" /\ room'[m] = "available" =>
            \/ ReleasedTasks(m) # {}
            \/ \E g \in Guest : /\ stay[g].at = m /\ stay[g].status = "in_house"
                                /\ stay'[g].status = "left"

LEMMA GuestStep == HkInv /\ [Next]_vars => GuestHolds
  <1> SUFFICES ASSUME HkInv, [Next]_vars,
                      NEW m \in Room \ overtaken', InHouse(m)',
                      room[m] # "available", room'[m] = "available"
               PROVE  \/ ReleasedTasks(m) # {}
                      \/ \E g \in Guest : /\ stay[g].at = m /\ stay[g].status = "in_house"
                                          /\ stay'[g].status = "left"
    BY DEF GuestHolds
  <1>1. ASSUME NEW w \in Slots, WriteRoomStatus(w)
        PROVE  FALSE
    <2>1. req[w].m = m /\ req[w].status = "available"
      BY <1>1, Memory DEF WriteRoomStatus, HkInv, TypeOK
    <2>2. req[w].inHouse = InHouse(m)
      BY <1>1, <2>1 DEF WriteRoomStatus, Mark
    <2>3. ~req[w].inHouse
      BY <1>1, <2>1 DEF WriteRoomStatus, HkInv, Readers, Checked
    <2>4. InHouse(m)' <=> InHouse(m)
      BY <1>1 DEF WriteRoomStatus, InHouse
    <2>5. QED
      BY <2>2, <2>3, <2>4
  <1>2. ASSUME NEW w \in Slots, Complete(w)
        PROVE  ReleasedTasks(m) # {}
    <2>1. /\ req[w].pc = "complete" /\ req[w].t \in Task
          /\ tasks[req[w].t] \in TaskRow /\ req[w].seen = "in_progress"
      BY <1>2, Memory DEF Complete, HkInv, Readers, TaskReaders, Checked
    <2>2. tasks[req[w].t].room = m
      BY <1>2, <2>1 DEF Complete, HkInv, TypeOK
    <2>3. req[w].t \in overtaken' \/ tasks[req[w].t].status = "in_progress"
      BY <1>2, <2>1 DEF Complete, Mark
    <2>4. tasks'[req[w].t].status = "completed"
      BY <1>2, <2>1 DEF Complete, HkInv, TypeOK
    <2>5. tasks[req[w].t] # NoTask
      BY <2>1 DEF TaskRow, NoTask, TaskStatus
    <2>6. req[w].t \in ReleasedTasks(m)
      BY <2>1, <2>2, <2>3, <2>4, <2>5 DEF ReleasedTasks
    <2>7. QED
      BY <2>6
  <1>3. ASSUME NEW w \in Slots, Admit(w)
        PROVE  FALSE
    <2>1. req[w].m \in Room
      BY <1>3, Memory DEF Admit, HkInv
    <2>2. QED
      BY <1>3, <2>1 DEF Admit, HkInv, TypeOK
  <1>4. ASSUME NEW w \in Slots, NEW t \in Task, Release(w, t)
        PROVE  \E g \in Guest : /\ stay[g].at = m /\ stay[g].status = "in_house"
                                /\ stay'[g].status = "left"
    <2>1. /\ req[w].pc = "release" /\ req[w].g \in Guest /\ req[w].m \in Room
      BY <1>4, Memory DEF Release, HkInv
    <2>2. /\ stay[req[w].g].version = req[w].version
          /\ room' = [room EXCEPT ![req[w].m] = "available"]
          /\ stay' = [stay EXCEPT ![req[w].g] = Written(stay[req[w].g], "left", req[w].m)]
      BY <1>4 DEF Release
    <2>3. req[w].m = m
      BY <2>1, <2>2 DEF HkInv, TypeOK
    <2>4. stay[req[w].g].at = m /\ stay[req[w].g].status = "in_house"
      BY <2>1, <2>2, <2>3 DEF HkInv, Readers, ReleaseLock
    <2>5. stay'[req[w].g].status = "left"
      BY <2>1, <2>2 DEF Written, HkInv, TypeOK
    <2>6. QED
      BY <2>1, <2>4, <2>5
  <1>5. CASE UNCHANGED room
    BY <1>5
  <1>6. QED
    BY <1>1, <1>2, <1>3, <1>4, <1>5
    DEF Next, vars, RoomsStep, ReadForRoomStatus,
        TaskStep, CreateTask, ReadTask, ReadForStart, ReadForComplete, ReadForSkip, Start, Skip,
        DeskStep, ReadForAdmit, Confirm, ReadForRelease, MoveStay, Abandon

(***************************************************************************)
(* However requests to rooms, tasks and the desk interleave, a room        *)
(* becomes available with a guest in it only by a completed task of it, by *)
(* another guest's check-out, or by an overtaken updateStatus.             *)
(***************************************************************************)
THEOREM GuestsKeepRooms == Spec => GuestKeepsRoom
  <1>1. HkInv /\ [Next]_vars => [GuestHolds]_vars
    BY GuestStep
  <1>2. QED
    BY <1>1, HkIsInvariant, PTL DEF Spec, GuestKeepsRoom, GuestHolds

=============================================================================
