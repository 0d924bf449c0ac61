----------------------------- MODULE SearchProofs -----------------------------
(***************************************************************************)
(* Theorems about Search for any rooms, types, filters and requests.  Who  *)
(* holds a list, the cache or a request, holds what was free when it was   *)
(* read; it goes stale only by a write, and a write is followed by a       *)
(* clearing, or it is noted at once what misses it.                        *)
(***************************************************************************)
EXTENDS Search, WellFoundedInduction, TLAPS

NoClear == \A w \in Slots : req[w].pc # "clear"

\* What a list misses is noted, unless somebody is about to clear.
Current(list, k, within) ==
    NoClear =>
        /\ list.rooms \subseteq Free(k, within) \/ list.missed \cap {"reservation", "room"} # {}
        /\ Free(k, within) \subseteq list.rooms \/ list.missed # {}

\* A list has no closed room, unless it misses a room's closing.
Open(list) == "room" \notin list.missed => list.rooms \cap closed = {}

CacheHolds ==
    \A k \in Keys : cache[k] # NoEntry =>
        Current(cache[k].list, k, cache[k].within) /\ Open(cache[k].list)

RequestsHold ==
    \A w \in Slots :
        /\ req[w].pc = "store" =>
              Current(req[w].list, req[w].key, req[w].within) /\ Open(req[w].list)
        /\ req[w].pc = "recheck" => req[w].room \in req[w].list.rooms /\ Open(req[w].list)

SearchInv == TypeOK /\ CacheHolds /\ RequestsHold

-----------------------------------------------------------------------------
(* The smallest room, and the records *)

LEMMA SmallestRoom ==
    ASSUME NEW S \in SUBSET Room, S # {}
    PROVE  Min(S) \in S
  <1> DEFINE below == {pair \in Nat \X Nat : pair[1] < pair[2]}
  <1>1. IsWellFoundedOn(below, Nat)
    BY NatLessThanWellFounded DEF OpToRel
  <1>2. \A x, y \in Nat : <<y, x>> \in below <=> y < x
    OBVIOUS
  <1> HIDE DEF below
  <1>3. S \subseteq Nat
    BY RoomsAssumption
  <1>4. PICK x \in S : \A y \in S : <<y, x>> \notin below
    BY <1>1, <1>3, WFMin
  <1>5. ASSUME NEW y \in S
        PROVE  x =< y
    <2>1. x \in Nat /\ y \in Nat /\ ~(y < x)
      BY <1>2, <1>3, <1>4
    <2>2. QED
      BY <2>1
  <1>6. QED
    BY <1>4, <1>5 DEF Min

LEMMA RequestFields ==
    ASSUME NEW r \in Request
    PROVE  /\ r.pc \in {"idle", "clear", "store", "recheck"}
           /\ r.pc = "store" => /\ r.key \in Keys /\ r.within \in Filters \cup {Room}
                                /\ r.list \in List
           /\ r.pc = "recheck" => r.room \in Room /\ r.list \in List
  BY DEF Request, Idle

LEMMA EntryFields ==
    /\ NoEntry \notin Entry
    /\ \A e \in Entry : e.list \in List /\ e.within \in Filters \cup {Room}
    /\ \A l \in List : l.rooms \in SUBSET Room /\ l.missed \in SUBSET Miss
  <1>1. \A e \in Entry : "list" \in DOMAIN e
    BY DEF Entry
  <1>2. "list" \notin DOMAIN NoEntry
    BY DEF NoEntry
  <1>3. QED
    BY <1>1, <1>2 DEF Entry, List

LEMMA FreeRooms ==
    ASSUME NEW k \in Keys, NEW within
    PROVE  Free(k, within) \in SUBSET Room /\ Free(k, within) \cap closed = {}
  BY RoomsAssumption DEF Free, Keys

LEMMA WithoutIs ==
    ASSUME NEW l \in List, NEW what \in Miss
    PROVE  /\ Without(l, what) \in List
           /\ Without(l, what).rooms = l.rooms
           /\ Without(l, what).missed = l.missed \cup {what}
  BY DEF Without, List

\* An outdated request is the same request, with an outdated list if it has one.
LEMMA OutdatedRequest ==
    ASSUME NEW r \in Request, NEW what \in Miss
    PROVE  /\ Outdated(r, what) \in Request /\ Outdated(r, what).pc = r.pc
           /\ r.pc \in {"store", "recheck"} => Outdated(r, what).list = Without(r.list, what)
           /\ r.pc = "store" => /\ Outdated(r, what).key = r.key
                                /\ Outdated(r, what).within = r.within
           /\ r.pc = "recheck" => Outdated(r, what).room = r.room
  <1> DEFINE list == Without(r.list, what)
  <1>1. CASE r \in {Idle, [pc |-> "clear"]}
    <2>1. "list" \notin DOMAIN r
      BY <1>1 DEF Idle
    <2>2. QED
      BY <1>1, <2>1 DEF Outdated, Idle
  <1>2. CASE r \in [pc : {"store"}, key : Keys, within : Filters \cup {Room}, list : List,
                    books : BOOLEAN]
    <2>1. Outdated(r, what) = [r EXCEPT !.list = list] /\ list \in List
      BY <1>2, WithoutIs DEF Outdated
    <2> HIDE DEF list
    <2>2. QED
      BY <1>2, <2>1 DEF Request, list
  <1>3. CASE r \in [pc : {"recheck"}, room : Room, list : List]
    <2>1. Outdated(r, what) = [r EXCEPT !.list = list] /\ list \in List
      BY <1>3, WithoutIs DEF Outdated
    <2> HIDE DEF list
    <2>2. QED
      BY <1>3, <2>1 DEF Request, list
  <1>4. QED
    BY <1>1, <1>2, <1>3 DEF Request

LEMMA OutdatedEntry ==
    ASSUME NEW e \in Entry \cup {NoEntry}, NEW what \in Miss
    PROVE  /\ Outdated(e, what) \in Entry \cup {NoEntry}
           /\ Outdated(e, what) # NoEntry =>
                 /\ e # NoEntry
                 /\ Outdated(e, what).list = Without(e.list, what)
                 /\ Outdated(e, what).within = e.within
  <1> DEFINE list == Without(e.list, what)
  <1>1. CASE e \in Entry
    <2>1. Outdated(e, what) = [e EXCEPT !.list = list] /\ list \in List /\ e # NoEntry
      BY <1>1, WithoutIs, EntryFields DEF Outdated, Entry
    <2> HIDE DEF list
    <2>2. QED
      BY <1>1, <2>1 DEF Entry, list
  <1>2. CASE e = NoEntry
    BY <1>2 DEF Outdated, NoEntry
  <1>3. QED
    BY <1>1, <1>2

-----------------------------------------------------------------------------
(* The steps *)

\* What a turn of slot w leaves of the others' requests.
LEMMA SlotTurn ==
    ASSUME TypeOK, NEW w \in Slots, NEW memory \in Request, GoOn(w, memory)
    PROVE  /\ req' \in [Slots -> Request] /\ req'[w] = memory
           /\ \A v \in Slots \ {w} : req'[v] = req[v]
  BY DEF TypeOK, GoOn

LEMMA Ends == Idle \in Request /\ Idle.pc = "idle" /\ [pc |-> "clear"] \in Request
  BY DEF Request, Idle

\* What the site goes on with when it is given a list.
LEMMA OfferIs ==
    ASSUME NEW w \in Slots, NEW list \in List, Offer(w, list)
    PROVE  \E memory \in Request :
              /\ GoOn(w, memory) /\ memory.pc \in {"idle", "recheck"}
              /\ memory.pc = "recheck" => memory.list = list /\ memory.room \in list.rooms
  <1>1. CASE list.rooms = {}
    BY <1>1, Ends DEF Offer, Finish
  <1>2. CASE list.rooms # {}
    <2> DEFINE memory == [pc |-> "recheck", room |-> Min(list.rooms), list |-> list]
    <2>1. Min(list.rooms) \in list.rooms /\ Min(list.rooms) \in Room
      BY <1>2, SmallestRoom, EntryFields
    <2>2. memory \in Request /\ GoOn(w, memory)
      BY <1>2, <2>1 DEF Request, Offer
    <2>3. memory.pc = "recheck" /\ memory.list = list /\ memory.room \in list.rooms
      BY <2>1
    <2> HIDE DEF memory
    <2>4. QED
      BY <2>2, <2>3
  <1>3. QED
    BY <1>1, <1>2

\* A step that changes neither reservations nor rooms, by a slot that does not leave a clear
\* undone: the lists it leaves or makes hold.
LEMMA ListsHold ==
    ASSUME SearchInv, NEW w \in Slots, NEW memory \in Request, GoOn(w, memory),
           UNCHANGED closed, taken' = taken \/ memory.pc = "clear",
           req[w].pc # "clear",
           cache' \in [Keys -> Entry \cup {NoEntry}], taken' \in SUBSET Room,
           \A k \in Keys : cache'[k] # NoEntry =>
              \/ cache'[k] = cache[k]
              \/ /\ req[w].pc = "store" /\ k = req[w].key
                 /\ cache'[k].list = req[w].list /\ cache'[k].within = req[w].within,
           memory.pc = "store" =>
              Current(memory.list, memory.key, memory.within) /\ Open(memory.list),
           memory.pc = "recheck" => memory.room \in memory.list.rooms /\ Open(memory.list)
    PROVE  SearchInv'
  <1> USE DEF SearchInv
  <1>1. /\ req' \in [Slots -> Request] /\ req'[w] = memory
        /\ \A v \in Slots \ {w} : req'[v] = req[v]
    BY SlotTurn
  <1>2. TypeOK'
    BY <1>1 DEF TypeOK
  <1>3. NoClear' => NoClear /\ taken' = taken
    BY <1>1 DEF NoClear
  <1>4. ASSUME NEW l, NEW k, NEW within
        PROVE  /\ Open(l) => Open(l)'
               /\ Current(l, k, within) => Current(l, k, within)'
    BY <1>3 DEF Open, Current, Free
  <1>5. CacheHolds'
    <2> SUFFICES ASSUME NEW k \in Keys, cache'[k] # NoEntry
                 PROVE  /\ Current(cache[k].list, k, cache[k].within)'
                        /\ Open(cache[k].list)'
      BY DEF CacheHolds
    <2>1. CASE cache'[k] = cache[k]
      BY <1>3, <2>1 DEF CacheHolds, Open, Current, Free
    <2>2. CASE /\ req[w].pc = "store" /\ k = req[w].key
               /\ cache'[k].list = req[w].list /\ cache'[k].within = req[w].within
      BY <1>3, <2>2 DEF RequestsHold, Open, Current, Free
    <2>3. QED
      BY <2>1, <2>2
  <1>6. RequestsHold'
    BY <1>1, <1>3 DEF RequestsHold, Open, Current, Free
  <1>7. QED
    BY <1>2, <1>5, <1>6

\* A step after which every list there is misses something, and it is noted what.
LEMMA ListsOutdated ==
    ASSUME SearchInv, NEW what \in Miss, taken' \in SUBSET Room, closed' \in SUBSET Room,
           closed' = closed \/ what = "room",
           what = "no_show" => taken' \subseteq taken /\ (NoClear' => NoClear),
           cache' \in [Keys -> Entry \cup {NoEntry}],
           \A k \in Keys : cache'[k] # NoEntry => cache'[k] = Outdated(cache[k], what),
           req' \in [Slots -> Request],
           \A v \in Slots : req'[v] = Outdated(req[v], what) \/ req'[v] = Idle
    PROVE  SearchInv'
  <1> USE DEF SearchInv
  <1>1. TypeOK'
    BY DEF TypeOK
  <1>2. ASSUME NEW l \in List, NEW m \in List, m = Without(l, what), NEW k, NEW within
        PROVE  /\ m.rooms = l.rooms /\ m.missed = l.missed \cup {what}
               /\ Open(l) => Open(m)'
               /\ Current(l, k, within) => Current(m, k, within)'
    <2>1. m.rooms = l.rooms /\ m.missed = l.missed \cup {what}
      BY <1>2, WithoutIs
    <2>2. Open(l) => Open(m)'
      BY <2>1 DEF Open
    <2>3. CASE what = "no_show"
      <3>1. closed' = closed /\ taken' \subseteq taken /\ (NoClear' => NoClear)
        BY <2>3
      <3>2. Free(k, within) \subseteq Free(k, within)'
        BY <3>1 DEF Free
      <3>3. QED
        BY <2>1, <2>2, <3>1, <3>2 DEF Current
    <2>4. CASE what # "no_show"
      <3>1. what \in {"reservation", "room"}
        BY <2>4 DEF Miss
      <3>2. Current(m, k, within)'
        BY <2>1, <3>1 DEF Current
      <3>3. QED
        BY <2>1, <2>2, <3>2
    <2>5. QED
      BY <2>3, <2>4
  <1>3. CacheHolds'
    <2> SUFFICES ASSUME NEW k \in Keys, cache'[k] # NoEntry
                 PROVE  /\ Current(cache[k].list, k, cache[k].within)'
                        /\ Open(cache[k].list)'
      BY DEF CacheHolds
    <2>1. /\ cache[k] # NoEntry /\ cache[k] \in Entry
          /\ cache'[k].list = Without(cache[k].list, what)
          /\ cache'[k].within = cache[k].within
      BY OutdatedEntry DEF TypeOK
    <2>2. PICK l \in List : l = cache[k].list
      BY <2>1, EntryFields
    <2>3. PICK m \in List : m = Without(l, what)
      BY WithoutIs
    <2>4. PICK within : within = cache[k].within
      OBVIOUS
    <2>5. Open(l) /\ Current(l, k, within)
      BY <2>1, <2>2, <2>4 DEF CacheHolds
    <2>6. Open(m)' /\ Current(m, k, within)'
      BY <1>2, <2>3, <2>5
    <2>7. cache'[k].list = m /\ cache'[k].within = within
      BY <2>1, <2>2, <2>3, <2>4
    <2>8. QED
      BY <2>6, <2>7 DEF Open, Current
  <1>4. RequestsHold'
    <2> SUFFICES ASSUME NEW v \in Slots, req'[v].pc \in {"store", "recheck"}
                 PROVE  /\ req'[v].pc = "store" =>
                              /\ Current(req[v].list, req[v].key, req[v].within)'
                              /\ Open(req[v].list)'
                        /\ req'[v].pc = "recheck" =>
                              req'[v].room \in req'[v].list.rooms /\ Open(req[v].list)'
      BY DEF RequestsHold
    <2>1. /\ req[v] \in Request /\ req'[v] = Outdated(req[v], what)
          /\ req[v].pc = req'[v].pc
      BY OutdatedRequest, Ends DEF TypeOK
    <2>2. PICK l \in List : l = req[v].list
      BY <2>1, RequestFields
    <2>3. PICK m \in List : m = Without(l, what)
      BY WithoutIs
    <2>4. req'[v].list = m
      BY <2>1, <2>2, <2>3, OutdatedRequest
    <2>5. CASE req[v].pc = "store"
      <3>1. PICK k, within : k = req[v].key /\ within = req[v].within
        OBVIOUS
      <3>2. Open(l) /\ Current(l, k, within)
        BY <2>2, <2>5, <3>1 DEF RequestsHold
      <3>3. Open(m)' /\ Current(m, k, within)'
        BY <1>2, <2>3, <3>2
      <3>4. req'[v].key = k /\ req'[v].within = within
        BY <2>1, <2>5, <3>1, OutdatedRequest
      <3>5. QED
        BY <2>1, <2>4, <2>5, <3>3, <3>4 DEF Open, Current
    <2>6. CASE req[v].pc = "recheck"
      <3>1. Open(l) /\ req[v].room \in l.rooms /\ req'[v].room = req[v].room
        BY <2>1, <2>2, <2>6, OutdatedRequest DEF RequestsHold
      <3>2. Open(m)' /\ m.rooms = l.rooms
        BY <1>2, <2>3, <3>1
      <3>3. QED
        BY <2>1, <2>4, <2>6, <3>1, <3>2 DEF Open
    <2>7. QED
      BY <2>1, <2>5, <2>6
  <1>5. QED
    BY <1>1, <1>3, <1>4

LEMMA ReadHolds ==
    ASSUME SearchInv, NEW w \in Slots, NEW k \in Keys, NEW within \in Filters \cup {Room},
           NEW books \in BOOLEAN, Read(w, k, within, books)
    PROVE  SearchInv'
  <1> DEFINE list == [rooms |-> Free(k, within), missed |-> {}]
             memory == [pc |-> "store", key |-> k, within |-> within, books |-> books, list |-> list]
  <1>1. list \in List
    BY FreeRooms DEF List, Miss
  <1>2. Current(list, k, within) /\ Open(list)
    BY FreeRooms DEF Current, Open
  <1> HIDE DEF list
  <1>3. /\ memory \in Request /\ memory.pc = "store" /\ memory.key = k
        /\ memory.within = within /\ memory.list = list
    BY <1>1 DEF Request
  <1>4. GoOn(w, memory)
    BY DEF Read, list
  <1> HIDE DEF memory
  <1>5. req[w].pc # "clear" /\ UNCHANGED <<taken, closed, cache>>
    BY DEF Read, Idle
  <1>6. QED
    BY <1>2, <1>3, <1>4, <1>5, ListsHold DEF SearchInv, TypeOK

LEMMA StoreHolds ==
    ASSUME SearchInv, NEW w \in Slots, Store(w)
    PROVE  SearchInv'
  <1>1. /\ req[w].pc = "store" /\ req[w].key \in Keys /\ req[w].within \in Filters \cup {Room}
        /\ req[w].list \in List /\ Open(req[w].list)
    BY RequestFields DEF SearchInv, TypeOK, RequestsHold, Store
  <1>2. PICK memory \in Request :
           /\ GoOn(w, memory) /\ memory.pc \in {"idle", "recheck"}
           /\ memory.pc = "recheck" => memory.list = req[w].list /\ memory.room \in req[w].list.rooms
    BY <1>1, Ends, OfferIs DEF Store, Finish
  <1> DEFINE entry == [list |-> req[w].list, within |-> req[w].within, ttl |-> 30]
  <1>3. entry \in Entry /\ entry.list = req[w].list /\ entry.within = req[w].within
    BY <1>1 DEF Entry
  <1>4. cache' = [cache EXCEPT ![req[w].key] = entry]
    BY DEF Store
  <1> HIDE DEF entry
  <1>5. /\ cache' \in [Keys -> Entry \cup {NoEntry}] /\ cache'[req[w].key] = entry
        /\ \A k \in Keys \ {req[w].key} : cache'[k] = cache[k]
    BY <1>1, <1>3, <1>4 DEF SearchInv, TypeOK
  <1>6. UNCHANGED <<taken, closed>>
    BY DEF Store
  <1>7. QED
    BY <1>1, <1>2, <1>3, <1>5, <1>6, ListsHold DEF SearchInv, TypeOK

LEMMA OfferHolds ==
    ASSUME SearchInv, NEW w \in Slots, NEW k \in Keys, OfferCached(w, k)
    PROVE  SearchInv'
  <1>1. cache[k].list \in List /\ Open(cache[k].list)
    BY EntryFields DEF SearchInv, TypeOK, CacheHolds, OfferCached
  <1>2. PICK memory \in Request :
           /\ GoOn(w, memory) /\ memory.pc \in {"idle", "recheck"}
           /\ memory.pc = "recheck" => memory.list = cache[k].list /\ memory.room \in cache[k].list.rooms
    BY <1>1, OfferIs DEF OfferCached
  <1>3. req[w].pc # "clear" /\ UNCHANGED <<taken, closed, cache>>
    BY DEF OfferCached, Idle
  <1>4. QED
    BY <1>1, <1>2, <1>3, ListsHold DEF SearchInv, TypeOK

\* A reservation is written, and somebody is about to clear.
LEMMA WritersHold ==
    ASSUME SearchInv, NEW w \in Slots,
           TakeOffered(w) \/ \E m \in Room : Take(w, m) \/ GiveBack(w, m)
    PROVE  SearchInv'
  <1>1. req[w].pc \in {"idle", "recheck"} /\ UNCHANGED <<closed, cache>>
    BY DEF TakeOffered, Take, GiveBack, Idle
  <1>2. taken' \in SUBSET Room
    <2>1. req[w].pc = "recheck" => req[w].room \in Room
      BY RequestFields DEF SearchInv, TypeOK
    <2>2. QED
      BY <2>1 DEF SearchInv, TypeOK, TakeOffered, Take, GiveBack
  <1>3. PICK memory \in Request :
           /\ GoOn(w, memory) /\ memory.pc \in {"idle", "clear"}
           /\ taken' = taken \/ memory.pc = "clear"
    BY Ends DEF TakeOffered, Take, GiveBack, Finish
  <1>4. QED
    BY <1>1, <1>2, <1>3, ListsHold DEF SearchInv, TypeOK

LEMMA ClearHolds ==
    ASSUME SearchInv, NEW w \in Slots, Clear(w)
    PROVE  SearchInv'
  <1>1. cache' \in [Keys -> Entry \cup {NoEntry}] /\ \A k \in Keys : cache'[k] = NoEntry
    BY DEF Clear
  <1>2. /\ req' \in [Slots -> Request] /\ "reservation" \in Miss
        /\ \A v \in Slots : req'[v] = Outdated(req[v], "reservation") \/ req'[v] = Idle
    BY OutdatedRequest, Ends DEF Clear, SearchInv, TypeOK, Miss
  <1>3. UNCHANGED <<taken, closed>>
    BY DEF Clear
  <1>4. QED
    BY <1>1, <1>2, <1>3, ListsOutdated DEF SearchInv, TypeOK

LEMMA StopHolds ==
    ASSUME SearchInv, NEW w \in Slots, Stop(w)
    PROVE  SearchInv'
  <1>1. CASE req[w].pc = "clear"
    <2>1. /\ cache' \in [Keys -> Entry \cup {NoEntry}] /\ "reservation" \in Miss
          /\ \A k \in Keys : cache'[k] = Outdated(cache[k], "reservation")
      BY <1>1, OutdatedEntry DEF Stop, OutdatedCache, SearchInv, TypeOK, Miss
    <2>2. /\ req' \in [Slots -> Request]
          /\ \A v \in Slots : req'[v] = Outdated(req[v], "reservation") \/ req'[v] = Idle
      BY <1>1, <2>1, OutdatedRequest, Ends DEF Stop, SearchInv, TypeOK
    <2>3. UNCHANGED <<taken, closed>>
      BY DEF Stop
    <2>4. QED
      BY <2>1, <2>2, <2>3, ListsOutdated DEF SearchInv, TypeOK
  <1>2. CASE req[w].pc # "clear"
    <2>1. GoOn(w, Idle) /\ UNCHANGED <<taken, closed, cache>>
      BY <1>2 DEF Stop, Finish
    <2>2. QED
      BY <1>2, <2>1, Ends, ListsHold DEF SearchInv, TypeOK
  <1>3. QED
    BY <1>1, <1>2

\* Whoever misses a write that no clearing follows is known at once.
LEMMA UnannouncedHolds ==
    ASSUME SearchInv, NEW m \in Room, MarkNoShow(m) \/ Revive(m) \/ SetRoomStatus(m)
    PROVE  SearchInv'
  <1>1. PICK what \in Miss :
           /\ Unannounced(what)
           /\ closed' = closed \/ what = "room"
           /\ what = "no_show" => taken' \subseteq taken
    BY DEF MarkNoShow, Revive, SetRoomStatus, Miss
  <1>2. /\ cache' \in [Keys -> Entry \cup {NoEntry}]
        /\ \A k \in Keys : cache'[k] = Outdated(cache[k], what)
    BY <1>1, OutdatedEntry DEF Unannounced, OutdatedCache, SearchInv, TypeOK
  <1>3. /\ req' \in [Slots -> Request]
        /\ \A v \in Slots : req'[v] = Outdated(req[v], what) /\ req'[v].pc = req[v].pc
    BY <1>1, OutdatedRequest DEF Unannounced, SearchInv, TypeOK
  <1>4. taken' \in SUBSET Room /\ closed' \in SUBSET Room
    BY DEF MarkNoShow, Revive, SetRoomStatus, SearchInv, TypeOK
  <1>5. NoClear' => NoClear
    BY <1>3 DEF NoClear
  <1>6. QED
    BY <1>1, <1>2, <1>3, <1>4, <1>5, ListsOutdated

LEMMA ExpireHolds ==
    ASSUME SearchInv, NEW k \in Keys, Expire(k)
    PROVE  SearchInv'
  <1>1. UNCHANGED <<taken, closed, req>>
    BY DEF Expire
  <1>2. /\ cache' \in [Keys -> Entry \cup {NoEntry}]
        /\ \A i \in Keys : cache'[i] # NoEntry => cache'[i] = cache[i]
    BY DEF Expire, SearchInv, TypeOK
  <1>3. QED
    BY <1>1, <1>2
    DEF SearchInv, TypeOK, CacheHolds, RequestsHold, Current, Open, Free, NoClear

LEMMA SearchInvStep == SearchInv /\ [Next]_vars => SearchInv'
  <1> SUFFICES ASSUME SearchInv, [Next]_vars
               PROVE  SearchInv'
    OBVIOUS
  <1>1. /\ RoomTypes \subseteq Keys /\ Room \in Filters \cup {Room}
        /\ TRUE \in BOOLEAN /\ FALSE \in BOOLEAN
    BY DEF Keys
  <1>2. CASE UNCHANGED vars
    BY <1>2
    DEF vars, SearchInv, TypeOK, CacheHolds, RequestsHold, Current, Open, Free, NoClear
  <1>3. QED
    BY <1>1, <1>2, ReadHolds, StoreHolds, OfferHolds, WritersHold, ClearHolds, StopHolds,
       UnannouncedHolds, ExpireHolds
    DEF Next

LEMMA SearchHolds == Spec => []SearchInv
  <1>1. Init => SearchInv
    BY Ends DEF Init, SearchInv, TypeOK, CacheHolds, RequestsHold
  <1>2. QED
    BY <1>1, SearchInvStep, PTL DEF Spec

-----------------------------------------------------------------------------

(***************************************************************************)
(* The sets, the cache and the requests have their types.                  *)
(***************************************************************************)
THEOREM SearchTypes == Spec => []TypeOK
  BY SearchHolds, PTL DEF SearchInv

(***************************************************************************)
(* However many write, search and store at once: but for writers about to  *)
(* clear, an entry that offers a taken or closed room misses a clearing or *)
(* a room's closing, and one that leaves out a free room misses that, or a *)
(* no-show.                                                                *)
(***************************************************************************)
THEOREM CacheStaleOnlyIfRaced == Spec => []StaleOnlyIfRaced
  <1>1. SearchInv => StaleOnlyIfRaced
    BY DEF SearchInv, CacheHolds, Current, NoClear, StaleOnlyIfRaced, Shown
  <1>2. QED
    BY <1>1, SearchHolds, PTL

(***************************************************************************)
(* The site never books a room that was closed already when the list that  *)
(* offered it was read, from the cache or from the database.               *)
(***************************************************************************)
THEOREM ClosedRoomsNotBooked == Spec => SiteBooksOpenRooms
  <1> DEFINE Books == \A w \in Slots :
         req[w].pc = "recheck" /\ req'[w].pc = "clear" /\ "room" \notin req[w].list.missed
            => req[w].room \notin closed
  <1>1. SearchInv => Books
    BY DEF SearchInv, RequestsHold, Open
  <1>2. QED
    BY <1>1, SearchHolds, PTL DEF SiteBooksOpenRooms

=============================================================================
