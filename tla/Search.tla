-------------------------------- MODULE Search --------------------------------
(***************************************************************************)
(* The search for free rooms and its cache, for one branch and one range   *)
(* of nights.  A search answers what the cache holds under its key, or     *)
(* reads the database, stores what it read, and answers it.  Whoever       *)
(* books, moves or cancels a reservation clears the whole cache in a later *)
(* await; whoever closes a room, or sets most statuses of a reservation,   *)
(* does not.  The public site books the first room of the answer, checking *)
(* again that no reservation holds it.                                     *)
(*                                                                         *)
(* A room type is the set of its rooms, and so is a filter by floor or     *)
(* occupancy.  Writing a reservation, in one step here, is the subject of  *)
(* FrontDesk.  An answer from the cache to the staff changes nothing and   *)
(* has no action.                                                          *)
(***************************************************************************)
EXTENDS Naturals, FiniteSetsExt

CONSTANTS
    Room,        \* rooms, as numbers in the order of the answers
    RoomTypes,   \* sets of rooms: the types a search may ask for
    Filters,     \* sets of rooms: what a floor or an occupancy lets through
    Slots        \* slots for requests

ASSUME RoomsAssumption ==
    Room \subseteq Nat /\ RoomTypes \subseteq SUBSET Room /\ Filters \subseteq SUBSET Room

VARIABLES
    taken,    \* rooms with a reservation in the range that holds them
    closed,   \* rooms in maintenance, out of order, or deleted
    cache,    \* cache[k]: the entry under key k, or NoEntry
    req       \* req[w] is what slot w remembers across its awaits

vars == <<taken, closed, cache, req>>

\* Branch and dates are fixed; the room type, or any; not the floor, not the occupancy.
Keys == RoomTypes \cup {Room}

-----------------------------------------------------------------------------
(* Types *)

\* What an answer does not show and no clearing to come will remove it for: a reservation
\* whose clearing came first, or never comes; a no-show; a room closed or opened.
Miss == {"reservation", "no_show", "room"}

List == [rooms : SUBSET Room, missed : SUBSET Miss]

NoEntry == [ttl |-> 0]

\* A time to live of 0 would be for ever.
Entry == [list : List, within : Filters \cup {Room}, ttl : {0, 30}]

Idle == [pc |-> "idle"]

Request ==
    {Idle, [pc |-> "clear"]}
    \cup [pc : {"store"}, key : Keys, within : Filters \cup {Room}, list : List, books : BOOLEAN]
    \cup [pc : {"recheck"}, room : Room, list : List]

TypeOK ==
    /\ taken \subseteq Room
    /\ closed \subseteq Room
    /\ cache \in [Keys -> Entry \cup {NoEntry}]
    /\ req \in [Slots -> Request]

Init ==
    /\ taken = {}
    /\ closed = {}
    /\ cache = [k \in Keys |-> NoEntry]
    /\ req = [w \in Slots |-> Idle]

-----------------------------------------------------------------------------
(* Helpers *)

GoOn(w, memory) == req' = [req EXCEPT ![w] = memory]

Finish(w) == GoOn(w, Idle)

\* Mutant: the query forgets the status of the room.
FreeOrClosed(k, within) == (k \cap within) \ taken

Free(k, within) == (k \cap within) \ (taken \cup closed)

\* The site takes the first room of the list, or answers that there is none.
Offer(w, list) ==
    IF list.rooms = {} THEN Finish(w)
    ELSE GoOn(w, [pc |-> "recheck", room |-> Min(list.rooms), list |-> list])

Without(list, what) == [list EXCEPT !.missed = @ \cup {what}]

\* Who holds a list, the cache or a request, holds it without what was written.
Outdated(holder, what) ==
    IF "list" \in DOMAIN holder THEN [holder EXCEPT !.list = Without(@, what)] ELSE holder

OutdatedCache(what) == [k \in Keys |-> Outdated(cache[k], what)]

\* A write that no clearing follows.
Unannounced(what) ==
    /\ cache' = OutdatedCache(what)
    /\ req' = [w \in Slots |-> Outdated(req[w], what)]

-----------------------------------------------------------------------------
(* getAvailableRooms *)

\* The cache has no entry: the database is read.
Read(w, k, within, books) ==
    /\ req[w] = Idle
    /\ cache[k] = NoEntry
    /\ GoOn(w, [pc |-> "store", key |-> k, within |-> within, books |-> books,
                list |-> [rooms |-> Free(k, within), missed |-> {}]])
    /\ UNCHANGED <<taken, closed, cache>>

Store(w) ==
    /\ req[w].pc = "store"
    /\ cache' = [cache EXCEPT ![req[w].key] =
                   [list |-> req[w].list, within |-> req[w].within, ttl |-> 30]]
    /\ IF req[w].books THEN Offer(w, req[w].list) ELSE Finish(w)
    /\ UNCHANGED <<taken, closed>>

\* Thirty seconds later.
Expire(k) ==
    /\ cache[k].ttl = 30
    /\ cache' = [cache EXCEPT ![k] = NoEntry]
    /\ UNCHANGED <<taken, closed, req>>

-----------------------------------------------------------------------------
(* The public site's createReservation *)

\* An empty list is cached like any other.
OfferCached(w, k) ==
    /\ req[w] = Idle
    /\ cache[k] # NoEntry
    /\ Offer(w, cache[k].list)
    /\ UNCHANGED <<taken, closed, cache>>

\* The conflict query looks at reservations, not at the room.
TakeOffered(w) ==
    /\ req[w].pc = "recheck"
    /\ IF req[w].room \in taken
       THEN Finish(w) /\ taken' = taken
       ELSE GoOn(w, [pc |-> "clear"]) /\ taken' = taken \cup {req[w].room}
    /\ UNCHANGED <<closed, cache>>

-----------------------------------------------------------------------------
(* Writers *)

\* Mutant: the staff's booking does not clear the cache.
TakeUncleared(w, m) ==
    /\ req[w] = Idle
    /\ m \notin taken
    /\ taken' = taken \cup {m}
    /\ UNCHANGED <<closed, cache, req>>

\* A booking or a move by the staff.
Take(w, m) ==
    /\ req[w] = Idle
    /\ m \notin taken
    /\ taken' = taken \cup {m}
    /\ GoOn(w, [pc |-> "clear"])
    /\ UNCHANGED <<closed, cache>>

\* A cancellation or a move.
GiveBack(w, m) ==
    /\ req[w] = Idle
    /\ m \in taken
    /\ taken' = taken \ {m}
    /\ GoOn(w, [pc |-> "clear"])
    /\ UNCHANGED <<closed, cache>>

\* The whole cache goes; a list that was read before and is not stored yet does not.
Clear(w) ==
    /\ req[w].pc = "clear"
    /\ cache' = [k \in Keys |-> NoEntry]
    /\ req' = [v \in Slots |-> IF v = w THEN Idle ELSE Outdated(req[v], "reservation")]
    /\ UNCHANGED <<taken, closed>>

\* Any await may throw, and the process may stop: then the cache is not cleared.
Stop(w) ==
    /\ req[w] # Idle
    /\ IF req[w].pc = "clear"
       THEN /\ req' = [v \in Slots |-> IF v = w THEN Idle ELSE Outdated(req[v], "reservation")]
            /\ cache' = OutdatedCache("reservation")
       ELSE Finish(w) /\ cache' = cache
    /\ UNCHANGED <<taken, closed>>

\* updateStatus clears the cache for two statuses; no_show frees the room and is not one.
MarkNoShow(m) ==
    /\ m \in taken
    /\ taken' = taken \ {m}
    /\ Unannounced("no_show")
    /\ UNCHANGED closed

\* Nor is confirmed, which a request that a cancellation has overtaken writes over it.
Revive(m) ==
    /\ m \notin taken
    /\ taken' = taken \cup {m}
    /\ Unannounced("reservation")
    /\ UNCHANGED closed

\* A room's status, or its deletion, does not clear the cache.
SetRoomStatus(m) ==
    /\ closed' \in {closed \cup {m}, closed \ {m}}
    /\ closed' # closed
    /\ Unannounced("room")
    /\ UNCHANGED taken

-----------------------------------------------------------------------------
Next ==
    \/ \E w \in Slots :
        \/ \E k \in Keys, within \in Filters \cup {Room} : Read(w, k, within, FALSE)
        \/ \E k \in RoomTypes : Read(w, k, Room, TRUE) \/ OfferCached(w, k)
        \/ Store(w) \/ TakeOffered(w) \/ Clear(w) \/ Stop(w)
        \/ \E m \in Room : Take(w, m) \/ GiveBack(w, m)
    \/ \E k \in Keys : Expire(k)
    \/ \E m \in Room : MarkNoShow(m) \/ Revive(m) \/ SetRoomStatus(m)

Spec == Init /\ [][Next]_vars

-----------------------------------------------------------------------------
(* Properties *)

Shown(k) == cache[k].list.rooms

(***************************************************************************)
(* But for writers about to clear the cache, what it offers is free, and   *)
(* what is free is offered, for the filter it was asked with.  Otherwise   *)
(* the entry was read before a write whose clearing came first, or never   *)
(* came, or a room was closed or opened since; or there was a no-show,     *)
(* which can only leave a free room out.                                   *)
(***************************************************************************)
StaleOnlyIfRaced ==
    (\A w \in Slots : req[w].pc # "clear") =>
        \A k \in Keys : cache[k] # NoEntry =>
            LET missed == cache[k].list.missed
                free == Free(k, cache[k].within)
            IN /\ Shown(k) \subseteq free \/ missed \cap {"reservation", "room"} # {}
               /\ free \subseteq Shown(k) \/ missed # {}

(***************************************************************************)
(* The site books a closed room only if a room was closed after the list   *)
(* that offered it was read, since the booking checks reservations only.   *)
(***************************************************************************)
SiteBooksOpenRooms ==
    [][\A w \in Slots :
         req[w].pc = "recheck" /\ req'[w].pc = "clear" /\ "room" \notin req[w].list.missed
            => req[w].room \notin closed]_vars

=============================================================================
