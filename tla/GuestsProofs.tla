----------------------------- MODULE GuestsProofs -----------------------------
(***************************************************************************)
(* Theorems about Guests for any guests, addresses, tokens and requests.   *)
(* The first part holds whatever is in flight; the second is about one     *)
(* writer (OneWriter), the third about one portal request (OnePortal).     *)
(***************************************************************************)
EXTENDS Guests, TLAPS

\* Whatever refers to a guest refers to a row that was written: rows are never deleted.
Rooted ==
    /\ \A g \in stay : Exists(g)
    /\ \A k \in Tokens : token[k] # NoToken => Exists(token[k].guest)
    /\ \A w \in Slots : \A g \in About(w) : Exists(g)
    /\ \A g \in Guest : form[g] # NoForm => Exists(g)

\* Nobody has a way to a sealed guest.
SealedUntouched ==
    \A g \in sealed :
        /\ guest[g] = ErasedRow /\ form[g] = NoForm /\ g \notin kept
        /\ Untouchable(g)

\* The booking that has the guest's id is still at work, or the stay and the link are there;
\* who makes the link has made the stay.
Booking(g) == \E w \in Slots : req[w].pc \in {"web_book", "web_link"} /\ req[w].g = g

BookingWhole ==
    /\ \A w \in Slots : req[w].pc = "web_link" => req[w].g \in stay
    /\ \A g \in booked :
        Booking(g) \/ (g \in stay /\ \E k \in Tokens : token[k] # NoToken /\ token[k].guest = g)

GuestInv == TypeOK /\ Rooted /\ SealedUntouched /\ BookingWhole

-----------------------------------------------------------------------------
(* Records *)

\* The requests that are about a guest, and the fields of each.
AboutPc == {"update", "web_book", "web_link", "enter", "feedback", "write_form", "write_guest"}

LEMMA RequestFields ==
    ASSUME NEW r \in Request
    PROVE  /\ r.pc \in {"idle", "create", "web_guest"} \cup AboutPc
           /\ r.pc = "idle" => r = Idle
           /\ r.pc \in AboutPc => r.g \in Guest /\ "g" \in DOMAIN r
           /\ r.pc \notin AboutPc => "g" \notin DOMAIN r
           /\ r.pc \in {"create", "web_guest"} => r.email \in Emails \cup {"none"}
           /\ r.pc = "update" => r.email \in Emails \cup {"none", "same"}
           /\ r.pc = "write_form" => r.exists \in BOOLEAN
           /\ r.pc = "write_guest" => r.form \in Form
  BY DEF Request, Idle, AboutPc

LEMMA AboutIs ==
    ASSUME TypeOK, NEW w \in Slots
    PROVE  About(w) = IF req[w].pc \in AboutPc THEN {req[w].g} ELSE {}
  BY RequestFields DEF TypeOK, About

LEMMA GuestRowFields ==
    /\ NoGuest \notin GuestRow
    /\ ErasedRow \in GuestRow
    /\ \A r \in GuestRow : /\ r.active \in BOOLEAN /\ r.checked \in BOOLEAN
                           /\ r.name \in Names \cup {"[deleted]"}
                           /\ r.email \in Emails \cup {"none"}
  <1>1. \A r \in GuestRow : "name" \in DOMAIN r
    BY DEF GuestRow
  <1>2. "name" \notin DOMAIN NoGuest
    BY DEF NoGuest
  <1>3. QED
    BY <1>1, <1>2 DEF GuestRow, ErasedRow

LEMMA TokenFields ==
    /\ NoToken \notin Token
    /\ \A k \in Token : k.guest \in Guest /\ k.state \in {"live", "revoked", "expired"}
  <1>1. \A k \in Token : k.guest \in Guest /\ k.state \in {"live", "revoked", "expired"}
    BY DEF Token
  <1>2. NoToken.state = "none"
    BY DEF NoToken
  <1>3. QED
    BY <1>1, <1>2

\* What the state's records are, by name.
LEMMA StateFields ==
    ASSUME TypeOK
    PROVE  /\ \A g \in Guest : Exists(g) => guest[g] \in GuestRow
           /\ \A k \in Tokens : token[k] # NoToken \/ token[k].state # "none" =>
                 /\ token[k] \in Token /\ token[k] # NoToken
                 /\ token[k].guest \in Guest
                 /\ token[k].state \in {"live", "revoked", "expired"}
  <1>1. \A g \in Guest : Exists(g) => guest[g] \in GuestRow
    BY DEF TypeOK, Exists
  <1>2. NoToken.state = "none"
    BY DEF NoToken
  <1>3. QED
    BY <1>1, <1>2, TokenFields DEF TypeOK

-----------------------------------------------------------------------------
(* What every step respects, and why that is enough *)

\* No row, stay or token goes, and what comes hangs on a row that is there.
Grows ==
    /\ \A g \in Guest : Exists(g) => guest'[g] # NoGuest
    /\ \A g \in stay' : guest'[g] # NoGuest
    /\ stay \subseteq stay'
    /\ \A k \in Tokens : token[k] # NoToken =>
          /\ token'[k] # NoToken /\ token'[k].guest = token[k].guest
          /\ token[k].state = "expired" => token'[k].state = "expired"
    /\ \A k \in Tokens : token[k] = NoToken /\ token'[k] # NoToken =>
          guest'[token'[k].guest] # NoGuest /\ token'[k].guest \notin sealed'
    /\ \A g \in Guest : form'[g] # NoForm => form[g] # NoForm \/ guest'[g] # NoGuest

\* A request that goes on is about a guest that is there and not sealed, and who comes to
\* make the link has made the stay.
AsksRightly ==
    \A w \in Slots : req'[w] = req[w] \/
        /\ req'[w].pc \in AboutPc => guest'[req'[w].g] # NoGuest /\ req'[w].g \notin sealed'
        /\ req'[w].pc = "web_link" => req'[w].g \in stay'

\* What is sealed is erased, and was out of reach before.
SealsRightly ==
    \A g \in sealed' : /\ guest'[g] = ErasedRow /\ form'[g] = NoForm /\ g \notin kept'
                       /\ Untouchable(g)

\* A booking counts from its guest row on, and its request ends with the link.
BooksRightly ==
    \A g \in booked' :
        \/ \E w \in Slots : req'[w].pc \in {"web_book", "web_link"} /\ req'[w].g = g
        \/ g \in stay' /\ \E k \in Tokens : token'[k] # NoToken /\ token'[k].guest = g

LEMMA RespectIsEnough ==
    ASSUME GuestInv, TypeOK', Grows, AsksRightly, SealsRightly, BooksRightly
    PROVE  GuestInv'
  <1> USE DEF GuestInv
  <1>1. \A w \in Slots : /\ About(w) = IF req[w].pc \in AboutPc THEN {req[w].g} ELSE {}
                         /\ About(w)' = IF req'[w].pc \in AboutPc THEN {req'[w].g} ELSE {}
                         /\ req'[w].pc \in AboutPc => req'[w].g \in Guest
    <2>1. ASSUME NEW w \in Slots
          PROVE  About(w)' = IF req'[w].pc \in AboutPc THEN {req'[w].g} ELSE {}
      <3>1. req'[w] \in Request
        BY DEF TypeOK
      <3>2. QED
        BY <3>1, RequestFields DEF About
    <2>2. \A w \in Slots : req'[w] \in Request
      BY DEF TypeOK
    <2>3. QED
      BY <2>1, <2>2, AboutIs, RequestFields
  <1>2. Rooted'
    <2>1. \A g \in stay' : guest'[g] # NoGuest
      BY DEF Grows
    <2>2. \A k \in Tokens : token'[k] # NoToken => guest'[token'[k].guest] # NoGuest
      BY StateFields DEF Grows, Rooted
    <2>3. ASSUME NEW w \in Slots, NEW g \in About(w)'  PROVE guest'[g] # NoGuest
      <3>1. req'[w].pc \in AboutPc /\ g = req'[w].g /\ g \in Guest
        BY <1>1, <2>3
      <3>2. CASE req'[w] = req[w]
        BY <1>1, <3>1, <3>2 DEF Rooted, Grows
      <3>3. QED
        BY <3>1, <3>2 DEF AsksRightly
    <2>4. \A g \in Guest : form'[g] # NoForm => guest'[g] # NoGuest
      BY DEF Grows, Rooted
    <2>5. QED
      BY <2>1, <2>2, <2>3, <2>4 DEF Rooted, Exists
  <1>3. SealedUntouched'
    <2> SUFFICES ASSUME NEW g \in sealed'  PROVE Untouchable(g)'
      BY DEF SealsRightly, SealedUntouched, ErasedRow
    <2>1. Untouchable(g)
      BY DEF SealsRightly
    <2>2. ASSUME NEW w \in Slots  PROVE g \notin About(w)'
      <3>1. CASE req'[w] = req[w]
        BY <1>1, <2>1, <3>1 DEF Untouchable, InFlight
      <3>2. CASE req'[w] # req[w]
        BY <1>1, <3>2 DEF AsksRightly
      <3>3. QED
        BY <3>1, <3>2
    <2>3. \A k \in Tokens : token'[k] # NoToken /\ token'[k].guest = g => token'[k].state = "expired"
      BY <2>1 DEF Grows, Untouchable
    <2>4. QED
      BY <2>2, <2>3 DEF Untouchable, InFlight
  <1>4. BookingWhole'
    <2>1. \A w \in Slots : req'[w].pc = "web_link" => req'[w].g \in stay'
      BY DEF AsksRightly, BookingWhole, Grows
    <2>2. QED
      BY <2>1 DEF BooksRightly, BookingWhole, Booking
  <1>5. QED
    BY <1>2, <1>3, <1>4

\* What a turn of slot w leaves of the others' requests.
LEMMA SlotTurn ==
    ASSUME TypeOK, NEW w \in Slots, NEW memory \in Request, GoOn(w, memory)
    PROVE  /\ req' \in [Slots -> Request] /\ req'[w] = memory
           /\ \A v \in Slots \ {w} : req'[v] = req[v]
  BY DEF TypeOK, GoOn

\* A step of slot w that leaves the tables and books nothing: what it asks about must be
\* there, and a booking that it ends no longer counts.
LEMMA OnlyAsks ==
    ASSUME GuestInv, NEW w \in Slots, NEW memory \in Request, GoOn(w, memory),
           UNCHANGED rows, sealed' \subseteq sealed, booked' \subseteq booked, apart' \subseteq Guest,
           memory.pc \in AboutPc => Exists(memory.g) /\ memory.g \notin sealed',
           memory.pc # "web_link",
           req[w].pc \in {"web_book", "web_link"} => req[w].g \notin booked'
    PROVE  GuestInv'
  <1> USE DEF GuestInv, rows
  <1>1. /\ req' \in [Slots -> Request] /\ req'[w] = memory
        /\ \A v \in Slots \ {w} : req'[v] = req[v]
    BY SlotTurn
  <1>2. TypeOK'
    BY <1>1 DEF TypeOK
  <1>3. Grows
    BY DEF Grows, Rooted, Exists
  <1>4. AsksRightly
    BY <1>1 DEF AsksRightly, Exists
  <1>5. SealsRightly
    BY DEF SealsRightly, SealedUntouched
  <1>6. BooksRightly
    BY <1>1 DEF BooksRightly, BookingWhole, Booking
  <1>7. QED
    BY <1>2, <1>3, <1>4, <1>5, <1>6, RespectIsEnough

LEMMA StartsAsking ==
    ASSUME GuestInv, NEW w \in Slots, NEW memory \in Request, Start(w, memory),
           UNCHANGED rows, UNCHANGED <<booked, apart>>, sealed' \subseteq sealed,
           memory.pc \in AboutPc => Exists(memory.g) /\ memory.g \notin sealed',
           memory.pc # "web_link"
    PROVE  GuestInv'
  <1>1. req[w].pc = "idle" /\ GoOn(w, memory)
    BY DEF Start, GoOn, Idle
  <1>2. apart' \subseteq Guest
    BY DEF GuestInv, TypeOK
  <1>3. QED
    BY <1>1, <1>2, OnlyAsks

LEMMA IdleRequest == Idle \in Request /\ Idle.pc = "idle" /\ "idle" \notin AboutPc
  BY DEF Request, Idle, AboutPc

-----------------------------------------------------------------------------
(* The actions, one by one *)

LEMMA AskingSteps ==
    ASSUME GuestInv, NEW w \in Slots,
           \/ \E email \in Emails \cup {"none"} : ReadForCreate(w, email)
           \/ \E email \in Emails : FindNoGuest(w, email)
           \/ \E g \in Guest, email \in Emails \cup {"none", "same"} : ReadForUpdate(w, g, email)
           \/ RefuseRoom(w)
           \/ \E k \in Tokens : EnterPortal(w, k) \/ ReadForFeedback(w, k)
           \/ FindForm(w) \/ Abandon(w)
    PROVE  GuestInv'
  <1> USE DEF GuestInv, history
  <1>1. TypeOK /\ apart \subseteq Guest /\ req[w] \in Request
    BY DEF TypeOK
  <1>2. CASE \E email \in Emails \cup {"none"} : ReadForCreate(w, email)
    <2>1. PICK email \in Emails \cup {"none"} : ReadForCreate(w, email)
      BY <1>2
    <2> DEFINE memory == [pc |-> "create", email |-> email]
    <2>2. memory \in Request /\ memory.pc = "create"
      BY DEF Request
    <2>3. Start(w, memory) /\ UNCHANGED <<rows, history>>
      BY <2>1 DEF ReadForCreate
    <2> HIDE DEF memory
    <2>4. QED
      BY <2>2, <2>3, StartsAsking DEF AboutPc
  <1>3. CASE \E email \in Emails : FindNoGuest(w, email)
    <2>1. PICK email \in Emails : FindNoGuest(w, email)
      BY <1>3
    <2> DEFINE memory == [pc |-> "web_guest", email |-> email]
    <2>2. memory \in Request /\ memory.pc = "web_guest"
      BY DEF Request
    <2>3. Start(w, memory) /\ UNCHANGED <<rows, history>>
      BY <2>1 DEF FindNoGuest
    <2> HIDE DEF memory
    <2>4. QED
      BY <2>2, <2>3, StartsAsking DEF AboutPc
  <1>4. CASE \E g \in Guest, email \in Emails \cup {"none", "same"} : ReadForUpdate(w, g, email)
    <2>1. PICK g \in Guest, email \in Emails \cup {"none", "same"} : ReadForUpdate(w, g, email)
      BY <1>4
    <2> DEFINE memory == [pc |-> "update", g |-> g, email |-> email]
    <2>2. memory \in Request /\ memory.pc = "update" /\ memory.g = g
      BY DEF Request
    <2>3. Start(w, memory) /\ Exists(g) /\ sealed' = sealed \ {g} /\ UNCHANGED <<rows, booked, apart>>
      BY <2>1 DEF ReadForUpdate
    <2> HIDE DEF memory
    <2>4. QED
      BY <2>2, <2>3, StartsAsking
  <1>5. CASE RefuseRoom(w)
    BY <1>1, <1>5, IdleRequest, OnlyAsks DEF RefuseRoom, Finish
  <1>6. ASSUME NEW k \in Tokens, NEW pc \in {"enter", "feedback"},
               token[k].state \in {"live", "revoked"},
               Start(w, [pc |-> pc, g |-> token[k].guest]), UNCHANGED <<rows, history>>
        PROVE  GuestInv'
    <2>1. token[k] # NoToken /\ token[k].guest \in Guest
      BY <1>1, <1>6, StateFields
    <2>2. Exists(token[k].guest) /\ token[k].guest \notin sealed
      BY <1>6, <2>1 DEF Rooted, SealedUntouched, Untouchable
    <2> DEFINE memory == [pc |-> pc, g |-> token[k].guest]
    <2>3. memory \in Request /\ memory.pc = pc /\ memory.g = token[k].guest
      BY <2>1 DEF Request
    <2>4. Start(w, memory) /\ UNCHANGED <<rows, history>>
      BY <1>6
    <2> HIDE DEF memory
    <2>5. QED
      BY <2>2, <2>3, <2>4, StartsAsking
  <1>7. CASE \E k \in Tokens : EnterPortal(w, k) \/ ReadForFeedback(w, k)
    BY <1>6, <1>7 DEF EnterPortal, ReadForFeedback
  <1>8. CASE FindForm(w)
    <2> DEFINE memory == [pc |-> "write_form", g |-> req[w].g, exists |-> form[req[w].g] # NoForm]
    <2>1. req[w].pc = "enter" /\ req[w].g \in About(w) /\ req[w].g \in Guest
      BY <1>1, <1>8, AboutIs, RequestFields DEF FindForm, AboutPc
    <2>2. Exists(req[w].g) /\ req[w].g \notin sealed
      BY <2>1 DEF Rooted, SealedUntouched, Untouchable, InFlight
    <2>3. memory \in Request
      BY <2>1 DEF Request
    <2>4. GoOn(w, memory)
      BY <1>8 DEF FindForm
    <2>5. memory.pc = "write_form" /\ memory.g = req[w].g
      OBVIOUS
    <2> HIDE DEF memory
    <2>6. QED
      BY <1>1, <1>8, <2>1, <2>2, <2>3, <2>4, <2>5, OnlyAsks DEF FindForm
  <1>9. CASE Abandon(w)
    <2>1. apart' \subseteq Guest
      BY <1>1, <1>9, RequestFields DEF Abandon, AboutPc
    <2>2. QED
      BY <1>1, <1>9, <2>1, IdleRequest, OnlyAsks DEF Abandon, Finish
  <1>10. QED
    BY <1>2, <1>3, <1>4, <1>5, <1>7, <1>8, <1>9

\* A guest row that was not there: nothing referred to it.
LEMMA GuestsCome ==
    ASSUME GuestInv, NEW w \in Slots, NEW g \in Guest, NEW name \in Names,
           CreateGuest(w, g, name) \/ CreateWebGuest(w, g, name)
    PROVE  GuestInv'
  <1> USE DEF GuestInv
  <1> DEFINE written == [active |-> TRUE, name |-> name, email |-> req[w].email, checked |-> TRUE]
  <1>1. /\ TypeOK /\ req[w] \in Request /\ req[w].email \in Emails \cup {"none"}
        /\ req[w].pc \in {"create", "web_guest"}
    BY RequestFields DEF TypeOK, CreateGuest, CreateWebGuest
  <1>2. written \in GuestRow /\ written # NoGuest /\ written # ErasedRow
    <2>1. written \in GuestRow /\ written.active
      BY <1>1 DEF GuestRow
    <2>2. ~ErasedRow.active
      BY DEF ErasedRow
    <2>3. QED
      BY <2>1, <2>2, GuestRowFields
  <1>3. /\ guest' \in [Guest -> GuestRow \cup {NoGuest}]
        /\ guest'[g] = written /\ \A h \in Guest \ {g} : guest'[h] = guest[h]
        /\ guest[g] = NoGuest
    BY <1>2 DEF TypeOK, CreateGuest, CreateWebGuest, Exists
  <1>4. UNCHANGED <<stay, form, kept, reviewed, token, apart, sealed>>
    BY DEF CreateGuest, CreateWebGuest, history
  <1>5. PICK memory \in Request : /\ GoOn(w, memory)
                                  /\ booked' = booked \/ (booked' = booked \cup {g} /\ memory.pc = "web_book")
                                  /\ memory.pc \in {"idle", "web_book"}
                                  /\ memory.pc = "web_book" => memory.g = g
    <2>1. [pc |-> "web_book", g |-> g] \in Request
      BY DEF Request
    <2>2. QED
      BY <2>1, IdleRequest DEF CreateGuest, CreateWebGuest, Finish, history
  <1>6. /\ req' \in [Slots -> Request] /\ req'[w] = memory
        /\ \A v \in Slots \ {w} : req'[v] = req[v]
    BY <1>5, SlotTurn
  <1>7. TypeOK'
    BY <1>3, <1>4, <1>5, <1>6 DEF TypeOK
  <1>8. Grows
    <2>1. \A h \in stay : h \in Guest /\ h # g
      BY <1>3 DEF TypeOK, Rooted, Exists
    <2>2. QED
      BY <1>2, <1>3, <1>4, <2>1 DEF Grows, Rooted, Exists
  <1>9. g \notin sealed
    BY <1>3, GuestRowFields DEF SealedUntouched
  <1>10. AsksRightly
    BY <1>2, <1>3, <1>4, <1>5, <1>6, <1>9 DEF AsksRightly, AboutPc
  <1>11. SealsRightly
    BY <1>3, <1>4, <1>9 DEF SealsRightly, SealedUntouched, TypeOK
  <1>12. BooksRightly
    BY <1>1, <1>4, <1>5, <1>6 DEF BooksRightly, BookingWhole, Booking
  <1>13. QED
    BY <1>7, <1>8, <1>10, <1>11, <1>12, RespectIsEnough

\* A guest row that is there is written, by a request about it, so it is not sealed.
LEMMA GuestsChange ==
    ASSUME GuestInv, NEW w \in Slots, (\E name \in Names : UpdateGuest(w, name)) \/ WriteGuest(w)
    PROVE  GuestInv'
  <1> USE DEF GuestInv
  <1>1. PICK g \in Guest : /\ g = req[w].g /\ g \in About(w) /\ req[w] \in Request
                           /\ req[w].pc \in {"update", "write_guest"}
    <2>1. req[w] \in Request /\ req[w].pc \in {"update", "write_guest"}
      BY DEF TypeOK, UpdateGuest, WriteGuest
    <2>2. req[w].g \in Guest /\ req[w].g \in About(w)
      BY <2>1, AboutIs, RequestFields DEF AboutPc
    <2>3. QED
      BY <2>1, <2>2
  <1>2. Exists(g) /\ guest[g] \in GuestRow /\ g \notin sealed
    BY <1>1, StateFields DEF Rooted, SealedUntouched, Untouchable, InFlight
  <1>3. PICK name \in Names \cup {"[deleted]"}, email \in Emails \cup {"none"}, checked \in BOOLEAN :
           guest' = [guest EXCEPT ![g].name = name, ![g].email = email, ![g].checked = checked]
    <2>1. CASE \E name \in Names : UpdateGuest(w, name)
      <3>1. req[w].email \in Emails \cup {"none", "same"}
        BY <1>1, <2>1, RequestFields DEF UpdateGuest
      <3>2. PICK name \in Names :
               guest' = [guest EXCEPT ![g].name = name,
                                      ![g].email = IF req[w].email = "same" THEN @ ELSE req[w].email,
                                      ![g].checked = @ \/ ~(req[w].email = "same")]
        BY <1>1, <2>1 DEF UpdateGuest
      <3>3. guest[g].email \in Emails \cup {"none"} /\ guest[g].checked \in BOOLEAN
        BY <1>2, GuestRowFields
      <3> DEFINE email == IF req[w].email = "same" THEN guest[g].email ELSE req[w].email
                 checked == guest[g].checked \/ ~(req[w].email = "same")
      <3>4. email \in Emails \cup {"none"} /\ checked \in BOOLEAN
        BY <3>1, <3>3
      <3>5. guest' = [guest EXCEPT ![g].name = name, ![g].email = email, ![g].checked = checked]
        BY <1>2, <3>2 DEF TypeOK, GuestRow
      <3>6. QED
        BY <3>4, <3>5
    <2>2. CASE WriteGuest(w)
      <3>1. req[w].form \in Form
        BY <1>1, <2>2, RequestFields DEF WriteGuest
      <3>2. guest' = [guest EXCEPT ![g].name = req[w].form.name,
                         ![g].email = IF req[w].form.email = "none" THEN @ ELSE req[w].form.email,
                         ![g].checked = @ /\ req[w].form.email = "none"]
        BY <1>1, <2>2 DEF WriteGuest
      <3>3. /\ guest[g].email \in Emails \cup {"none"} /\ guest[g].checked \in BOOLEAN
            /\ req[w].form.name \in Names /\ req[w].form.email \in Emails \cup {"none"}
        BY <1>2, <3>1, GuestRowFields DEF Form
      <3> DEFINE email == IF req[w].form.email = "none" THEN guest[g].email ELSE req[w].form.email
                 checked == guest[g].checked /\ req[w].form.email = "none"
      <3>4. email \in Emails \cup {"none"} /\ checked \in BOOLEAN
        BY <3>3
      <3>5. guest' = [guest EXCEPT ![g].name = req[w].form.name, ![g].email = email,
                                   ![g].checked = checked]
        BY <1>2, <3>2 DEF TypeOK, GuestRow
      <3>6. QED
        BY <3>3, <3>4, <3>5
    <2>3. QED
      BY <2>1, <2>2
  <1>4. /\ guest' \in [Guest -> GuestRow \cup {NoGuest}]
        /\ guest'[g] \in GuestRow /\ \A h \in Guest \ {g} : guest'[h] = guest[h]
    BY <1>2, <1>3 DEF TypeOK, GuestRow
  <1>5. UNCHANGED <<stay, form, kept, reviewed, token, booked, sealed>>
    BY DEF UpdateGuest, WriteGuest
  <1>6. apart' \subseteq Guest
    BY <1>1 DEF TypeOK, UpdateGuest, WriteGuest
  <1>7. /\ req' \in [Slots -> Request] /\ req'[w] = Idle
        /\ \A v \in Slots \ {w} : req'[v] = req[v]
    BY IdleRequest, SlotTurn DEF UpdateGuest, WriteGuest, Finish
  <1>8. TypeOK'
    BY <1>4, <1>5, <1>6, <1>7 DEF TypeOK
  <1>9. Grows
    BY <1>4, <1>5, GuestRowFields DEF Grows, Rooted, Exists, TypeOK
  <1>10. AsksRightly
    BY <1>7, IdleRequest DEF AsksRightly
  <1>11. SealsRightly
    BY <1>2, <1>4, <1>5 DEF SealsRightly, SealedUntouched, TypeOK
  <1>12. BooksRightly
    BY <1>1, <1>5, <1>7 DEF BooksRightly, BookingWhole, Booking
  <1>13. QED
    BY <1>8, <1>9, <1>10, <1>11, <1>12, RespectIsEnough

\* The guest a request is about is there, and not sealed.
LEMMA AboutIsThere ==
    ASSUME GuestInv, NEW w \in Slots, req[w].pc \in AboutPc
    PROVE  req[w].g \in Guest /\ Exists(req[w].g) /\ req[w].g \notin sealed
  <1>1. req[w].g \in Guest /\ req[w].g \in About(w)
    BY AboutIs, RequestFields DEF GuestInv, TypeOK
  <1>2. QED
    BY <1>1 DEF GuestInv, Rooted, SealedUntouched, Untouchable, InFlight

\* The stay and the link of a booking on the site.
LEMMA SiteBooks ==
    ASSUME GuestInv, NEW w \in Slots, Book(w) \/ \E k \in Tokens : SendWebLink(w, k)
    PROVE  GuestInv'
  <1> USE DEF GuestInv, history
  <1>1. PICK g \in Guest : g = req[w].g /\ Exists(g) /\ g \notin sealed
    BY AboutIsThere DEF Book, SendWebLink, AboutPc
  <1>2. UNCHANGED <<guest, form, kept, reviewed, booked, apart, sealed>>
    BY DEF Book, SendWebLink
  <1>3. CASE Book(w)
    <2> DEFINE memory == [pc |-> "web_link", g |-> g]
    <2>1. memory \in Request /\ GoOn(w, memory)
      BY <1>1, <1>3 DEF Request, Book
    <2>2. req' \in [Slots -> Request] /\ req'[w] = memory /\ \A v \in Slots \ {w} : req'[v] = req[v]
      BY <2>1, SlotTurn
    <2>3. stay' = stay \cup {g} /\ token' = token /\ req[w].pc = "web_book"
      BY <1>1, <1>3 DEF Book
    <2>4. TypeOK'
      BY <1>2, <2>2, <2>3 DEF TypeOK
    <2>5. Grows
      BY <1>1, <1>2, <2>3 DEF Grows, Rooted, Exists
    <2>6. AsksRightly
      BY <1>1, <1>2, <2>2, <2>3 DEF AsksRightly, Exists
    <2>7. SealsRightly
      BY <1>2 DEF SealsRightly, SealedUntouched
    <2>8. BooksRightly
      BY <1>1, <1>2, <2>2, <2>3 DEF BooksRightly, BookingWhole, Booking
    <2>9. QED
      BY <2>4, <2>5, <2>6, <2>7, <2>8, RespectIsEnough
  <1>4. CASE \E k \in Tokens : SendWebLink(w, k)
    <2>1. PICK k \in Tokens : SendWebLink(w, k)
      BY <1>4
    <2> DEFINE link == [guest |-> g, state |-> "live"]
    <2>2. link \in Token /\ link # NoToken /\ link.guest = g
      BY DEF Token, NoToken
    <2>3. /\ token' \in [Tokens -> Token \cup {NoToken}] /\ token'[k] = link
          /\ token[k] = NoToken /\ \A i \in Tokens \ {k} : token'[i] = token[i]
      BY <1>1, <2>1, <2>2 DEF SendWebLink, NewToken, TypeOK
    <2>4. req' \in [Slots -> Request] /\ req'[w] = Idle /\ \A v \in Slots \ {w} : req'[v] = req[v]
      BY <2>1, IdleRequest, SlotTurn DEF SendWebLink, Finish
    <2>5. stay' = stay /\ g \in stay
      BY <1>1, <2>1 DEF SendWebLink, BookingWhole
    <2>6. TypeOK'
      BY <1>2, <2>3, <2>4, <2>5 DEF TypeOK
    <2>7. Grows
      BY <1>1, <1>2, <2>2, <2>3, <2>5 DEF Grows, Rooted, Exists
    <2>8. AsksRightly
      BY <2>4, IdleRequest DEF AsksRightly
    <2>9. SealsRightly
      BY <1>2 DEF SealsRightly, SealedUntouched
    <2>10. BooksRightly
      <3>1. ASSUME NEW h \in booked \ {g}
            PROVE  \/ \E v \in Slots : req'[v].pc \in {"web_book", "web_link"} /\ req'[v].g = h
                   \/ h \in stay' /\ \E i \in Tokens : token'[i] # NoToken /\ token'[i].guest = h
        BY <1>1, <2>3, <2>4, <2>5, <3>1 DEF BookingWhole, Booking
      <3>2. QED
        BY <1>2, <2>2, <2>3, <2>5, <3>1 DEF BooksRightly
    <2>11. QED
      BY <2>6, <2>7, <2>8, <2>9, <2>10, RespectIsEnough
  <1>5. QED
    BY <1>3, <1>4

\* The form and the feedback of a guest that a portal request is about.
LEMMA GuestWrites ==
    ASSUME GuestInv, NEW w \in Slots, (\E f \in Form : WriteForm(w, f)) \/ WriteFeedback(w)
    PROVE  GuestInv'
  <1> USE DEF GuestInv, history
  <1>1. PICK g \in Guest : g = req[w].g /\ Exists(g) /\ g \notin sealed
    BY AboutIsThere DEF WriteForm, WriteFeedback, AboutPc
  <1>2. UNCHANGED <<guest, stay, token, booked, apart, sealed>>
    BY DEF WriteForm, WriteFeedback
  <1>3. PICK memory \in Request :
           /\ GoOn(w, memory)
           /\ memory.pc \in {"idle", "write_guest"}
           /\ memory.pc = "write_guest" => memory.g = g
    <2>1. ASSUME NEW f \in Form, WriteForm(w, f)
          PROVE  GoOn(w, Idle) \/ GoOn(w, [pc |-> "write_guest", g |-> g, form |-> f])
      BY <1>1, <2>1 DEF WriteForm, Finish
    <2>2. \A f \in Form : [pc |-> "write_guest", g |-> g, form |-> f] \in Request
      BY DEF Request
    <2>3. CASE WriteFeedback(w)
      BY <2>3, IdleRequest DEF WriteFeedback, Finish
    <2>4. QED
      BY <2>1, <2>2, <2>3, IdleRequest
  <1>4. req' \in [Slots -> Request] /\ req'[w] = memory /\ \A v \in Slots \ {w} : req'[v] = req[v]
    BY <1>3, SlotTurn
  <1>5. /\ form' \in [Guest -> Form \cup {NoForm}] /\ \A h \in Guest \ {g} : form'[h] = form[h]
        /\ kept' \subseteq kept \cup {g} /\ reviewed' \subseteq Guest
    BY <1>1 DEF TypeOK, WriteForm, WriteFeedback
  <1>6. req[w].pc \in {"write_form", "feedback"}
    BY DEF WriteForm, WriteFeedback
  <1>7. TypeOK'
    BY <1>2, <1>4, <1>5 DEF TypeOK
  <1>8. Grows
    BY <1>1, <1>2, <1>5 DEF Grows, Rooted, Exists
  <1>9. AsksRightly
    BY <1>1, <1>2, <1>3, <1>4 DEF AsksRightly, AboutPc, Exists
  <1>10. SealsRightly
    BY <1>1, <1>2, <1>5 DEF SealsRightly, SealedUntouched, TypeOK
  <1>11. BooksRightly
    BY <1>2, <1>4, <1>6 DEF BooksRightly, BookingWhole, Booking
  <1>12. QED
    BY <1>7, <1>8, <1>9, <1>10, <1>11, RespectIsEnough

\* The steps of the staff that no request remembers.
LEMMA StaffActs ==
    ASSUME GuestInv, NEW g \in Guest,
           \/ SoftDelete(g) \/ AddDocument(g) \/ Reserve(g)
           \/ RevokeAllTokens(g) \/ ExpireTokens(g) \/ \E k \in Tokens : SendLinkByStaff(g, k)
    PROVE  GuestInv'
  <1> USE DEF GuestInv, history
  <1>1. UNCHANGED <<req, booked, apart, reviewed>>
    BY DEF SoftDelete, AddDocument, Reserve, RevokeAllTokens, ExpireTokens, SendLinkByStaff
  <1>2. AsksRightly
    BY <1>1 DEF AsksRightly
  <1>3. ASSUME TypeOK', Grows, SealsRightly
        PROVE  GuestInv'
    <2>1. BooksRightly
      BY <1>1, <1>3 DEF BooksRightly, BookingWhole, Booking, Grows
    <2>2. QED
      BY <1>2, <1>3, <2>1, RespectIsEnough
  <1>4. CASE SoftDelete(g)
    <2>1. /\ guest' \in [Guest -> GuestRow \cup {NoGuest}] /\ guest'[g] = ErasedRow
          /\ \A h \in Guest \ {g} : guest'[h] = guest[h]
      BY <1>4, GuestRowFields DEF SoftDelete, TypeOK
    <2>2. /\ form' \in [Guest -> Form \cup {NoForm}] /\ form'[g] = NoForm
          /\ \A h \in Guest \ {g} : form'[h] = form[h]
      BY <1>4 DEF SoftDelete, TypeOK
    <2>3. kept' = kept \ {g} /\ UNCHANGED <<stay, token>>
      BY <1>4 DEF SoftDelete
    <2>4. sealed' \subseteq Guest /\ \A h \in sealed' : h \in sealed \/ (h = g /\ Untouchable(g))
      BY <1>4 DEF SoftDelete, TypeOK
    <2>5. TypeOK'
      BY <1>1, <2>1, <2>2, <2>3, <2>4 DEF TypeOK
    <2>6. Grows
      BY <2>1, <2>2, <2>3, GuestRowFields DEF Grows, Rooted, Exists, TypeOK
    <2>7. SealsRightly
      BY <2>1, <2>2, <2>3, <2>4 DEF SealsRightly, SealedUntouched
    <2>8. QED
      BY <1>3, <2>5, <2>6, <2>7
  <1>5. CASE AddDocument(g) \/ Reserve(g)
    <2>1. TypeOK'
      BY <1>1, <1>5 DEF AddDocument, Reserve, TypeOK
    <2>2. Grows
      BY <1>5 DEF AddDocument, Reserve, Grows, Rooted, Exists
    <2>3. SealsRightly
      BY <1>5 DEF AddDocument, Reserve, SealsRightly, SealedUntouched
    <2>4. QED
      BY <1>3, <2>1, <2>2, <2>3
  <1>6. CASE RevokeAllTokens(g) \/ ExpireTokens(g)
    <2>1. UNCHANGED <<guest, stay, form, kept, sealed>>
      BY <1>6 DEF RevokeAllTokens, ExpireTokens
    <2>2. ASSUME NEW k \in Tokens
          PROVE  \/ token'[k] = token[k]
                 \/ /\ token[k] # NoToken
                    /\ \E state \in {"revoked", "expired"} :
                          /\ token'[k] = [token[k] EXCEPT !.state = state]
                          /\ token[k].state = "expired" => state = "expired"
      <3>1. CASE RevokeAllTokens(g)
        BY <3>1, StateFields DEF RevokeAllTokens
      <3>2. CASE ExpireTokens(g)
        BY <3>2 DEF ExpireTokens
      <3>3. QED
        BY <1>6, <3>1, <3>2
    <2>3. ASSUME NEW k \in Tokens
          PROVE  /\ token'[k] \in Token \cup {NoToken}
                 /\ token[k] # NoToken => /\ token'[k] # NoToken /\ token'[k].guest = token[k].guest
                                          /\ token[k].state = "expired" => token'[k].state = "expired"
                 /\ token[k] = NoToken => token'[k] = NoToken
      <3>1. ASSUME NEW state \in {"revoked", "expired"}, token[k] # NoToken
            PROVE  /\ [token[k] EXCEPT !.state = state] \in Token
                   /\ [token[k] EXCEPT !.state = state].guest = token[k].guest
                   /\ [token[k] EXCEPT !.state = state].state = state
        BY <3>1, StateFields DEF Token
      <3>2. QED
        BY <2>2, <3>1, TokenFields DEF TypeOK
    <2>4. DOMAIN token' = Tokens /\ token' = [k \in Tokens |-> token'[k]]
      BY <1>6 DEF RevokeAllTokens, ExpireTokens
    <2>5. TypeOK'
      BY <1>1, <2>1, <2>3, <2>4 DEF TypeOK
    <2>6. Grows
      BY <2>1, <2>3 DEF Grows, Rooted, Exists
    <2>7. SealsRightly
      BY <2>1 DEF SealsRightly, SealedUntouched
    <2>8. QED
      BY <1>3, <2>5, <2>6, <2>7
  <1>7. CASE \E k \in Tokens : SendLinkByStaff(g, k)
    <2>1. PICK k \in Tokens : SendLinkByStaff(g, k)
      BY <1>7
    <2> DEFINE link == [guest |-> g, state |-> "live"]
    <2>2. link \in Token /\ link # NoToken /\ link.guest = g
      BY DEF Token, NoToken
    <2>3. /\ token' \in [Tokens -> Token \cup {NoToken}] /\ token'[k] = link
          /\ token[k] = NoToken /\ \A i \in Tokens \ {k} : token'[i] = token[i]
      BY <2>1, <2>2 DEF SendLinkByStaff, NewToken, TypeOK
    <2>4. /\ UNCHANGED <<guest, stay, form, kept>> /\ sealed' = sealed \ {g}
          /\ Exists(g)
      BY <2>1 DEF SendLinkByStaff, Rooted
    <2>5. TypeOK'
      BY <1>1, <2>3, <2>4 DEF TypeOK
    <2>6. Grows
      BY <2>2, <2>3, <2>4 DEF Grows, Rooted, Exists
    <2>7. SealsRightly
      BY <2>4 DEF SealsRightly, SealedUntouched
    <2>8. QED
      BY <1>3, <2>5, <2>6, <2>7
  <1>8. QED
    BY <1>4, <1>5, <1>6, <1>7

LEMMA GuestInvStep == GuestInv /\ [Next]_vars => GuestInv'
  <1> SUFFICES ASSUME GuestInv, [Next]_vars  PROVE GuestInv'
    OBVIOUS
  <1>1. ASSUME NEW w \in Writers, WriterStep(w)  PROVE GuestInv'
    <2>1. w \in Slots
      BY DEF Slots
    <2>2. QED
      BY <1>1, <2>1, AskingSteps, GuestsCome, GuestsChange, SiteBooks DEF WriterStep
  <1>2. ASSUME NEW p \in Portals, PortalStep(p)  PROVE GuestInv'
    <2>1. p \in Slots
      BY DEF Slots
    <2>2. QED
      BY <1>2, <2>1, AskingSteps, GuestsChange, GuestWrites DEF PortalStep
  <1>3. CASE UNCHANGED vars
    BY <1>3 DEF vars, rows, history, GuestInv, TypeOK, Rooted, SealedUntouched, BookingWhole,
                Exists, About, Booking, Untouchable, InFlight
  <1>4. QED
    BY <1>1, <1>2, <1>3, AskingSteps, StaffActs DEF Next

LEMMA GuestInvInit == Init => GuestInv
  BY IdleRequest DEF Init, GuestInv, TypeOK, Rooted, SealedUntouched, BookingWhole, Exists, About,
                     Idle

LEMMA GuestsHold == Spec => []GuestInv
  BY GuestInvInit, GuestInvStep, PTL DEF Spec

\* The guests, their copies, the tokens and every request have their types.
THEOREM GuestTypes == Spec => []TypeOK
  <1>1. GuestInv => TypeOK
    BY DEF GuestInv
  <1>2. QED
    BY <1>1, GuestsHold, PTL

\* A guest erased when no token and no request could reach it stays erased in every table.
THEOREM ErasedStaysErased == Spec => []SealedStaysErased
  <1>1. GuestInv => SealedStaysErased
    BY DEF GuestInv, SealedUntouched, SealedStaysErased
  <1>2. QED
    BY <1>1, GuestsHold, PTL

\* A booking on the site ends with a stay and a link, however many are made at once.
THEOREM SiteBookingIsWhole == Spec => []WebBookingWhole
  <1>1. GuestInv => WebBookingWhole
    <2> SUFFICES ASSUME GuestInv  PROVE WebBookingWhole
      OBVIOUS
    <2>1. \A g \in Guest : Booking(g) => InFlight(g)
      BY AboutIs DEF GuestInv, Booking, InFlight, AboutPc
    <2>2. QED
      BY <2>1 DEF GuestInv, TypeOK, BookingWhole, WebBookingWhole
  <1>2. QED
    BY <1>1, GuestsHold, PTL

-----------------------------------------------------------------------------
(* One writer: the staff and the site create and edit guests one at a time *)

OneWriter == \A a, b \in Writers : a = b

WriterPc == {"create", "web_guest", "update"}

\* No guest of S that is active, and whose e-mail was checked, has this one.
Free(email, S) ==
    \A h \in S : guest[h].active /\ guest[h].checked /\ guest[h].email = email => email = "none"

\* The e-mail the writer found free is still free, but for those that the portal wrote.
WriterSees(w) ==
    /\ req[w].pc \in WriterPc => w \in Writers
    /\ req[w].pc \in {"create", "web_guest"} => Free(req[w].email, Guest)
    /\ req[w].pc = "update" /\ req[w].email # "same" => Free(req[w].email, Guest \ {req[w].g})

WriterInv == GuestInv /\ CheckedEmailsUnique /\ \A w \in Slots : WriterSees(w)

\* The step brings no active guest with a checked e-mail.
NoneChecked ==
    \A h \in Guest : guest'[h].active /\ guest'[h].checked =>
        guest[h].active /\ guest[h].checked /\ guest'[h].email = guest[h].email

LEMMA EmailsKept ==
    ASSUME WriterInv, GuestInv', NoneChecked,
           \A v \in Slots : req'[v].pc \in WriterPc => req'[v] = req[v] \/ WriterSees(v)'
    PROVE  WriterInv'
  <1> USE DEF WriterInv
  <1>1. CheckedEmailsUnique'
    BY DEF CheckedEmailsUnique, NoneChecked
  <1>2. ASSUME NEW v \in Slots  PROVE WriterSees(v)'
    <2>1. CASE req'[v].pc \notin WriterPc
      BY <2>1 DEF WriterSees, WriterPc
    <2>2. CASE req'[v] = req[v]
      <3>1. WriterSees(v)
        OBVIOUS
      <3>2. \A email, S : Free(email, S) /\ S \subseteq Guest => Free(email, S)'
        BY DEF Free, NoneChecked
      <3>3. QED
        BY <2>2, <3>1, <3>2 DEF WriterSees
    <2>3. QED
      BY <2>1, <2>2
  <1>3. QED
    BY <1>1, <1>2

LEMMA WriterWrites ==
    ASSUME OneWriter, WriterInv, GuestInv', CheckedEmailsUnique', NEW w \in Writers,
           NEW memory \in Request, GoOn(w, memory), memory.pc \notin WriterPc
    PROVE  WriterInv'
  <1>1. /\ w \in Slots /\ req'[w] = memory /\ \A v \in Slots \ {w} : req'[v] = req[v]
    BY SlotTurn DEF Slots, WriterInv, GuestInv
  <1>2. \A v \in Slots \ {w} : req[v].pc \notin WriterPc
    BY DEF OneWriter, WriterInv, WriterSees
  <1>3. \A v \in Slots : req'[v].pc \notin WriterPc
    BY <1>1, <1>2
  <1>4. \A v \in Slots : WriterSees(v)'
    BY <1>3 DEF WriterSees, WriterPc
  <1>5. QED
    BY <1>4 DEF WriterInv

\* The e-mail of a new guest was found free, and nobody else checked one since.
LEMMA NewEmailIsUnique ==
    ASSUME OneWriter, WriterInv, GuestInv', NEW w \in Writers, NEW g \in Guest, NEW name \in Names,
           CreateGuest(w, g, name) \/ CreateWebGuest(w, g, name)
    PROVE  WriterInv'
  <1> USE DEF WriterInv, GuestInv
  <1>1. w \in Slots /\ req[w].pc \in {"create", "web_guest"} /\ Free(req[w].email, Guest)
    BY DEF Slots, WriterSees, CreateGuest, CreateWebGuest
  <1>2. /\ guest'[g].active /\ guest'[g].checked /\ guest'[g].email = req[w].email
        /\ \A h \in Guest \ {g} : guest'[h] = guest[h]
    BY DEF TypeOK, CreateGuest, CreateWebGuest
  <1>3. CheckedEmailsUnique'
    <2> SUFFICES ASSUME NEW a \in Guest, NEW b \in Guest,
                        guest'[a].active, guest'[b].active, a # b,
                        guest'[a].email = guest'[b].email, guest'[a].email # "none",
                        guest'[a].checked, guest'[b].checked
                 PROVE  FALSE
      BY DEF CheckedEmailsUnique
    <2>1. CASE a # g /\ b # g
      BY <1>2, <2>1 DEF CheckedEmailsUnique
    <2>2. CASE a = g \/ b = g
      BY <1>1, <1>2, <2>2 DEF Free
    <2>3. QED
      BY <2>1, <2>2
  <1>4. PICK memory \in Request : GoOn(w, memory) /\ memory.pc \notin WriterPc
    <2>1. [pc |-> "web_book", g |-> g] \in Request
      BY DEF Request
    <2>2. CASE CreateGuest(w, g, name)
      BY <2>2, IdleRequest DEF CreateGuest, Finish, WriterPc
    <2>3. CASE CreateWebGuest(w, g, name)
      <3> DEFINE memory == [pc |-> "web_book", g |-> g]
      <3>1. memory \in Request /\ GoOn(w, memory) /\ memory.pc \notin WriterPc
        BY <2>1, <2>3 DEF CreateWebGuest, WriterPc
      <3>2. QED
        BY <3>1
    <2>4. QED
      BY <2>2, <2>3
  <1>5. QED
    BY <1>3, <1>4, WriterWrites

\* An edit keeps the e-mail, checked or not, or writes one that was found free.
LEMMA EditedEmailIsUnique ==
    ASSUME OneWriter, WriterInv, GuestInv', NEW w \in Writers, NEW name \in Names,
           UpdateGuest(w, name)
    PROVE  WriterInv'
  <1> USE DEF WriterInv, GuestInv
  <1>1. PICK g \in Guest : /\ g = req[w].g /\ guest[g] \in GuestRow
                           /\ w \in Slots /\ req[w].pc = "update"
    <2>1. w \in Slots /\ req[w].pc = "update"
      BY DEF Slots, UpdateGuest
    <2>2. req[w].g \in Guest /\ Exists(req[w].g)
      BY <2>1, AboutIsThere DEF AboutPc
    <2>3. QED
      BY <2>1, <2>2, StateFields
  <1>2. /\ guest'[g].active <=> guest[g].active
        /\ guest'[g].email = IF req[w].email = "same" THEN guest[g].email ELSE req[w].email
        /\ guest'[g].checked <=> (guest[g].checked \/ req[w].email # "same")
        /\ \A h \in Guest \ {g} : guest'[h] = guest[h]
    BY <1>1 DEF UpdateGuest, TypeOK, GuestRow
  <1>3. CheckedEmailsUnique'
    <2> SUFFICES ASSUME NEW a \in Guest, NEW b \in Guest,
                        guest'[a].active, guest'[b].active, a # b,
                        guest'[a].email = guest'[b].email, guest'[a].email # "none",
                        guest'[a].checked, guest'[b].checked
                 PROVE  FALSE
      BY DEF CheckedEmailsUnique
    <2>1. CASE (a # g /\ b # g) \/ req[w].email = "same"
      BY <1>2, <2>1 DEF CheckedEmailsUnique
    <2>2. CASE (a = g \/ b = g) /\ req[w].email # "same"
      <3>1. Free(req[w].email, Guest \ {g})
        BY <1>1, <2>2 DEF WriterSees
      <3>2. QED
        BY <1>2, <2>2, <3>1 DEF Free
    <2>3. QED
      BY <2>1, <2>2
  <1>4. GoOn(w, Idle) /\ Idle.pc \notin WriterPc
    BY IdleRequest DEF UpdateGuest, Finish, WriterPc
  <1>5. QED
    BY <1>3, <1>4, IdleRequest, WriterWrites

\* The e-mail that is read as free is free.
LEMMA WriterReads ==
    ASSUME WriterInv, GuestInv', NEW w \in Writers,
           \/ \E email \in Emails \cup {"none"} : ReadForCreate(w, email)
           \/ \E email \in Emails : FindNoGuest(w, email)
           \/ \E g \in Guest, email \in Emails \cup {"none", "same"} : ReadForUpdate(w, g, email)
    PROVE  WriterInv'
  <1> USE DEF WriterInv, GuestInv, rows
  <1>1. w \in Slots /\ guest' = guest
    BY DEF Slots, ReadForCreate, FindNoGuest, ReadForUpdate
  <1>2. NoneChecked
    BY <1>1 DEF NoneChecked
  <1>3. ASSUME NEW memory \in Request, Start(w, memory),
               memory.pc \in {"create", "web_guest"} => Free(memory.email, Guest),
               memory.pc = "update" /\ memory.email # "same" => Free(memory.email, Guest \ {memory.g})
        PROVE  WriterInv'
    <2>1. req'[w] = memory /\ \A v \in Slots \ {w} : req'[v] = req[v]
      BY <1>1, <1>3, SlotTurn DEF Start, GoOn
    <2>2. \A email, S : Free(email, S) <=> Free(email, S)'
      BY <1>1 DEF Free
    <2>3. WriterSees(w)'
      BY <1>3, <2>1, <2>2 DEF WriterSees
    <2>4. QED
      BY <1>2, <2>1, <2>3, EmailsKept
  <1>4. CASE \E email \in Emails \cup {"none"} : ReadForCreate(w, email)
    <2>1. PICK email \in Emails \cup {"none"} : ReadForCreate(w, email)
      BY <1>4
    <2> DEFINE memory == [pc |-> "create", email |-> email]
    <2>2. memory \in Request /\ memory.pc = "create" /\ memory.email = email
      BY DEF Request
    <2>3. Start(w, memory) /\ Free(email, Guest)
      BY <2>1 DEF ReadForCreate, Free
    <2> HIDE DEF memory
    <2>4. QED
      BY <1>3, <2>2, <2>3
  <1>5. CASE \E email \in Emails : FindNoGuest(w, email)
    <2>1. PICK email \in Emails : FindNoGuest(w, email)
      BY <1>5
    <2> DEFINE memory == [pc |-> "web_guest", email |-> email]
    <2>2. memory \in Request /\ memory.pc = "web_guest" /\ memory.email = email
      BY DEF Request
    <2>3. Start(w, memory) /\ Free(email, Guest)
      BY <2>1 DEF FindNoGuest, Free
    <2> HIDE DEF memory
    <2>4. QED
      BY <1>3, <2>2, <2>3
  <1>6. CASE \E g \in Guest, email \in Emails \cup {"none", "same"} : ReadForUpdate(w, g, email)
    <2>1. PICK g \in Guest, email \in Emails \cup {"none", "same"} : ReadForUpdate(w, g, email)
      BY <1>6
    <2> DEFINE memory == [pc |-> "update", g |-> g, email |-> email]
    <2>2. memory \in Request /\ memory.pc = "update" /\ memory.email = email /\ memory.g = g
      BY DEF Request
    <2>3. Start(w, memory) /\ (email # "same" => Free(email, Guest \ {g}))
      BY <2>1 DEF ReadForUpdate, NoDuplicate, Free
    <2> HIDE DEF memory
    <2>4. QED
      BY <1>3, <2>2, <2>3
  <1>7. QED
    BY <1>4, <1>5, <1>6

\* A step that leaves the guests' rows, by slot w or by none, and is no read of the writer.
LEMMA RowsLeft ==
    ASSUME WriterInv, GuestInv', NEW w \in Slots, NEW memory \in Request, GoOn(w, memory),
           memory.pc \notin WriterPc, NoneChecked
    PROVE  WriterInv'
  <1>1. req'[w] = memory /\ \A v \in Slots \ {w} : req'[v] = req[v]
    BY SlotTurn DEF WriterInv, GuestInv
  <1>2. QED
    BY <1>1, EmailsKept

\* The booking on the site after the guest's row, and what ends a request.
LEMMA WriterGoesOn ==
    ASSUME WriterInv, GuestInv', NEW w \in Slots,
           Book(w) \/ RefuseRoom(w) \/ (\E k \in Tokens : SendWebLink(w, k)) \/ Abandon(w)
    PROVE  WriterInv'
  <1> USE DEF WriterInv, rows
  <1>1. NoneChecked
    BY DEF NoneChecked, Book, RefuseRoom, SendWebLink, Abandon
  <1>2. CASE Book(w)
    <2> DEFINE memory == [pc |-> "web_link", g |-> req[w].g]
    <2>1. req[w].g \in Guest
      BY <1>2, AboutIsThere DEF Book, AboutPc
    <2>2. memory \in Request /\ GoOn(w, memory) /\ memory.pc \notin WriterPc
      BY <1>2, <2>1 DEF Book, Request, WriterPc
    <2> HIDE DEF memory
    <2>3. QED
      BY <1>1, <2>2, RowsLeft
  <1>3. CASE RefuseRoom(w) \/ (\E k \in Tokens : SendWebLink(w, k)) \/ Abandon(w)
    <2>1. GoOn(w, Idle) /\ Idle.pc \notin WriterPc
      BY <1>3, IdleRequest DEF RefuseRoom, SendWebLink, Abandon, Finish, WriterPc
    <2>2. QED
      BY <1>1, <2>1, IdleRequest, RowsLeft
  <1>4. QED
    BY <1>2, <1>3

\* The portal writes an e-mail only unchecked.
LEMMA PortalChecksNothing ==
    ASSUME WriterInv, GuestInv', NEW p \in Slots, PortalStep(p)
    PROVE  WriterInv'
  <1> USE DEF WriterInv, GuestInv, rows
  <1>1. NoneChecked
    <2>1. CASE WriteGuest(p)
      <3>1. PICK g \in Guest : g = req[p].g /\ guest[g] \in GuestRow
        BY <2>1, AboutIsThere, StateFields DEF WriteGuest, AboutPc
      <3>2. /\ guest'[g].active <=> guest[g].active
            /\ guest'[g].email = IF req[p].form.email = "none" THEN guest[g].email ELSE req[p].form.email
            /\ guest'[g].checked <=> (guest[g].checked /\ req[p].form.email = "none")
            /\ \A h \in Guest \ {g} : guest'[h] = guest[h]
        BY <2>1, <3>1 DEF WriteGuest, TypeOK, GuestRow
      <3>3. QED
        BY <3>2 DEF NoneChecked
    <2>2. CASE guest' = guest
      BY <2>2 DEF NoneChecked
    <2>3. QED
      BY <2>1, <2>2 DEF PortalStep, EnterPortal, ReadForFeedback, FindForm, WriteForm, WriteFeedback
  <1>2. \A v \in Slots : req'[v] = req[v] \/ req'[v].pc \notin WriterPc
    <2>1. PICK memory : GoOn(p, memory) /\ memory.pc \notin WriterPc
      <3>1. CASE \E k \in Tokens : EnterPortal(p, k) \/ ReadForFeedback(p, k)
        <4>1. PICK k \in Tokens : \/ GoOn(p, [pc |-> "enter", g |-> token[k].guest])
                                 \/ GoOn(p, [pc |-> "feedback", g |-> token[k].guest])
          BY <3>1 DEF EnterPortal, ReadForFeedback, Start, GoOn
        <4>2. /\ [pc |-> "enter", g |-> token[k].guest].pc \notin WriterPc
              /\ [pc |-> "feedback", g |-> token[k].guest].pc \notin WriterPc
          BY DEF WriterPc
        <4>3. QED
          BY <4>1, <4>2
      <3>2. CASE FindForm(p)
        BY <3>2 DEF FindForm, WriterPc
      <3>3. CASE \E f \in Form : WriteForm(p, f)
        <4>1. PICK f \in Form : \/ GoOn(p, Idle)
                               \/ GoOn(p, [pc |-> "write_guest", g |-> req[p].g, form |-> f])
          BY <3>3 DEF WriteForm, Finish
        <4>2. /\ Idle.pc \notin WriterPc
              /\ [pc |-> "write_guest", g |-> req[p].g, form |-> f].pc \notin WriterPc
          BY IdleRequest DEF WriterPc
        <4>3. QED
          BY <4>1, <4>2
      <3>4. CASE WriteGuest(p) \/ WriteFeedback(p)
        BY <3>4, IdleRequest DEF WriteGuest, WriteFeedback, Finish, WriterPc
      <3>5. QED
        BY <3>1, <3>2, <3>3, <3>4 DEF PortalStep
    <2>2. QED
      BY <2>1 DEF GoOn, TypeOK
  <1>3. QED
    BY <1>1, <1>2, EmailsKept

LEMMA StaffChecksNothing ==
    ASSUME WriterInv, GuestInv', NEW g \in Guest,
           \/ SoftDelete(g) \/ AddDocument(g) \/ Reserve(g)
           \/ RevokeAllTokens(g) \/ ExpireTokens(g) \/ \E k \in Tokens : SendLinkByStaff(g, k)
    PROVE  WriterInv'
  <1>1. req' = req
    BY DEF SoftDelete, AddDocument, Reserve, RevokeAllTokens, ExpireTokens, SendLinkByStaff
  <1>2. guest' = guest \/ guest' = [guest EXCEPT ![g] = ErasedRow]
    BY DEF SoftDelete, AddDocument, Reserve, RevokeAllTokens, ExpireTokens, SendLinkByStaff
  <1>3. NoneChecked
    BY <1>2 DEF NoneChecked, ErasedRow, WriterInv, GuestInv, TypeOK
  <1>4. QED
    BY <1>1, <1>3, EmailsKept

LEMMA WriterHolds ==
    ASSUME OneWriter
    PROVE  Spec => []WriterInv
  <1>1. Init => WriterInv
    <2> SUFFICES ASSUME Init  PROVE WriterInv
      OBVIOUS
    <2>1. CheckedEmailsUnique
      BY DEF Init, CheckedEmailsUnique, NoGuest
    <2>2. \A w \in Slots : WriterSees(w)
      BY IdleRequest DEF Init, WriterSees, WriterPc
    <2>3. QED
      BY <2>1, <2>2, GuestInvInit DEF WriterInv
  <1>2. WriterInv /\ [Next]_vars => WriterInv'
    <2> SUFFICES ASSUME WriterInv, [Next]_vars  PROVE WriterInv'
      OBVIOUS
    <2>1. GuestInv'
      BY GuestInvStep DEF WriterInv
    <2>2. ASSUME NEW w \in Writers, WriterStep(w)  PROVE WriterInv'
      <3>1. w \in Slots
        BY DEF Slots
      <3>2. QED
        BY <2>1, <2>2, <3>1, WriterReads, NewEmailIsUnique, EditedEmailIsUnique, WriterGoesOn
        DEF WriterStep
    <2>3. ASSUME NEW p \in Portals, PortalStep(p)  PROVE WriterInv'
      BY <2>1, <2>3, PortalChecksNothing DEF Slots
    <2>4. CASE UNCHANGED vars
      <3>1. NoneChecked
        BY <2>4 DEF vars, rows, NoneChecked
      <3>2. QED
        BY <2>1, <2>4, <3>1, EmailsKept DEF vars
    <2>5. QED
      BY <2>1, <2>2, <2>3, <2>4, WriterGoesOn, StaffChecksNothing DEF Next
  <1>3. QED
    BY <1>1, <1>2, PTL DEF Spec

\* With one writer no two active guests have the same checked e-mail, whatever the portal
\* writes between the check and the write.
THEOREM OneWriterKeepsUnique ==
    ASSUME OneWriter
    PROVE  Spec => []CheckedEmailsUnique
  <1>1. WriterInv => CheckedEmailsUnique
    BY DEF WriterInv
  <1>2. QED
    BY <1>1, WriterHolds, PTL

-----------------------------------------------------------------------------
(* One portal: a guest submits one online check-in form at a time *)

OnePortal == \A a, b \in Portals : a = b

PortalPc == {"enter", "write_form", "write_guest"}

\* Between its two writes a submission finds the form it wrote, or none if the guest was
\* erased meanwhile.
PortalSees(w) ==
    /\ req[w].pc \in PortalPc => w \in Portals
    /\ req[w].pc = "write_guest" => form[req[w].g] \in {NoForm, req[w].form}

PortalInv == OnePortal /\ GuestInv /\ FormMatchesGuest /\ \A w \in Slots : PortalSees(w)

\* A form is left or erased; the row that goes with it changes only for a guest that is set
\* apart; a submission does not reach its second write, nor leave it, unnoticed.
FormsLeft ==
    /\ apart \subseteq apart'
    /\ \A g \in Guest : form'[g] \in {NoForm, form[g]}
    /\ \A g \in Guest \ apart' : form'[g] # NoForm =>
          guest'[g].name = guest[g].name /\ guest'[g].email = guest[g].email
    /\ \A w \in Slots : req'[w] = req[w] \/
          /\ req[w].pc = "write_guest" => req[w].g \in apart'
          /\ req'[w].pc \in PortalPc => w \in Portals /\ req'[w].pc # "write_guest"

LEMMA FormsKept ==
    ASSUME PortalInv, GuestInv', FormsLeft
    PROVE  PortalInv'
  <1> USE DEF PortalInv
  <1>1. FormMatchesGuest'
    <2> SUFFICES ASSUME NEW g \in Guest \ apart', form'[g] # NoForm
                 PROVE  \/ \E p \in Portals : req'[p].pc = "write_guest" /\ req'[p].g = g
                        \/ /\ guest'[g].name = form'[g].name
                           /\ form'[g].email \in {guest'[g].email, "none"}
      BY DEF FormMatchesGuest
    <2>1. g \in Guest \ apart /\ form'[g] = form[g]
      BY DEF FormsLeft
    <2>2. CASE \E p \in Portals : req[p].pc = "write_guest" /\ req[p].g = g
      <3>1. PICK p \in Portals : req[p].pc = "write_guest" /\ req[p].g = g
        BY <2>2
      <3>2. p \in Slots
        BY DEF Slots
      <3>3. req'[p] = req[p]
        BY <3>1, <3>2 DEF FormsLeft
      <3>4. QED
        BY <3>1, <3>3
    <2>3. CASE guest[g].name = form[g].name /\ form[g].email \in {guest[g].email, "none"}
      BY <2>1, <2>3 DEF FormsLeft
    <2>4. QED
      BY <2>1, <2>2, <2>3 DEF FormMatchesGuest
  <1>2. ASSUME NEW w \in Slots  PROVE PortalSees(w)'
    <2>1. CASE req'[w] = req[w]
      <3>1. req[w].pc = "write_guest" => req[w].g \in Guest
        BY AboutIsThere DEF AboutPc
      <3>2. QED
        BY <2>1, <3>1 DEF FormsLeft, PortalSees
    <2>2. CASE req'[w] # req[w]
      BY <2>2 DEF FormsLeft, PortalSees, PortalPc
    <2>3. QED
      BY <2>1, <2>2
  <1>3. QED
    BY <1>1, <1>2 DEF OnePortal

\* The first write of a submission: the form tells more than the row until the second.
LEMMA FormIsWritten ==
    ASSUME PortalInv, GuestInv', NEW p \in Slots, NEW f \in Form, WriteForm(p, f)
    PROVE  PortalInv'
  <1> USE DEF PortalInv
  <1>1. PICK g \in Guest : g = req[p].g /\ p \in Portals
    BY AboutIsThere DEF WriteForm, AboutPc, PortalSees, PortalPc
  <1>2. UNCHANGED <<guest, apart>> /\ req[p].pc = "write_form"
    BY DEF WriteForm, history
  <1>3. CASE Finish(p) /\ form' = form
    <2>1. \A v \in Slots : req'[v] = req[v] \/ (v = p /\ req'[v].pc = "idle")
      BY <1>3, IdleRequest, SlotTurn DEF GuestInv, Finish
    <2>2. FormsLeft
      BY <1>2, <1>3, <2>1 DEF FormsLeft, PortalPc
    <2>3. QED
      BY <2>2, FormsKept
  <1>4. CASE form' = [form EXCEPT ![g] = f] /\ GoOn(p, [pc |-> "write_guest", g |-> g, form |-> f])
    <2> DEFINE memory == [pc |-> "write_guest", g |-> g, form |-> f]
    <2>1. /\ memory \in Request /\ GoOn(p, memory)
          /\ memory.pc = "write_guest" /\ memory.g = g /\ memory.form = f
      BY <1>4 DEF Request
    <2> HIDE DEF memory
    <2>2. req'[p] = memory /\ \A v \in Slots \ {p} : req'[v] = req[v]
      BY <2>1, SlotTurn DEF GuestInv
    <2>3. form'[g] = f /\ \A h \in Guest \ {g} : form'[h] = form[h]
      BY <1>4 DEF GuestInv, TypeOK
    \* The others are not at their second write: there is one portal request.
    <2>4. \A v \in Slots : req[v].pc # "write_guest"
      BY <1>1, <1>2 DEF OnePortal, PortalSees, PortalPc
    <2>5. FormMatchesGuest'
      <3>1. \A h \in Guest \ (apart \cup {g}) :
               form'[h] = NoForm
               \/ (guest'[h].name = form'[h].name /\ form'[h].email \in {guest'[h].email, "none"})
        BY <1>2, <2>3, <2>4 DEF FormMatchesGuest, Slots
      <3>2. QED
        BY <1>1, <1>2, <2>1, <2>2, <3>1 DEF FormMatchesGuest
    <2>6. ASSUME NEW v \in Slots  PROVE PortalSees(v)'
      <3>1. CASE v = p
        BY <1>1, <2>1, <2>2, <2>3, <3>1 DEF PortalSees
      <3>2. CASE v # p
        BY <2>2, <2>4, <3>2 DEF PortalSees
      <3>3. QED
        BY <3>1, <3>2
    <2>7. QED
      BY <2>5, <2>6 DEF OnePortal
  <1>5. QED
    BY <1>1, <1>3, <1>4 DEF WriteForm

\* The second write makes the row tell what the form tells, if the form is still there.
LEMMA GuestIsWritten ==
    ASSUME PortalInv, GuestInv', NEW p \in Slots, WriteGuest(p)
    PROVE  PortalInv'
  <1> USE DEF PortalInv
  <1>1. PICK g \in Guest : g = req[p].g /\ p \in Portals /\ guest[g] \in GuestRow
    BY AboutIsThere, StateFields DEF GuestInv, WriteGuest, AboutPc, PortalSees, PortalPc
  <1>2. /\ guest'[g].name = req[p].form.name
        /\ guest'[g].email = IF req[p].form.email = "none" THEN guest[g].email ELSE req[p].form.email
        /\ \A h \in Guest \ {g} : guest'[h] = guest[h]
    BY <1>1 DEF WriteGuest, GuestInv, TypeOK, GuestRow
  <1>3. form' = form /\ apart' = apart \ {g} /\ req[p].pc = "write_guest"
    BY <1>1 DEF WriteGuest
  <1>4. req'[p] = Idle /\ \A v \in Slots \ {p} : req'[v] = req[v]
    BY IdleRequest, SlotTurn DEF GuestInv, WriteGuest, Finish
  <1>5. form[g] \in {NoForm, req[p].form}
    BY <1>1, <1>3 DEF PortalSees
  <1>6. FormMatchesGuest'
    <2>1. form'[g] = NoForm
          \/ (guest'[g].name = form'[g].name /\ form'[g].email \in {guest'[g].email, "none"})
      BY <1>2, <1>3, <1>5
    <2>2. ASSUME NEW h \in Guest \ (apart \cup {g})
          PROVE  form'[h] = NoForm
                 \/ (guest'[h].name = form'[h].name /\ form'[h].email \in {guest'[h].email, "none"})
      <3>1. ~ \E q \in Portals : req[q].pc = "write_guest" /\ req[q].g = h
        BY <1>1 DEF OnePortal
      <3>2. QED
        BY <1>2, <1>3, <3>1 DEF FormMatchesGuest
    <2>3. QED
      BY <1>3, <2>1, <2>2 DEF FormMatchesGuest
  <1>7. ASSUME NEW v \in Slots  PROVE PortalSees(v)'
    BY <1>3, <1>4, IdleRequest DEF PortalSees, PortalPc
  <1>8. QED
    BY <1>6, <1>7 DEF OnePortal

\* The reads of the portal, and the feedback.
LEMMA PortalReads ==
    ASSUME PortalInv, GuestInv', NEW p \in Portals,
           (\E k \in Tokens : EnterPortal(p, k) \/ ReadForFeedback(p, k)) \/ FindForm(p) \/ WriteFeedback(p)
    PROVE  PortalInv'
  <1> USE DEF PortalInv
  <1>1. UNCHANGED <<guest, form, apart>> /\ req[p].pc # "write_guest"
    BY IdleRequest DEF EnterPortal, ReadForFeedback, FindForm, WriteFeedback, Start, rows, history
  <1>2. PICK memory : GoOn(p, memory) /\ memory.pc # "write_guest"
    <2>1. CASE \E k \in Tokens : EnterPortal(p, k) \/ ReadForFeedback(p, k)
      <3>1. PICK k \in Tokens : \/ GoOn(p, [pc |-> "enter", g |-> token[k].guest])
                               \/ GoOn(p, [pc |-> "feedback", g |-> token[k].guest])
        BY <2>1 DEF EnterPortal, ReadForFeedback, Start, GoOn
      <3>2. /\ [pc |-> "enter", g |-> token[k].guest].pc # "write_guest"
            /\ [pc |-> "feedback", g |-> token[k].guest].pc # "write_guest"
        OBVIOUS
      <3>3. QED
        BY <3>1, <3>2
    <2>2. CASE FindForm(p)
      BY <2>2 DEF FindForm
    <2>3. CASE WriteFeedback(p)
      BY <2>3, IdleRequest DEF WriteFeedback, Finish
    <2>4. QED
      BY <2>1, <2>2, <2>3
  <1>3. \A v \in Slots : req'[v] = req[v] \/ (v = p /\ req'[v] = memory)
    BY <1>2 DEF GoOn, GuestInv, TypeOK
  <1>4. FormsLeft
    BY <1>1, <1>2, <1>3 DEF FormsLeft
  <1>5. QED
    BY <1>4, FormsKept

\* The writers: a new row has no form, and an edited one is set apart.
LEMMA WritersLeaveForms ==
    ASSUME PortalInv, GuestInv', NEW w \in Slots, WriterStep(w) \/ Abandon(w)
    PROVE  PortalInv'
  <1> USE DEF PortalInv
  <1>1. form' = form /\ apart \subseteq apart'
    BY DEF WriterStep, Abandon, ReadForCreate, FindNoGuest, CreateGuest, CreateWebGuest,
           ReadForUpdate, UpdateGuest, Book, RefuseRoom, SendWebLink, rows, history
  <1>2. ASSUME NEW h \in Guest \ apart', form[h] # NoForm
        PROVE  guest'[h] = guest[h]
    <2>1. Exists(h)
      BY <1>2 DEF GuestInv, Rooted
    <2>2. CASE \E g \in Guest, name \in Names : CreateGuest(w, g, name) \/ CreateWebGuest(w, g, name)
      BY <2>1, <2>2 DEF CreateGuest, CreateWebGuest, GuestInv, TypeOK
    <2>3. CASE \E name \in Names : UpdateGuest(w, name)
      BY <1>2, <2>3 DEF UpdateGuest, GuestInv, TypeOK
    <2>4. CASE guest' = guest
      BY <2>4
    <2>5. QED
      BY <2>2, <2>3, <2>4 DEF WriterStep, Abandon, ReadForCreate, FindNoGuest, ReadForUpdate, Book,
                              RefuseRoom, SendWebLink, rows
  <1>3. PICK memory : GoOn(w, memory) /\ memory.pc \notin PortalPc
    <2>1. CASE (\E email \in Emails \cup {"none"} : ReadForCreate(w, email))
               \/ \E email \in Emails : FindNoGuest(w, email)
      <3>1. PICK email \in Emails \cup {"none"} : \/ GoOn(w, [pc |-> "create", email |-> email])
                                                 \/ GoOn(w, [pc |-> "web_guest", email |-> email])
        BY <2>1 DEF ReadForCreate, FindNoGuest, Start, GoOn
      <3>2. /\ [pc |-> "create", email |-> email].pc \notin PortalPc
            /\ [pc |-> "web_guest", email |-> email].pc \notin PortalPc
        BY DEF PortalPc
      <3>3. QED
        BY <3>1, <3>2
    <2>2. CASE \E g \in Guest, email \in Emails \cup {"none", "same"} : ReadForUpdate(w, g, email)
      <3>1. PICK g \in Guest, email \in Emails \cup {"none", "same"} :
               GoOn(w, [pc |-> "update", g |-> g, email |-> email])
        BY <2>2 DEF ReadForUpdate, Start, GoOn
      <3>2. [pc |-> "update", g |-> g, email |-> email].pc \notin PortalPc
        BY DEF PortalPc
      <3>3. QED
        BY <3>1, <3>2
    <2>3. CASE (\E g \in Guest, name \in Names : CreateWebGuest(w, g, name)) \/ Book(w)
      <3>1. PICK g : \/ GoOn(w, [pc |-> "web_book", g |-> g])
                     \/ GoOn(w, [pc |-> "web_link", g |-> g])
        BY <2>3 DEF CreateWebGuest, Book
      <3>2. /\ [pc |-> "web_book", g |-> g].pc \notin PortalPc
            /\ [pc |-> "web_link", g |-> g].pc \notin PortalPc
        BY DEF PortalPc
      <3>3. QED
        BY <3>1, <3>2
    <2>4. CASE \/ \E g \in Guest, name \in Names : CreateGuest(w, g, name)
               \/ \E name \in Names : UpdateGuest(w, name)
               \/ RefuseRoom(w) \/ Abandon(w) \/ \E k \in Tokens : SendWebLink(w, k)
      BY <2>4, IdleRequest
      DEF CreateGuest, UpdateGuest, RefuseRoom, Abandon, SendWebLink, Finish, PortalPc
    <2>5. QED
      BY <2>1, <2>2, <2>3, <2>4 DEF WriterStep
  <1>4. \A v \in Slots : req'[v] = req[v] \/ (v = w /\ req'[v] = memory)
    BY <1>3 DEF GoOn, GuestInv, TypeOK
  <1>5. req[w].pc = "write_guest" => req[w].g \in apart'
    <2>1. CASE Abandon(w)
      BY <2>1 DEF Abandon
    <2>2. CASE WriterStep(w)
      BY <2>2, IdleRequest
      DEF WriterStep, ReadForCreate, FindNoGuest, CreateGuest, CreateWebGuest,
          ReadForUpdate, UpdateGuest, Book, RefuseRoom, SendWebLink, Start
    <2>3. QED
      BY <2>1, <2>2
  <1>6. FormsLeft
    BY <1>1, <1>2, <1>3, <1>4, <1>5 DEF FormsLeft
  <1>7. QED
    BY <1>6, FormsKept

\* An erasure leaves no form; the other steps of the staff leave the rows and the forms.
LEMMA StaffLeavesForms ==
    ASSUME PortalInv, GuestInv', NEW g \in Guest,
           \/ SoftDelete(g) \/ AddDocument(g) \/ Reserve(g)
           \/ RevokeAllTokens(g) \/ ExpireTokens(g) \/ \E k \in Tokens : SendLinkByStaff(g, k)
    PROVE  PortalInv'
  <1> USE DEF PortalInv
  <1>1. UNCHANGED <<req, apart>>
    BY DEF SoftDelete, AddDocument, Reserve, RevokeAllTokens, ExpireTokens, SendLinkByStaff, history
  <1>2. \/ UNCHANGED <<guest, form>>
        \/ guest' = [guest EXCEPT ![g] = ErasedRow] /\ form' = [form EXCEPT ![g] = NoForm]
    BY DEF SoftDelete, AddDocument, Reserve, RevokeAllTokens, ExpireTokens, SendLinkByStaff
  <1>3. FormsLeft
    BY <1>1, <1>2 DEF FormsLeft, GuestInv, TypeOK
  <1>4. QED
    BY <1>3, FormsKept

LEMMA PortalHolds ==
    ASSUME OnePortal
    PROVE  Spec => []PortalInv
  <1>1. Init => PortalInv
    <2> SUFFICES ASSUME Init  PROVE PortalInv
      OBVIOUS
    <2>1. FormMatchesGuest
      BY DEF Init, FormMatchesGuest
    <2>2. \A w \in Slots : PortalSees(w)
      BY IdleRequest DEF Init, PortalSees, PortalPc
    <2>3. QED
      BY <2>1, <2>2, GuestInvInit DEF PortalInv
  <1>2. PortalInv /\ [Next]_vars => PortalInv'
    <2> SUFFICES ASSUME PortalInv, [Next]_vars  PROVE PortalInv'
      OBVIOUS
    <2>1. GuestInv'
      BY GuestInvStep DEF PortalInv
    <2>2. ASSUME NEW w \in Writers, WriterStep(w)  PROVE PortalInv'
      BY <2>1, <2>2, WritersLeaveForms DEF Slots
    <2>3. ASSUME NEW p \in Portals, PortalStep(p)  PROVE PortalInv'
      <3>1. p \in Slots
        BY DEF Slots
      <3>2. QED
        BY <2>1, <2>3, <3>1, PortalReads, FormIsWritten, GuestIsWritten DEF PortalStep
    <2>4. CASE UNCHANGED vars
      <3>1. FormsLeft
        BY <2>4 DEF vars, rows, history, FormsLeft
      <3>2. QED
        BY <2>1, <3>1, FormsKept
    <2>5. QED
      BY <2>1, <2>2, <2>3, <2>4, WritersLeaveForms, StaffLeavesForms DEF Next
  <1>3. QED
    BY <1>1, <1>2, PTL DEF Spec

\* With one portal request at a time the form and the row tell the same, however the guest is
\* edited, erased or checked in between its two writes.
THEOREM OnePortalKeepsForm ==
    ASSUME OnePortal
    PROVE  Spec => []FormMatchesGuest
  <1>1. PortalInv => FormMatchesGuest
    BY DEF PortalInv
  <1>2. QED
    BY <1>1, PortalHolds, PTL

=============================================================================
