-------------------------------- MODULE Guests --------------------------------
(***************************************************************************)
(* The guests of one branch and the copies the system keeps of what they   *)
(* say about themselves: the guest row, the online check-in form, identity *)
(* documents and feedback.  Staff create, edit and erase guests; the       *)
(* public site creates one with each booking; the guest writes through the *)
(* portal, with a token that is looked up once, at the door.               *)
(*                                                                         *)
(* A guest has at most one reservation here.  The passport number, which   *)
(* is checked as the e-mail is, and the phone are not told apart from the  *)
(* name and the e-mail.                                                    *)
(***************************************************************************)
EXTENDS Naturals, FiniteSets

CONSTANTS
    Guest,      \* ids of guest rows
    Emails,     \* e-mail addresses
    Names,      \* names a guest may give
    Tokens,     \* ids of portal tokens
    Writers,    \* slots for requests of the staff and of the public site
    Portals     \* slots for requests of the portal

VARIABLES
    guest,      \* guest[g]: the guest's row, or NoGuest
    stay,       \* guests with a reservation
    form,       \* form[g]: the online check-in of the guest's reservation, or NoForm
    kept,       \* guests of whom a document or a comment on the stay is kept unerased
    reviewed,   \* guests whose reservation has feedback
    token,      \* token[k]: the portal token k, or NoToken
    req,        \* req[w] is what slot w remembers across its awaits
    booked,     \* guests the site created, with no refusal of a room and no stop since
    apart,      \* guests edited, or left by half a submission, since the last whole one
    sealed      \* guests erased with no token alive and no request about them, and let be

rows == <<guest, stay, form, kept, reviewed, token>>
history == <<booked, apart, sealed>>
vars == <<rows, req, history>>

Slots == Writers \cup Portals

-----------------------------------------------------------------------------
(* Types *)

NoGuest == [active |-> FALSE]

\* checked: the e-mail went through the duplicate check.
GuestRow == [active : BOOLEAN, name : Names \cup {"[deleted]"},
             email : Emails \cup {"none"}, checked : BOOLEAN]

NoForm == [name |-> "none"]
Form == [name : Names, email : Emails \cup {"none"}]

NoToken == [state |-> "none"]
Token == [guest : Guest, state : {"live", "revoked", "expired"}]

Idle == [pc |-> "idle"]

Request ==
    {Idle}
    \cup [pc : {"create", "web_guest"}, email : Emails \cup {"none"}]
    \cup [pc : {"update"}, g : Guest, email : Emails \cup {"none", "same"}]
    \cup [pc : {"web_book", "web_link", "enter", "feedback"}, g : Guest]
    \cup [pc : {"write_form"}, g : Guest, exists : BOOLEAN]
    \cup [pc : {"write_guest"}, g : Guest, form : Form]

TypeOK ==
    /\ guest \in [Guest -> GuestRow \cup {NoGuest}]
    /\ stay \subseteq Guest
    /\ form \in [Guest -> Form \cup {NoForm}]
    /\ kept \subseteq Guest /\ reviewed \subseteq Guest
    /\ token \in [Tokens -> Token \cup {NoToken}]
    /\ req \in [Slots -> Request]
    /\ booked \subseteq Guest /\ apart \subseteq Guest /\ sealed \subseteq Guest

Init ==
    /\ guest = [g \in Guest |-> NoGuest]
    /\ stay = {} /\ kept = {} /\ reviewed = {}
    /\ form = [g \in Guest |-> NoForm]
    /\ token = [k \in Tokens |-> NoToken]
    /\ req = [w \in Slots |-> Idle]
    /\ booked = {} /\ apart = {} /\ sealed = {}

-----------------------------------------------------------------------------
(* Helpers *)

Start(w, memory) == req[w] = Idle /\ req' = [req EXCEPT ![w] = memory]

GoOn(w, memory) == req' = [req EXCEPT ![w] = memory]

Finish(w) == GoOn(w, Idle)

Exists(g) == guest[g] # NoGuest

About(w) == IF "g" \in DOMAIN req[w] THEN {req[w].g} ELSE {}

InFlight(g) == \E w \in Slots : g \in About(w)

\* assertNoDuplicate: among the active guests, the one being edited left out.
NoDuplicate(email, g) ==
    email = "none" \/ \A h \in Guest \ {g} : guest[h].active => guest[h].email # email

ErasedRow == [active |-> FALSE, name |-> "[deleted]", email |-> "none", checked |-> TRUE]

-----------------------------------------------------------------------------
(* GuestsService *)

ReadForCreate(w, email) ==
    /\ \A g \in Guest : guest[g].active /\ email # "none" => guest[g].email # email
    /\ Start(w, [pc |-> "create", email |-> email])
    /\ UNCHANGED <<rows, history>>

CreateGuest(w, g, name) ==
    /\ req[w].pc = "create"
    /\ ~Exists(g)
    /\ guest' = [guest EXCEPT ![g] = [active |-> TRUE, name |-> name,
                                      email |-> req[w].email, checked |-> TRUE]]
    /\ Finish(w)
    /\ UNCHANGED <<stay, form, kept, reviewed, token, history>>

\* Mutant: the e-mail the guest has now is checked, not the one it will have.
ReadForUpdateOfPresent(w, g, email) ==
    /\ Exists(g)
    /\ NoDuplicate(guest[g].email, g)
    /\ Start(w, [pc |-> "update", g |-> g, email |-> email])
    /\ sealed' = sealed \ {g}
    /\ UNCHANGED <<rows, booked, apart>>

\* The e-mail the guest will have is checked, the present one included.  An erased
\* guest is edited like any other.
ReadForUpdate(w, g, email) ==
    /\ Exists(g)
    /\ NoDuplicate(IF email = "same" THEN guest[g].email ELSE email, g)
    /\ Start(w, [pc |-> "update", g |-> g, email |-> email])
    /\ sealed' = sealed \ {g}
    /\ UNCHANGED <<rows, booked, apart>>

UpdateGuest(w, name) ==
    /\ req[w].pc = "update"
    /\ LET g == req[w].g
           same == req[w].email = "same"
       IN /\ guest' = [guest EXCEPT
                         ![g].name = name,
                         ![g].email = IF same THEN @ ELSE req[w].email,
                         ![g].checked = @ \/ ~same]
          /\ apart' = apart \cup {g}
    /\ Finish(w)
    /\ UNCHANGED <<stay, form, kept, reviewed, token, booked, sealed>>

Untouchable(g) ==
    ~InFlight(g) /\ \A k \in Tokens : token[k] # NoToken /\ token[k].guest = g => token[k].state = "expired"

\* Mutant: the copies in the child tables are forgotten.
SoftDeleteRowOnly(g) ==
    /\ Exists(g)
    /\ guest' = [guest EXCEPT ![g] = ErasedRow]
    /\ sealed' = IF Untouchable(g) THEN sealed \cup {g} ELSE sealed
    /\ UNCHANGED <<stay, form, kept, reviewed, token, req, booked, apart>>

\* One transaction: the row and the copies in the child tables.  The portal tokens of
\* the guest stay valid.
SoftDelete(g) ==
    /\ Exists(g)
    /\ guest' = [guest EXCEPT ![g] = ErasedRow]
    /\ form' = [form EXCEPT ![g] = NoForm]
    /\ kept' = kept \ {g}
    /\ sealed' = IF Untouchable(g) THEN sealed \cup {g} ELSE sealed
    /\ UNCHANGED <<stay, reviewed, token, req, booked, apart>>

AddDocument(g) ==
    /\ Exists(g)
    /\ kept' = kept \cup {g}
    /\ sealed' = sealed \ {g}
    /\ UNCHANGED <<guest, stay, form, reviewed, token, req, booked, apart>>

-----------------------------------------------------------------------------
(* A reservation made by the staff, which FrontDesk details *)

Reserve(g) ==
    /\ Exists(g) /\ g \notin stay
    /\ stay' = stay \cup {g}
    /\ UNCHANGED <<guest, form, kept, reviewed, token, req, history>>

-----------------------------------------------------------------------------
(* The public site: the guest first, then the room, then the link *)

FindNoGuest(w, email) ==
    /\ \A g \in Guest : guest[g].active => guest[g].email # email
    /\ Start(w, [pc |-> "web_guest", email |-> email])
    /\ UNCHANGED <<rows, history>>

CreateWebGuest(w, g, name) ==
    /\ req[w].pc = "web_guest"
    /\ ~Exists(g)
    /\ guest' = [guest EXCEPT ![g] = [active |-> TRUE, name |-> name,
                                      email |-> req[w].email, checked |-> TRUE]]
    /\ booked' = booked \cup {g}
    /\ GoOn(w, [pc |-> "web_book", g |-> g])
    /\ UNCHANGED <<stay, form, kept, reviewed, token, apart, sealed>>

\* Mutant: the visitor is answered as soon as the reservation is made.
BookWithoutLink(w) ==
    /\ req[w].pc = "web_book"
    /\ stay' = stay \cup {req[w].g}
    /\ Finish(w)
    /\ UNCHANGED <<guest, form, kept, reviewed, token, history>>

Book(w) ==
    /\ req[w].pc = "web_book"
    /\ stay' = stay \cup {req[w].g}
    /\ GoOn(w, [pc |-> "web_link", g |-> req[w].g])
    /\ UNCHANGED <<guest, form, kept, reviewed, token, history>>

\* NO_ROOMS_AVAILABLE, before or in the transaction: the guest row stays.
RefuseRoom(w) ==
    /\ req[w].pc = "web_book"
    /\ booked' = booked \ {req[w].g}
    /\ Finish(w)
    /\ UNCHANGED <<rows, apart, sealed>>

-----------------------------------------------------------------------------
(* Portal tokens *)

NewToken(g, k) ==
    /\ token[k] = NoToken
    /\ token' = [token EXCEPT ![k] = [guest |-> g, state |-> "live"]]

SendWebLink(w, k) ==
    /\ req[w].pc = "web_link"
    /\ NewToken(req[w].g, k)
    /\ Finish(w)
    /\ UNCHANGED <<guest, stay, form, kept, reviewed, history>>

\* After a booking by the staff, or when they ask for it.
SendLinkByStaff(g, k) ==
    /\ g \in stay
    /\ NewToken(g, k)
    /\ sealed' = sealed \ {g}
    /\ UNCHANGED <<guest, stay, form, kept, reviewed, req, booked, apart>>

RevokeAllTokens(g) ==
    /\ token' = [k \in Tokens |->
                   IF token[k].state = "live" /\ token[k].guest = g
                   THEN [token[k] EXCEPT !.state = "revoked"] ELSE token[k]]
    /\ token' # token
    /\ UNCHANGED <<guest, stay, form, kept, reviewed, req, history>>

\* A day after the check-out date.
ExpireTokens(g) ==
    /\ token' = [k \in Tokens |->
                   IF token[k] # NoToken /\ token[k].guest = g
                   THEN [token[k] EXCEPT !.state = "expired"] ELSE token[k]]
    /\ token' # token
    /\ UNCHANGED <<guest, stay, form, kept, reviewed, req, history>>

-----------------------------------------------------------------------------
(* The portal *)

\* GuestTokenGuard, and the first read of submitOnlineCheckIn: the guest is not checked in
\* yet and the window is open.
EnterPortal(p, k) ==
    /\ token[k].state = "live"
    /\ Start(p, [pc |-> "enter", g |-> token[k].guest])
    /\ UNCHANGED <<rows, history>>

FindForm(p) ==
    /\ req[p].pc = "enter"
    /\ GoOn(p, [pc |-> "write_form", g |-> req[p].g, exists |-> form[req[p].g] # NoForm])
    /\ UNCHANGED <<rows, history>>

\* Mutant: a second submission rewrites the form and leaves the guest alone.
WriteFormOnly(p, f) ==
    /\ req[p].pc = "write_form"
    /\ LET g == req[p].g
       IN IF req[p].exists = (form[g] # NoForm)
          THEN /\ form' = [form EXCEPT ![g] = f]
               /\ IF req[p].exists THEN Finish(p)
                  ELSE GoOn(p, [pc |-> "write_guest", g |-> g, form |-> f])
          ELSE Finish(p) /\ form' = form
    /\ UNCHANGED <<guest, stay, kept, reviewed, token, history>>

\* An update of a form erased meanwhile throws, and so does a second creation.
WriteForm(p, f) ==
    /\ req[p].pc = "write_form"
    /\ LET g == req[p].g
       IN IF req[p].exists = (form[g] # NoForm)
          THEN /\ form' = [form EXCEPT ![g] = f]
               /\ GoOn(p, [pc |-> "write_guest", g |-> g, form |-> f])
          ELSE Finish(p) /\ form' = form
    /\ UNCHANGED <<guest, stay, kept, reviewed, token, history>>

\* No duplicate check, and none that the guest was not erased.
WriteGuest(p) ==
    /\ req[p].pc = "write_guest"
    /\ LET g == req[p].g
           f == req[p].form
       IN /\ guest' = [guest EXCEPT
                         ![g].name = f.name,
                         ![g].email = IF f.email = "none" THEN @ ELSE f.email,
                         ![g].checked = @ /\ f.email = "none"]
          /\ apart' = apart \ {g}
    /\ Finish(p)
    /\ UNCHANGED <<stay, form, kept, reviewed, token, booked, sealed>>

\* A token that was revoked will do.  A comment is sent to the language model first.
ReadForFeedback(p, k) ==
    /\ token[k].state \in {"live", "revoked"}
    /\ token[k].guest \notin reviewed
    /\ Start(p, [pc |-> "feedback", g |-> token[k].guest])
    /\ UNCHANGED <<rows, history>>

\* The unique key refuses a second one.
WriteFeedback(p) ==
    /\ req[p].pc = "feedback"
    /\ LET g == req[p].g
       IN IF g \in reviewed THEN UNCHANGED <<kept, reviewed>>
          ELSE /\ reviewed' = reviewed \cup {g}
               /\ kept' = kept \cup {g}
    /\ Finish(p)
    /\ UNCHANGED <<guest, stay, form, token, history>>

\* Any await may throw, and the process may stop.
Abandon(w) ==
    /\ req[w] # Idle
    /\ booked' = IF req[w].pc \in {"web_book", "web_link"} THEN booked \ {req[w].g} ELSE booked
    /\ apart' = IF req[w].pc = "write_guest" THEN apart \cup {req[w].g} ELSE apart
    /\ Finish(w)
    /\ UNCHANGED <<rows, sealed>>

-----------------------------------------------------------------------------
WriterStep(w) ==
    \/ \E email \in Emails \cup {"none"} : ReadForCreate(w, email)
    \/ \E email \in Emails : FindNoGuest(w, email)
    \/ \E g \in Guest, name \in Names : CreateGuest(w, g, name) \/ CreateWebGuest(w, g, name)
    \/ \E g \in Guest, email \in Emails \cup {"none", "same"} : ReadForUpdate(w, g, email)
    \/ \E name \in Names : UpdateGuest(w, name)
    \/ Book(w) \/ RefuseRoom(w) \/ \E k \in Tokens : SendWebLink(w, k)

PortalStep(p) ==
    \/ \E k \in Tokens : EnterPortal(p, k) \/ ReadForFeedback(p, k)
    \/ FindForm(p) \/ \E f \in Form : WriteForm(p, f)
    \/ WriteGuest(p) \/ WriteFeedback(p)

Next ==
    \/ \E w \in Writers : WriterStep(w)
    \/ \E p \in Portals : PortalStep(p)
    \/ \E w \in Slots : Abandon(w)
    \/ \E g \in Guest :
        \/ SoftDelete(g) \/ AddDocument(g) \/ Reserve(g)
        \/ RevokeAllTokens(g) \/ ExpireTokens(g) \/ \E k \in Tokens : SendLinkByStaff(g, k)

Spec == Init /\ [][Next]_vars

-----------------------------------------------------------------------------
(* Properties *)

(***************************************************************************)
(* Two active guests share an e-mail only if the portal wrote it: every    *)
(* other way in checks for one.  It needs one writer, for the check and    *)
(* the write are two awaits.                                               *)
(***************************************************************************)
CheckedEmailsUnique ==
    \A g, h \in {x \in Guest : guest[x].active} :
        g # h /\ guest[g].email = guest[h].email /\ guest[g].email # "none"
            => ~guest[g].checked \/ ~guest[h].checked

(***************************************************************************)
(* A booking on the site leaves a guest with a stay and a link, or it was  *)
(* refused a room or stopped; then the guest row alone remains, and its    *)
(* e-mail is taken.                                                        *)
(***************************************************************************)
WebBookingWhole ==
    \A g \in booked :
        \/ InFlight(g)
        \/ g \in stay /\ \E k \in Tokens : token[k] # NoToken /\ token[k].guest = g

(***************************************************************************)
(* The online check-in form and the guest row, written in two awaits, tell *)
(* the same, however the guest is erased or checked in meanwhile, unless   *)
(* the row was edited since or a submission stopped half way.  It needs    *)
(* one portal request at a time.                                           *)
(***************************************************************************)
FormMatchesGuest ==
    \A g \in Guest \ apart :
        form[g] = NoForm
        \/ (\E p \in Portals : req[p].pc = "write_guest" /\ req[p].g = g)
        \/ /\ guest[g].name = form[g].name
           /\ form[g].email \in {guest[g].email, "none"}

(***************************************************************************)
(* A guest erased when every portal token had expired and no request about *)
(* the guest was in flight stays erased, in every table, until the staff   *)
(* edit the guest or send a new link.                                      *)
(***************************************************************************)
SealedStaysErased ==
    \A g \in sealed : guest[g] = ErasedRow /\ form[g] = NoForm /\ g \notin kept

=============================================================================
