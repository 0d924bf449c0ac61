-------------------------------- MODULE Pages --------------------------------
(***************************************************************************)
(* One page of the web application, open in a browser: it loads the rows   *)
(* of what the user chose (a branch, a month, dates, a search), shows      *)
(* them, and sends the user's actions on them.  No page cancels a call:    *)
(* answers come back in any order, and to whatever the page has become.    *)
(*                                                                         *)
(* The pages differ in a handful of decisions; a page is the record of its *)
(* decisions, and the handlers are those all pages share.  A row is known  *)
(* by the choice it was made under and a number, and its content by the    *)
(* number of the write that made it.  The page is the only one to write    *)
(* its rows.  One render may separate a choice from its load; the two are  *)
(* one step here.                                                          *)
(***************************************************************************)
EXTENDS Naturals, FiniteSets, Functions

CONSTANTS
    Choice,     \* what can be chosen: branches, months, dates, searches
    NoChoice,   \* nothing is chosen yet, or any more
    MaxCalls,   \* how many calls the page may have out
    MaxWrites   \* how many changes the page may make

ASSUME ChoiceAssumption == Choice # {} /\ NoChoice \notin Choice
ASSUME BoundAssumption == MaxCalls \in Nat \ {0} /\ MaxWrites \in Nat

VARIABLES
    page,     \* the page that is open
    choice,   \* what is chosen now
    server,   \* the rows in the database, each with the number of its last write
    foundBy,  \* the choice whose query finds a row
    written,  \* how many writes there have been
    shown,    \* the rows the page keeps, as they were when they were read
    calls,    \* the calls out
    loading,  \* the page's loading flag
    error,    \* the page shows an error
    leaving,  \* the router was told to leave the page and has not done so yet
    gone,     \* the page was left, or its form replaced, after an action
    blurred,  \* history: see below
    lost,     \* history: the answer to a form that was done got lost
    again     \* history: an action was begun while the page was being left

database == <<server, foundBy, written>>
past == <<lost, again>>

pageVars == <<page, choice, database, shown, calls, loading, error, leaving, gone, blurred, past>>

(* blurred is history, no variable of any page: since the last load sent   *)
(* with no other call out, calls have overlapped, the answer to a finished *)
(* action was lost, or a failure was not said or wiped out again.          *)

-----------------------------------------------------------------------------
(* The pages *)

\* What the answer to an action does to the page: replaces the row, removes it,
\* adds it, loads again, or leaves the page (from a row, or from a saved form).
Acts == {"patch", "drop", "insert", "reload", "leave", "save"}

PageType ==
    [ loads   : BOOLEAN,   \* it shows rows; a form does not
      chooses : BOOLEAN,   \* the choice can change while the page is open
      filters : BOOLEAN,   \* its actions may change whether a choice's query finds a row
      idles   : BOOLEAN,   \* there may be no choice, and then nothing is loaded
      prompts : BOOLEAN,   \* without a choice the page asks for one instead of rows
      forgets : BOOLEAN,   \* the rows are dropped when there is no choice any more
      spins   : BOOLEAN,   \* every load raises the flag, not the first one only
      hides   : BOOLEAN,   \* rows are not rendered while the flag is up
      clears  : BOOLEAN,   \* the rows are dropped when a load is sent
      fails   : {"says", "hushes", "empties"},  \* what a failed load does
      heals   : {"start", "answer", "never"},   \* when a load takes the error away
      mutes   : BOOLEAN,   \* an action takes the error away
      trusts  : BOOLEAN,   \* a refused action is taken for a done one
      acts    : SUBSET Acts,    \* what the answers to its actions do
      locks   : SUBSET Acts,    \* actions whose buttons are disabled while one is out
      pushes  : BOOLEAN ]  \* it is left by the router, with its buttons enabled until then

List == [loads |-> TRUE, chooses |-> TRUE, filters |-> FALSE, idles |-> TRUE, prompts |-> TRUE,
         forgets |-> FALSE, spins |-> TRUE, hides |-> TRUE, clears |-> FALSE,
         fails |-> "says", heals |-> "start", mutes |-> FALSE, trusts |-> FALSE,
         acts |-> {}, locks |-> {}, pushes |-> FALSE]

GuestsPage == [List EXCEPT !.forgets = TRUE, !.acts = {"drop"}]

\* By the status of a room, or of a task, among others.
RoomsPage == [List EXCEPT !.filters = TRUE, !.forgets = TRUE, !.spins = FALSE,
                          !.heals = "answer", !.acts = {"patch", "drop"}]

ReservationsPage == [List EXCEPT !.forgets = TRUE]

InvoicesPage == [List EXCEPT !.fails = "hushes"]

HousekeepingPage == [List EXCEPT !.filters = TRUE, !.hides = FALSE, !.acts = {"patch"}]

HousekeepingManagePage == [List EXCEPT !.filters = TRUE, !.heals = "answer",
                                       !.acts = {"patch", "insert"}, !.locks = {"insert"}]

RoomTypesPage == [List EXCEPT !.mutes = TRUE, !.acts = {"patch", "drop", "insert"},
                              !.locks = {"patch", "insert"}]

CalendarPage == List

FrontDeskPage == [List EXCEPT !.forgets = TRUE, !.acts = {"reload"}, !.locks = {"reload"}]

StatusBoardPage == [List EXCEPT !.forgets = TRUE, !.spins = FALSE, !.fails = "hushes"]

ReconciliationPage == [List EXCEPT !.hides = FALSE]

\* Without a branch or dates of their own these load for all of them.
Dated == [List EXCEPT !.idles = FALSE]

FutureReservationsPage == [Dated EXCEPT !.hides = FALSE]
CancellationsPage == Dated
DashboardPage == Dated

\* Prompts for empty fields only: dates in the wrong order keep the earlier rooms.
NewReservationPage == [List EXCEPT !.prompts = FALSE, !.clears = TRUE, !.fails = "empties",
                                   !.acts = {"leave"}, !.locks = {"leave"}, !.pushes = TRUE]

GuestSearchCombobox == [List EXCEPT !.prompts = FALSE, !.forgets = TRUE, !.hides = FALSE,
                                    !.fails = "empties"]

NewRoomPage == [List EXCEPT !.forgets = TRUE, !.heals = "never", !.mutes = TRUE,
                            !.acts = {"insert", "leave"}, !.locks = {"insert", "leave"},
                            !.pushes = TRUE]

BookRoomsPage == [Dated EXCEPT !.spins = FALSE, !.heals = "never"]
BookRoomTypePage == [Dated EXCEPT !.spins = FALSE, !.heals = "never"]

\* What these show is fixed when they open.
Fixed == [Dated EXCEPT !.chooses = FALSE, !.spins = FALSE, !.heals = "never"]

ChainDashboardPage == Fixed
ReportsPage == Fixed
GuestDetailPage == Fixed
UsersPage == [Fixed EXCEPT !.acts = {"patch", "insert"}, !.locks = {"insert"}]
BranchesPage == [Fixed EXCEPT !.acts = {"patch", "insert"}, !.locks = {"insert"}]
EditGuestPage == [Fixed EXCEPT !.mutes = TRUE, !.acts = {"save"}, !.locks = {"save"}, !.pushes = TRUE]
EditRoomPage == [Fixed EXCEPT !.mutes = TRUE, !.acts = {"save"}, !.locks = {"save"}, !.pushes = TRUE]
ReservationDetailPage == [Fixed EXCEPT !.acts = {"patch", "reload"},
                                       !.locks = {"patch", "reload"}]
InvoicePage == [Fixed EXCEPT !.spins = TRUE, !.heals = "start", !.acts = {"reload"},
                             !.locks = {"reload"}]

PortalLandingPage == Fixed
PortalCheckInPage == [Fixed EXCEPT !.mutes = TRUE, !.acts = {"leave"}, !.locks = {"leave"},
                                   !.pushes = TRUE]
PortalPaymentPage == PortalCheckInPage
CheckoutPage == [Fixed EXCEPT !.hides = FALSE, !.mutes = TRUE, !.acts = {"leave"},
                              !.locks = {"leave"}]
BookBranchesPage == Fixed
BookBranchPage == Fixed
FeedbackInsights == [Fixed EXCEPT !.fails = "empties"]
SessionsPanel == [Fixed EXCEPT !.fails = "empties", !.acts = {"drop", "leave"}, !.pushes = TRUE]

\* Forms: nothing to load, one action, and a message instead of the form, or away.
SimpleForm == [Fixed EXCEPT !.loads = FALSE, !.mutes = TRUE, !.acts = {"save"},
                            !.locks = {"save"}]

ForgotPasswordPage == SimpleForm

LeftForm == [SimpleForm EXCEPT !.pushes = TRUE]

NewGuestPage == LeftForm
BookCheckoutPage == LeftForm
LoginPage == LeftForm
ResetPasswordPage == LeftForm

\* It thanks for the feedback without a look at the status of the answer.
FeedbackForm == [SimpleForm EXCEPT !.trusts = TRUE]

\* The question is shown at once, its answer when it comes.
AiConcierge == [SimpleForm EXCEPT !.acts = {"insert"}, !.locks = {"insert"}]

\* A widget with a branch and a date of its parent's, and no flag after its first answer.
OccupancySummaryWidget == [Dated EXCEPT !.spins = FALSE, !.fails = "hushes"]

AllPages ==
    { GuestsPage, RoomsPage, ReservationsPage, InvoicesPage, HousekeepingPage,
      HousekeepingManagePage, RoomTypesPage, CalendarPage, FrontDeskPage, StatusBoardPage,
      ReconciliationPage, FutureReservationsPage, CancellationsPage, DashboardPage,
      NewReservationPage, GuestSearchCombobox, NewRoomPage, BookRoomsPage, BookRoomTypePage,
      ChainDashboardPage, ReportsPage, GuestDetailPage, UsersPage, BranchesPage,
      EditGuestPage, EditRoomPage, ReservationDetailPage, InvoicePage,
      PortalLandingPage, PortalCheckInPage, PortalPaymentPage, CheckoutPage,
      BookBranchesPage, BookBranchPage, FeedbackInsights, SessionsPanel,
      OccupancySummaryWidget, NewGuestPage, BookCheckoutPage, LoginPage,
      ForgotPasswordPage, ResetPasswordPage, FeedbackForm, AiConcierge }

-----------------------------------------------------------------------------
Rows == Choice \X {1, 2}     \* row 2 of a choice is the one an insert creates

Nothing == [k \in {} |-> 0]

RowsOf(c) == Restrict(server, {k \in DOMAIN server : foundBy[k] = c})

\* The rows on the screen.
Visible ==
    IF (loading /\ page.hides) \/ (choice = NoChoice /\ page.prompts) THEN Nothing ELSE shown

RowSets == UNION {[S -> 0 .. MaxWrites] : S \in SUBSET Rows}

CallType == [id : 1 .. MaxCalls, kind : Acts \cup {"load"}, row : Rows,
             done : BOOLEAN, answer : RowSets]

PageTypeOK ==
    /\ page \in AllPages /\ page \in PageType
    /\ choice \in Choice \cup {NoChoice}
    /\ server \in RowSets /\ written \in 0 .. MaxWrites
    /\ foundBy \in [Rows -> Choice]
    /\ shown \in RowSets
    /\ \A x \in calls : x \in CallType
    /\ \A x, y \in calls : x.id = y.id => x = y
    /\ loading \in BOOLEAN
    /\ error \in BOOLEAN
    /\ leaving \in BOOLEAN /\ gone \in BOOLEAN
    /\ blurred \in BOOLEAN
    /\ lost \in BOOLEAN /\ again \in BOOLEAN

\* A call of this page: a load is of the rows of c, an action of one row.
NewCall(kind, row) ==
    [ id |-> CHOOSE n \in 1 .. MaxCalls : \A x \in calls : x.id # n,
      kind |-> kind, row |-> row, done |-> FALSE, answer |-> Nothing ]

Load(c) == NewCall("load", <<c, 1>>)

CanCall == Cardinality(calls) < MaxCalls

\* The page is mounted, and its load effect has run.
PageInit ==
    /\ page \in AllPages
    /\ choice \in Choice \cup (IF page.idles THEN {NoChoice} ELSE {})
    /\ server = [k \in Choice \X {1} |-> 0] /\ written = 0
    /\ foundBy = [k \in Rows |-> k[1]]
    /\ shown = Nothing
    /\ calls = IF choice = NoChoice \/ ~page.loads THEN {}
               ELSE {[id |-> 1, kind |-> "load", row |-> <<choice, 1>>,
                      done |-> FALSE, answer |-> Nothing]}
    /\ loading = (calls # {})
    /\ error = FALSE
    /\ leaving = FALSE /\ gone = FALSE
    /\ blurred = FALSE
    /\ lost = FALSE /\ again = FALSE

-----------------------------------------------------------------------------
(* The user chooses *)

\* The choice changes and the load effect runs again.
Choose(c) ==
    /\ page.chooses /\ ~gone
    /\ c # choice
    /\ CanCall
    /\ choice' = c
    /\ calls' = calls \cup {Load(c)}
    /\ loading' = (loading \/ page.spins)
    /\ shown' = IF page.clears THEN Nothing ELSE shown
    /\ error' = (error /\ page.heals # "start")
    /\ blurred' = (calls # {})
    /\ UNCHANGED <<page, database, leaving, gone, past>>

\* The effect returns early.  Some pages lower the flag as well, some do not.
ChooseNothing ==
    /\ page.chooses /\ page.idles /\ ~gone
    /\ choice # NoChoice
    /\ choice' = NoChoice
    /\ shown' = IF page.forgets THEN Nothing ELSE shown
    /\ loading' \in {loading, FALSE}
    /\ blurred' = (blurred \/ calls # {})
    /\ UNCHANGED <<page, database, calls, error, leaving, gone, past>>

-----------------------------------------------------------------------------
(* The user acts *)

\* mutant of Busy: no button is disabled
NeverBusy == FALSE

\* A locked handler's button is disabled until its own await chain ends.
Busy ==
    \E x \in calls : \/ x.kind \in page.locks
                     \/ x.kind = "load" /\ "reload" \in page.locks

Act(how, row) ==
    /\ how \in page.acts /\ ~gone /\ choice # NoChoice
    /\ CASE how = "insert" -> row = <<choice, 2>> /\ row \notin DOMAIN server
         [] how = "save"   -> row = <<choice, 1>> /\ ~(loading /\ page.hides)
         [] OTHER          -> row \in DOMAIN Visible
    /\ how \in page.locks => ~Busy
    /\ CanCall
    /\ calls' = calls \cup {NewCall(how, row)}
    /\ error' = (error /\ ~page.mutes)
    /\ blurred' = (blurred \/ calls # {} \/ (error /\ page.mutes))
    /\ again' = (again \/ leaving)
    /\ UNCHANGED <<page, choice, database, shown, loading, leaving, gone, lost>>

-----------------------------------------------------------------------------
(* The server *)

ServerLoads(x) ==
    /\ x.kind = "load" /\ ~x.done
    /\ calls' = (calls \ {x}) \cup {[x EXCEPT !.done = TRUE, !.answer = RowsOf(x.row[1])]}
    /\ UNCHANGED <<page, choice, database, shown, loading, error, leaving, gone, blurred, past>>

\* The row's new state, as the server answers it; nothing remains of a dropped one.
AfterAct(x) ==
    IF x.kind = "drop" THEN Nothing ELSE [k \in {x.row} |-> written']

\* A filter asks for one status, and a row has one: what an action makes of the row may
\* take it from one choice to another.  Elsewhere a row is found where it was made.
ServerActs(x) ==
    /\ x.kind \in Acts /\ ~x.done
    /\ IF x.kind = "insert" THEN x.row \notin DOMAIN server ELSE x.row \in DOMAIN server
    /\ written < MaxWrites
    /\ written' = written + 1
    /\ LET new  == AfterAct(x)
           kept == DOMAIN server \ {x.row}
       IN  /\ server' = [k \in kept \cup DOMAIN new |->
                            IF k \in kept THEN server[k] ELSE new[k]]
           /\ calls' = (calls \ {x}) \cup {[x EXCEPT !.done = TRUE, !.answer = new]}
    /\ \E c \in IF page.filters THEN Choice ELSE {x.row[1]} : foundBy' = [foundBy EXCEPT ![x.row] = c]
    /\ UNCHANGED <<page, choice, shown, loading, error, leaving, gone, blurred, past>>

-----------------------------------------------------------------------------
(* The answers *)

LoadArrives(x) ==
    /\ x.kind = "load" /\ x.done
    /\ calls' = calls \ {x}
    /\ shown' = x.answer
    /\ loading' = FALSE
    /\ error' = (error /\ page.heals # "answer")
    /\ UNCHANGED <<page, choice, database, leaving, gone, blurred, past>>

\* mutant of LoadFails: setLoading(false) only on success, no finally
LoadFailsWithoutFinally(x) ==
    /\ x.kind = "load"
    /\ calls' = calls \ {x}
    /\ shown' = IF page.fails = "empties" THEN Nothing ELSE shown
    /\ error' = (error \/ page.fails = "says")
    /\ blurred' = (blurred \/ page.fails # "says")
    /\ UNCHANGED <<page, choice, database, loading, leaving, gone, past>>

LoadFails(x) ==
    /\ x.kind = "load"
    /\ calls' = calls \ {x}
    /\ shown' = IF page.fails = "empties" THEN Nothing ELSE shown
    /\ loading' = FALSE
    /\ error' = (error \/ page.fails = "says")
    /\ blurred' = (blurred \/ page.fails # "says")
    /\ UNCHANGED <<page, choice, database, leaving, gone, past>>

\* map replaces the row if the page keeps it; filter removes it; an insert is added to
\* whatever the page keeps.  None asks whether the row is, or still is, of the choice.
PatchArrives(x) ==
    /\ x.kind \in {"patch", "drop", "insert"} /\ x.done
    /\ calls' = calls \ {x}
    /\ shown' = LET kept == DOMAIN shown \ {x.row}
                    new  == IF x.kind = "insert" THEN DOMAIN x.answer
                            ELSE DOMAIN x.answer \cap DOMAIN shown
                IN  [k \in kept \cup new |-> IF k \in new THEN x.answer[k] ELSE shown[k]]
    /\ UNCHANGED <<page, choice, database, loading, error, leaving, gone, blurred, past>>

\* mutant of ReloadArrives: the handler does not load again
ReloadForgotten(x) ==
    /\ x.kind = "reload" /\ x.done
    /\ calls' = calls \ {x}
    /\ UNCHANGED <<page, choice, database, shown, loading, error, leaving, gone, blurred, past>>

\* The handler loads again: what was chosen when its button was pressed.
ReloadArrives(x) ==
    /\ x.kind = "reload" /\ x.done
    /\ LET reload == [x EXCEPT !.kind = "load", !.done = FALSE, !.answer = Nothing,
                               !.row = <<x.row[1], 1>>]
       IN  calls' = (calls \ {x}) \cup {reload}
    /\ loading' = (loading \/ page.spins)
    /\ error' = (error /\ page.heals # "start")
    /\ blurred' = (calls # {x} \/ x.row[1] # choice)
    /\ UNCHANGED <<page, choice, database, shown, leaving, gone, past>>

\* A message takes the place of the form; or the router is asked, not awaited, to leave
\* the page, and the finally enables the button again.
LeaveArrives(x) ==
    /\ x.kind \in {"leave", "save"} /\ x.done
    /\ calls' = calls \ {x}
    /\ leaving' = page.pushes
    /\ gone' = (gone \/ ~page.pushes)
    /\ UNCHANGED <<page, choice, database, shown, loading, error, blurred, past>>

\* The router has left the page.  The calls that are out go on.
Navigated ==
    /\ leaving
    /\ leaving' = FALSE /\ gone' = TRUE
    /\ UNCHANGED <<page, choice, database, shown, calls, loading, error, blurred, past>>

\* The server refuses.  The error goes to the page's own line or to a toast or dialog.
ActRefused(x) ==
    /\ x.kind \in Acts /\ ~x.done
    /\ calls' = calls \ {x}
    /\ error' \in {error, TRUE}
    /\ gone' = (gone \/ page.trusts)
    /\ UNCHANGED <<page, choice, database, shown, loading, leaving, blurred, past>>

\* The connection fails, before the action was done or after.
ActLost(x) ==
    /\ x.kind \in Acts
    /\ calls' = calls \ {x}
    /\ error' \in {error, TRUE}
    /\ blurred' = (blurred \/ x.done)
    /\ lost' = (lost \/ (x.done /\ x.kind \in {"leave", "save"}))
    /\ UNCHANGED <<page, choice, database, shown, loading, leaving, gone, again>>

Serve == \E x \in calls : ServerLoads(x) \/ ServerActs(x)

AnswerTo(n) ==
    \E x \in calls :
        /\ x.id = n
        /\ \/ LoadArrives(x) \/ LoadFails(x)
           \/ PatchArrives(x) \/ ReloadArrives(x) \/ LeaveArrives(x)
           \/ ActRefused(x) \/ ActLost(x)

PageNext ==
    \/ \E c \in Choice : Choose(c)
    \/ ChooseNothing
    \/ \E how \in Acts, row \in Rows : Act(how, row)
    \/ Serve
    \/ \E n \in 1 .. MaxCalls : AnswerTo(n)
    \/ Navigated

\* Every call of the browser is answered, or fails, in the end.
Fairness == \A n \in 1 .. MaxCalls : WF_pageVars(AnswerTo(n))

PageSpec == PageInit /\ [][PageNext]_pageVars /\ Fairness

-----------------------------------------------------------------------------
(* Properties *)

\* Once every answer is in, a page that reports no error keeps all the rows the database
\* has of the current choice, each as it is there, and no others, unless calls overlapped:
\* the load effects of every page and what each handler does to its rows, together.  Only
\* a page that filters by what its actions change may keep more, namely rows that an
\* action has changed or added and the choice's query does not find.
SettledShowsChoice ==
    (/\ page.loads /\ calls = {} /\ choice # NoChoice
     /\ ~leaving /\ ~gone /\ ~error /\ ~blurred)
    => /\ DOMAIN RowsOf(choice) \subseteq DOMAIN shown
       /\ \A k \in DOMAIN shown :
             /\ k \in DOMAIN server /\ shown[k] = server[k]
             /\ foundBy[k] = choice \/ (page.filters /\ shown[k] > 0)

\* A page whose actions end it changes the database once: its button is disabled while
\* the action is out.  It is sent again only after a lost answer, or, where the router is
\* not awaited, between the answer and the next page.  Whatever else happens, the page is
\* left, or thanks, only when the action was done; only the page that does not look at
\* the answer thanks for what was refused.
FormDoneOnce ==
    (page.acts # {} /\ page.acts \subseteq {"leave", "save"})
    => /\ ~lost => written <= 1 \/ (again /\ page.pushes)
       /\ (leaving \/ gone) /\ ~page.trusts => written >= 1

\* The loading flag always comes down again, whether the load is answered or
\* fails: the finally of every load.
LoadingEnds == loading ~> ~loading

=============================================================================
