------------------------------- MODULE Access -------------------------------
(***************************************************************************)
(* Who may call what, written down four times over in the program: the     *)
(* routes and @Roles of the controllers, the paths of the client library,  *)
(* the roles of the sidebar's items, and the role gates inside the pages.  *)
(* Nothing but convention keeps the four together.  This module is the     *)
(* tables, and Staff what comes of them.  A route is a name here, its      *)
(* parameters left out; a table is a set of pairs.                         *)
(***************************************************************************)
Roles == {"chain_admin", "hotel_manager", "receptionist", "housekeeping"}

ChainAdmin == {"chain_admin"}
Managers == {"chain_admin", "hotel_manager"}
Desk     == Managers \cup {"receptionist"}
Cleaning == Managers \cup {"housekeeping"}

-----------------------------------------------------------------------------
(* The server: the routes of the controllers, with their @Roles *)

RoomsController ==
    { <<"POST rooms", Managers>>, <<"GET rooms", Roles>>, <<"GET rooms/id", Roles>>,
      <<"PATCH rooms/id", Managers>>, <<"PATCH rooms/id/status", Desk>>,
      <<"PATCH rooms/id/cleaning-status", Roles>>, <<"DELETE rooms/id", Managers>>,
      <<"GET rooms/id/reservations", Desk>> }

RoomTypesController ==
    { <<"POST room-types", Managers>>, <<"GET room-types", Desk>>,
      <<"PATCH room-types/id", Managers>>, <<"DELETE room-types/id", Managers>> }

GuestsController ==
    { <<"POST guests", Desk>>, <<"GET guests/search", Desk>>, <<"GET guests", Desk>>,
      <<"GET guests/id", Desk>>, <<"PATCH guests/id", Desk>>,
      <<"DELETE guests/id", Managers>>, <<"GET guests/id/documents", Desk>>,
      <<"POST guests/id/documents", Desk>>, <<"GET guests/id/reservations", Desk>> }

ReservationsController ==
    { <<"POST reservations", Desk>>, <<"GET reservations/calendar", Desk>>,
      <<"GET reservations", Desk>>, <<"GET reservations/id", Desk>>,
      <<"PATCH reservations/id", Desk>>, <<"PATCH reservations/id/status", Desk>>,
      <<"POST reservations/id/cancel", Desk>> }

CheckInController ==
    { <<"POST reservations/id/check-in", Desk>>,
      <<"POST reservations/id/check-out", Desk>>, <<"GET reservations/id/invoice", Desk>>,
      <<"GET front-desk/active-guests", Desk>>, <<"GET front-desk/arrivals", Desk>>,
      <<"GET front-desk/departures", Desk>> }

\* In three parts, as the controller is: payments, invoices, refunds and the rest.
PaymentRoutes ==
    { <<"POST payments", Desk>>, <<"GET payments/id", Desk>>,
      <<"POST payments/pos", Desk>>, <<"GET payments/pos/id/status", Desk>>,
      <<"POST reservations/id/pre-payment", Desk>> }

InvoiceRoutes ==
    { <<"GET invoices", Desk>>, <<"GET invoices/id", Desk>>,
      <<"GET invoices/id/payments", Desk>>, <<"GET invoices/id/pdf", Desk>>,
      <<"POST invoices/id/send-email", Desk>>, <<"POST charges", Desk>>,
      <<"POST invoices/id/discount", Desk>> }

RefundRoutes ==
    { <<"POST refunds", Managers>>, <<"GET refunds/id", Desk>>,
      <<"GET service-catalog", Desk>>, <<"POST service-catalog", Managers>>,
      <<"DELETE service-catalog/id", Managers>>,
      <<"GET reports/payment-reconciliation", Managers>> }

ReportsController ==
    { <<"GET reports/occupancy-summary", Desk>>,
      <<"GET reports/revenue-summary", Managers>>,
      <<"GET reports/arrivals-departures", Desk>>,
      <<"GET reports/reservation-pipeline", Desk>>,
      <<"GET reports/occupancy-trend", Desk>>, <<"GET reports/cancellations", Managers>>,
      <<"GET reports/future-reservations", Desk>>,
      <<"GET reports/cross-branch", ChainAdmin>>,
      <<"GET reports/export/reservations", Managers>>,
      <<"GET reports/export/revenue", Managers>> }

HousekeepingController ==
    { <<"GET housekeeping/tasks", Cleaning>>, <<"POST housekeeping/tasks", Managers>>,
      <<"PATCH housekeeping/tasks/id/assign", Managers>>,
      <<"PATCH housekeeping/tasks/id/start", Cleaning>>,
      <<"PATCH housekeeping/tasks/id/complete", Cleaning>>,
      <<"PATCH housekeeping/tasks/id/skip", Cleaning>>,
      <<"GET housekeeping/optimized-schedule", Cleaning>> }

UsersController ==
    { <<"POST users", Managers>>, <<"GET users", Managers>>, <<"GET users/me", Roles>>,
      <<"PATCH users/id", Managers>> }

\* mutant of BranchesController: the list is kept from managers, whose users page needs it
BranchesForChainOnly ==
    { <<"POST branches", ChainAdmin>>, <<"GET branches", ChainAdmin>>,
      <<"PATCH branches/id", ChainAdmin>>,
      <<"POST branches/id/assign-user", ChainAdmin>> }

BranchesController ==
    { <<"POST branches", ChainAdmin>>, <<"GET branches", Managers>>,
      <<"PATCH branches/id", ChainAdmin>>,
      <<"POST branches/id/assign-user", ChainAdmin>> }

AvailabilityController ==
    { <<"GET availability", Desk>>, <<"GET availability/summary", Desk>> }

UploadsController == { <<"POST uploads/photo", Managers>> }

PortalStaffRoutes ==
    { <<"POST portal/send-link", Desk>>, <<"GET portal/tokens", Managers>>,
      <<"POST portal/tokens/revoke", Managers>> }

FeedbackController == { <<"GET reports/feedback-insights", Managers>> }

PricingController == { <<"GET reports/pricing-suggestions", Managers>> }

NlReportsController == { <<"POST reports/query", Managers>> }

AiTriggersController ==
    { <<"POST ai/trigger/digest", Managers>>, <<"POST ai/trigger/reminders", Managers>>,
      <<"POST ai/trigger/upgrades", Managers>> }

Server ==
    RoomsController \cup RoomTypesController \cup GuestsController
    \cup ReservationsController \cup CheckInController \cup PaymentRoutes
    \cup InvoiceRoutes \cup RefundRoutes \cup ReportsController
    \cup HousekeepingController \cup UsersController \cup BranchesController
    \cup AvailabilityController \cup UploadsController \cup PortalStaffRoutes
    \cup FeedbackController \cup PricingController \cup NlReportsController
    \cup AiTriggersController

-----------------------------------------------------------------------------
(* The client library: the route behind each of its functions *)

RoomsClient ==
    { <<"getRooms", "GET rooms">>, <<"getRoom", "GET rooms/id">>,
      <<"createRoom", "POST rooms">>, <<"updateRoom", "PATCH rooms/id">>,
      <<"updateRoomStatus", "PATCH rooms/id/status">>,
      <<"updateCleaningStatus", "PATCH rooms/id/cleaning-status">>,
      <<"deleteRoom", "DELETE rooms/id">>, <<"getRoomTypes", "GET room-types">>,
      <<"createRoomType", "POST room-types">>,
      <<"updateRoomType", "PATCH room-types/id">>,
      <<"deleteRoomType", "DELETE room-types/id">> }

GuestsClient ==
    { <<"getGuests", "GET guests">>, <<"searchGuests", "GET guests/search">>,
      <<"getGuest", "GET guests/id">>, <<"createGuest", "POST guests">>,
      <<"updateGuest", "PATCH guests/id">>, <<"deleteGuest", "DELETE guests/id">>,
      <<"getGuestDocuments", "GET guests/id/documents">> }

ReservationsClient ==
    { <<"getReservations", "GET reservations">>,
      <<"getReservation", "GET reservations/id">>,
      <<"getCalendarReservations", "GET reservations/calendar">>,
      <<"createReservation", "POST reservations">>,
      <<"updateReservationStatus", "PATCH reservations/id/status">>,
      <<"cancelReservation", "POST reservations/id/cancel">>,
      <<"sendPortalLink", "POST portal/send-link">> }

CheckInClient ==
    { <<"checkIn", "POST reservations/id/check-in">>,
      <<"checkOut", "POST reservations/id/check-out">>,
      <<"getInvoice", "GET reservations/id/invoice">>,
      <<"getActiveGuests", "GET front-desk/active-guests">>,
      <<"getArrivals", "GET front-desk/arrivals">>,
      <<"getDepartures", "GET front-desk/departures">> }

BillingClient ==
    { <<"initiatePayment", "POST payments">>, <<"listInvoices", "GET invoices">>,
      <<"getInvoiceById", "GET invoices/id">>,
      <<"sendInvoiceByEmail", "POST invoices/id/send-email">>,
      <<"getInvoicePayments", "GET invoices/id/payments">>,
      <<"addCharge", "POST charges">>, <<"initiateRefund", "POST refunds">>,
      <<"applyDiscount", "POST invoices/id/discount">> }

CatalogClient ==
    { <<"getServiceCatalog", "GET service-catalog">>,
      <<"getReconciliation", "GET reports/payment-reconciliation">>,
      <<"downloadInvoicePdf", "GET invoices/id/pdf">> }

ReportsClient ==
    { <<"getOccupancySummary", "GET reports/occupancy-summary">>,
      <<"getRevenueSummary", "GET reports/revenue-summary">>,
      <<"getArrivalsDepartures", "GET reports/arrivals-departures">>,
      <<"getReservationPipeline", "GET reports/reservation-pipeline">>,
      <<"getOccupancyTrend", "GET reports/occupancy-trend">>,
      <<"getCancellations", "GET reports/cancellations">>,
      <<"getFutureReservations", "GET reports/future-reservations">>,
      <<"getCrossBranch", "GET reports/cross-branch">>,
      <<"downloadReservationsCsv", "GET reports/export/reservations">> }

HousekeepingClient ==
    { <<"getTasks", "GET housekeeping/tasks">>,
      <<"createTask", "POST housekeeping/tasks">>,
      <<"assignTask", "PATCH housekeeping/tasks/id/assign">>,
      <<"startTask", "PATCH housekeeping/tasks/id/start">>,
      <<"completeTask", "PATCH housekeeping/tasks/id/complete">>,
      <<"skipTask", "PATCH housekeeping/tasks/id/skip">> }

UsersClient ==
    { <<"getUsers", "GET users">>, <<"createUser", "POST users">>,
      <<"updateUser", "PATCH users/id">> }

BranchesClient ==
    { <<"getBranches", "GET branches">>, <<"createBranch", "POST branches">>,
      <<"updateBranch", "PATCH branches/id">>,
      <<"setBranchActive", "PATCH branches/id">> }

AvailabilityClient == { <<"getAvailableRooms", "GET availability">> }

UploadsClient == { <<"uploadPhoto", "POST uploads/photo">> }

AssistantsClient ==
    { <<"getPricingSuggestions", "GET reports/pricing-suggestions">>,
      <<"queryNlReports", "POST reports/query">> }

\* Two widgets call the server past the client library.
InsightsWidget == { <<"feedbackInsights", "GET reports/feedback-insights">> }

TriggersWidget ==
    { <<"digest", "POST ai/trigger/digest">>,
      <<"reminders", "POST ai/trigger/reminders">>,
      <<"upgrades", "POST ai/trigger/upgrades">> }

Route ==
    RoomsClient \cup GuestsClient \cup ReservationsClient \cup CheckInClient
    \cup BillingClient \cup CatalogClient \cup ReportsClient \cup HousekeepingClient
    \cup UsersClient \cup BranchesClient \cup AvailabilityClient \cup UploadsClient
    \cup AssistantsClient \cup InsightsWidget \cup TriggersWidget

-----------------------------------------------------------------------------
(* The pages: what each of them loads and has buttons for, by role *)

For(roles, role, calls) == IF role \in roles THEN calls ELSE {}

RoomsCalls(role) ==
    {"getRooms", "getRoomTypes"}
    \cup For(Desk, role, {"updateRoomStatus"}) \cup For(Roles, role, {"updateCleaningStatus"})
    \cup For(Managers, role, {"deleteRoom"})

NewRoomCalls(role) ==
    {"getRoomTypes", "createRoom", "createRoomType"} \cup For(ChainAdmin, role, {"getBranches"})

RoomTypesCalls ==
    {"getRoomTypes", "createRoomType", "updateRoomType", "deleteRoomType", "uploadPhoto"}

GuestsCalls(role) == {"getGuests"} \cup For(Managers, role, {"deleteGuest"})

\* The branches only for those who may choose one.
NewReservationCalls(role) ==
    {"searchGuests", "getAvailableRooms", "createReservation"}
    \cup For(ChainAdmin, role, {"getBranches"})

ReservationDetailCalls ==
    {"getReservation", "updateReservationStatus", "cancelReservation", "checkIn", "checkOut",
     "getInvoice", "sendPortalLink"}

FrontDeskCalls ==
    {"getArrivals", "getDepartures", "getActiveGuests", "checkIn", "checkOut", "getInvoice",
     "getServiceCatalog", "addCharge"}

HousekeepingManageCalls ==
    {"getTasks", "getUsers", "getRooms", "createTask", "assignTask", "skipTask"}

InvoiceCalls(role) ==
    {"getInvoiceById", "getInvoicePayments", "downloadInvoicePdf", "sendInvoiceByEmail",
     "getServiceCatalog", "addCharge"}
    \cup For(Managers, role, {"initiateRefund"})

ReportsCalls ==
    {"getOccupancySummary", "getRevenueSummary", "getArrivalsDepartures", "getOccupancyTrend",
     "getReservationPipeline", "getPricingSuggestions", "queryNlReports", "feedbackInsights",
     "digest", "reminders", "upgrades"}

BranchesCalls == {"getBranches", "createBranch", "updateBranch", "setBranchActive", "uploadPhoto"}

\* The dashboard calls nothing for a cleaner, and no revenue for the desk.
DashboardCalls(role) ==
    For(Desk, role, {"getOccupancySummary", "getArrivalsDepartures", "getOccupancyTrend",
                     "getReservationPipeline", "getFutureReservations"})
    \cup For(Managers, role, {"getRevenueSummary"})

Calls(page, role) ==
    CASE page = "dashboard"          -> DashboardCalls(role)
      [] page = "chainDashboard"     -> {"getCrossBranch"}
      [] page = "rooms"              -> RoomsCalls(role)
      [] page = "newRoom"            -> NewRoomCalls(role)
      [] page = "editRoom"           -> {"getRoom", "getRoomTypes", "updateRoom"}
      [] page = "statusBoard"        -> {"getRooms"}
      [] page = "roomTypes"          -> RoomTypesCalls
      [] page = "guests"             -> GuestsCalls(role)
      [] page = "newGuest"           -> {"createGuest"}
      [] page = "guestDetail"        -> {"getGuest", "getGuestDocuments"}
      [] page = "editGuest"          -> {"getGuest", "updateGuest"}
      [] page = "reservations"       -> {"getReservations"}
      [] page = "newReservation"     -> NewReservationCalls(role)
      [] page = "reservationDetail"  -> ReservationDetailCalls
      [] page = "calendar"           -> {"getCalendarReservations", "getRooms"}
      [] page = "frontDesk"          -> FrontDeskCalls
      [] page = "housekeeping"       -> {"getTasks", "startTask", "completeTask"}
      [] page = "housekeepingManage" -> HousekeepingManageCalls
      [] page = "invoices"           -> {"listInvoices"}
      [] page = "invoice"            -> InvoiceCalls(role)
      [] page = "checkout"           -> {"getInvoice", "applyDiscount", "initiatePayment"}
      [] page = "reports"            -> ReportsCalls
      [] page = "reconciliation"     -> {"getReconciliation"}
      [] page = "cancellations"      -> {"getCancellations"}
      [] page = "futureReservations" -> {"getFutureReservations", "downloadReservationsCsv"}
      [] page = "branches"           -> BranchesCalls
      [] page = "users"              -> {"getUsers", "getBranches", "createUser", "updateUser"}

-----------------------------------------------------------------------------
(* The way to the pages: the sidebar's items, and links with the gates around them *)

MenuItems ==
    [ dashboard |-> Roles, chainDashboard |-> ChainAdmin,
      rooms |-> Desk, statusBoard |-> Roles, roomTypes |-> Managers,
      guests |-> Desk, reservations |-> Desk, calendar |-> Desk, frontDesk |-> Desk,
      housekeeping |-> Cleaning, housekeepingManage |-> Managers,
      invoices |-> Desk, reports |-> Managers,
      branches |-> ChainAdmin, users |-> Managers ]

Menu(role) == {p \in DOMAIN MenuItems : role \in MenuItems[p]}

Links ==
    [ rooms |-> [newRoom |-> Managers, editRoom |-> Managers],
      guests |-> [newGuest |-> Desk, guestDetail |-> Roles, editGuest |-> Roles],
      guestDetail |-> [editGuest |-> Desk],
      reservations |-> [newReservation |-> Roles, reservationDetail |-> Roles],
      calendar |-> [reservationDetail |-> Roles],
      newReservation |-> [reservationDetail |-> Roles],
      reservationDetail |-> [invoice |-> Roles, checkout |-> Roles],
      invoices |-> [invoice |-> Roles, checkout |-> Roles],
      invoice |-> [checkout |-> Roles],
      checkout |-> [invoice |-> Roles, reservationDetail |-> Roles],
      reports |-> [reconciliation |-> Roles, cancellations |-> Roles,
                   futureReservations |-> Roles],
      reconciliation |-> [invoice |-> Roles, checkout |-> Roles] ]

LinkedFrom(pages, role) ==
    UNION {{q \in DOMAIN Links[p] : role \in Links[p][q]} : p \in pages \cap DOMAIN Links}

\* The pages a role is led to: links go at most three pages away from the menu.
Pages(role) ==
    LET one == Menu(role) \cup LinkedFrom(Menu(role), role)
        two == one \cup LinkedFrom(one, role)
    IN  two \cup LinkedFrom(two, role)

\* The top bar loads the branches for the one who can choose among them.
TopbarCalls(role) == For(ChainAdmin, role, {"getBranches"})

\* All that the browser of someone with this role ever asks of the server.
Offers ==
    [role \in Roles |-> TopbarCalls(role) \cup UNION {Calls(p, role) : p \in Pages(role)}]

\* RolesGuard: the calls whose routes exist and are open to the role.
Permitted ==
    [role \in Roles |->
        LET open == {route[1] : route \in {r \in Server : role \in r[2]}}
        IN  {call[1] : call \in {c \in Route : c[2] \in open}}]

Permits(role, call) == call \in Permitted[role]

=============================================================================
