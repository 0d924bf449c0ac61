-------------------------------- MODULE Staff --------------------------------
(***************************************************************************)
(* The hotel's staff: accounts, the branches they belong to, and what one  *)
(* browser with several tabs takes its user for.  A browser has one cookie *)
(* with the claims of the last login or refresh whose answer came, one     *)
(* stored profile, and a copy of the profile in every tab, which is        *)
(* written at login, read back when the page is loaded, and never asks the *)
(* server again.  The server goes by the claims, the pages by the profile. *)
(*                                                                         *)
(* How the cookies are kept and exchanged is Sessions'; here a login is    *)
(* one step with its answer, a refresh is two, and a lost session is a     *)
(* cookie that is gone.                                                    *)
(***************************************************************************)
EXTENDS Access

CONSTANTS
    User,       \* by e-mail address, which is unique
    Founders,   \* the accounts there are to begin with: [user -> [role, branch, active]]
    Branch,
    NoBranch,
    Tab,
    Slots,      \* slots for in-flight requests of the users page
    Flights     \* slots for refreshes of the browser, each until its answer has come

ASSUME NoBranchAssumption == NoBranch \notin Branch

VARIABLES
    users,    \* users[u] is u's account, or NoAccount
    cookie,   \* the claims in the browser's access token, or NoClaims
    stored,   \* the profile in the browser's storage, or NoProfile
    profile,  \* profile[t] is the profile tab t goes by, or NoProfile
    refresh,  \* refresh[f] is the claims that the answer to refresh f brings, or NoClaims
    upstaged, \* history: tab t has not been loaded since another one logged in or out
    early,    \* history: the refreshes that were exchanged before the last login
    crossed,  \* history: the answer to such a one has come since that login
    req       \* req[w] is what slot w remembers across its await

history == <<upstaged, early, crossed>>
browser == <<cookie, stored, profile, refresh>>

vars == <<users, browser, history, req>>

-----------------------------------------------------------------------------
Account == [role : Roles, branch : Branch \cup {NoBranch}, active : BOOLEAN]
NoAccount == [role |-> "none"]

ASSUME FoundersAssumption == \A u \in User \cap DOMAIN Founders : Founders[u] \in Account

Claims == [user : User, role : Roles, branch : Branch \cup {NoBranch}]
NoClaims == [user |-> "nobody"]

\* moved is history: the user was given another branch since the profile was made.
Profile == [user : User, role : Roles, branch : Branch \cup {NoBranch}, moved : BOOLEAN]
NoProfile == [user |-> "nobody"]

Idle == [pc |-> "idle"]
Requester == [role : Roles, branch : Branch \cup {NoBranch}]
Request == {Idle} \cup [pc : {"update"}, u : User, by : Requester, active : BOOLEAN]

Accounts == {u \in User : users[u] # NoAccount}

TypeOK ==
    /\ users \in [User -> Account \cup {NoAccount}]
    /\ cookie \in Claims \cup {NoClaims}
    /\ stored \in Profile \cup {NoProfile}
    /\ profile \in [Tab -> Profile \cup {NoProfile}]
    /\ refresh \in [Flights -> Claims \cup {NoClaims}]
    /\ upstaged \in [Tab -> BOOLEAN] /\ early \subseteq Flights /\ crossed \in BOOLEAN
    /\ req \in [Slots -> Request]

Init ==
    /\ users = [u \in User |-> IF u \in DOMAIN Founders THEN Founders[u] ELSE NoAccount]
    /\ cookie = NoClaims
    /\ stored = NoProfile
    /\ profile = [t \in Tab |-> NoProfile]
    /\ refresh = [f \in Flights |-> NoClaims]
    /\ upstaged = [t \in Tab |-> FALSE] /\ early = {} /\ crossed = FALSE
    /\ req = [w \in Slots |-> Idle]

-----------------------------------------------------------------------------
(* The browser *)

\* issueTokens: from the account as it is now.
ClaimsOf(u) == [user |-> u, role |-> users[u].role, branch |-> users[u].branch]

ProfileOf(u) ==
    [user |-> u, role |-> users[u].role, branch |-> users[u].branch, moved |-> FALSE]

UpstageOthers(t) ==
    upstaged' = [s \in Tab |-> IF s = t THEN FALSE ELSE TRUE]

\* The refreshes that are out are from before this login.
LoggedIn(t) ==
    /\ UpstageOthers(t)
    /\ early' = {f \in Flights : refresh[f] # NoClaims}
    /\ crossed' = FALSE

\* mutant of Login: a profile in storage is not overwritten
LoginStoresOnce(t, u) ==
    /\ users[u] # NoAccount /\ users[u].active
    /\ cookie' = ClaimsOf(u)
    /\ profile' = [profile EXCEPT ![t] = ProfileOf(u)]
    /\ stored' = IF stored = NoProfile THEN ProfileOf(u) ELSE stored
    /\ LoggedIn(t)
    /\ UNCHANGED <<users, refresh, req>>

Login(t, u) ==
    /\ users[u] # NoAccount /\ users[u].active
    /\ cookie' = ClaimsOf(u)
    /\ profile' = [profile EXCEPT ![t] = ProfileOf(u)]
    /\ stored' = ProfileOf(u)
    /\ LoggedIn(t)
    /\ UNCHANGED <<users, refresh, req>>

\* The server exchanges the token.  It does not ask whether the account is still active.
Refresh(f) ==
    /\ cookie # NoClaims /\ refresh[f] = NoClaims
    /\ refresh' = [refresh EXCEPT ![f] = ClaimsOf(cookie.user)]
    /\ UNCHANGED <<users, cookie, stored, profile, history, req>>

\* The answer sets the cookies whenever it comes, and whoever has logged in meanwhile.
RefreshArrives(f) ==
    /\ refresh[f] # NoClaims
    /\ cookie' = refresh[f]
    /\ refresh' = [refresh EXCEPT ![f] = NoClaims]
    /\ crossed' = (crossed \/ f \in early)
    /\ early' = early \ {f}
    /\ UNCHANGED <<users, stored, profile, upstaged, req>>

RefreshLost(f) ==
    /\ refresh[f] # NoClaims
    /\ refresh' = [refresh EXCEPT ![f] = NoClaims]
    /\ early' = early \ {f}
    /\ UNCHANGED <<users, cookie, stored, profile, upstaged, crossed, req>>

\* The session ends on the server, or the cookie expires.  The next call sends the
\* tab to the login page; nothing clears the profile.
SessionEnds ==
    /\ cookie # NoClaims
    /\ cookie' = NoClaims
    /\ UNCHANGED <<users, stored, profile, refresh, history, req>>

\* The profile is cleared whether or not the server could be told.
Logout(t) ==
    /\ profile[t] # NoProfile
    /\ cookie' \in {cookie, NoClaims}
    /\ profile' = [profile EXCEPT ![t] = NoProfile]
    /\ stored' = NoProfile
    /\ UpstageOthers(t)
    /\ UNCHANGED <<users, refresh, early, crossed, req>>

\* The page is loaded anew, by the user or by the way to the login page.
LoadPage(t) ==
    /\ profile' = [profile EXCEPT ![t] = stored]
    /\ upstaged' = [upstaged EXCEPT ![t] = FALSE]
    /\ UNCHANGED <<users, cookie, stored, refresh, early, crossed, req>>

-----------------------------------------------------------------------------
(* The users page and the branches page *)

\* UsersService.create.  The unique e-mail settles a race of two.
CreateUser(u, role, branch) ==
    /\ cookie # NoClaims /\ Permits(cookie.role, "createUser")
    /\ cookie.role = "hotel_manager" => role # "chain_admin" /\ branch = cookie.branch
    /\ users[u] = NoAccount
    /\ users' = [users EXCEPT ![u] = [role |-> role, branch |-> branch, active |-> TRUE]]
    /\ UNCHANGED <<browser, history, req>>

\* UsersService.update finds the account and checks its branch.
ReadForUpdate(w, u, active) ==
    /\ req[w] = Idle
    /\ cookie # NoClaims /\ Permits(cookie.role, "updateUser")
    /\ users[u] # NoAccount
    /\ cookie.role # "chain_admin" => users[u].branch = cookie.branch
    /\ LET by == [role |-> cookie.role, branch |-> cookie.branch]
       IN  req' = [req EXCEPT ![w] = [pc |-> "update", u |-> u, by |-> by, active |-> active]]
    /\ UNCHANGED <<users, browser, history>>

\* mutant of InReach: the row is written by id alone
InReachByIdAlone(by, u) == TRUE

\* The where of the update: the branch again, as the row has it then.
InReach(by, u) == by.role = "chain_admin" \/ users[u].branch = by.branch

Update(w) ==
    /\ req[w].pc = "update"
    /\ users' = IF InReach(req[w].by, req[w].u)
                THEN [users EXCEPT ![req[w].u].active = req[w].active]
                ELSE users
    /\ req' = [req EXCEPT ![w] = Idle]
    /\ UNCHANGED <<browser, history>>

\* BranchesService.assignUser, by a chain administrator anywhere.
AssignUser(u, b) ==
    /\ \E a \in Accounts : users[a].role = "chain_admin"
    /\ users[u] # NoAccount
    /\ users[u].branch # b
    /\ users' = [users EXCEPT ![u].branch = b]
    /\ LET Mark(p) == IF p # NoProfile /\ p.user = u THEN [p EXCEPT !.moved = TRUE] ELSE p
       IN  /\ stored' = Mark(stored)
           /\ profile' = [t \in Tab |-> Mark(profile[t])]
    /\ UNCHANGED <<cookie, refresh, history, req>>

-----------------------------------------------------------------------------
Next ==
    \/ \E t \in Tab : (\E u \in User : Login(t, u)) \/ Logout(t) \/ LoadPage(t)
    \/ \E f \in Flights : Refresh(f) \/ RefreshArrives(f) \/ RefreshLost(f)
    \/ SessionEnds
    \/ \E u \in User, b \in Branch : AssignUser(u, b)
    \/ \E u \in User, role \in Roles, b \in Branch \cup {NoBranch} : CreateUser(u, role, b)
    \/ \E w \in Slots :
        (\E u \in User, active \in BOOLEAN : ReadForUpdate(w, u, active)) \/ Update(w)

Spec == Init /\ [][Next]_vars

-----------------------------------------------------------------------------
(* Properties *)

InStep(t) == cookie # NoClaims /\ profile[t] # NoProfile /\ profile[t].user = cookie.user

\* A tab goes by the person whose cookie its calls carry, unless another tab has
\* logged in or out since the page was loaded; and by that person's branch, which
\* the search for rooms asks for and the server compares with the claims, unless
\* the person was moved after the profile was made.  Only the answer to a refresh
\* from before the last login, when it comes after it, puts both out of step.
TabShowsItsUser ==
    \A t \in Tab : cookie # NoClaims /\ profile[t] # NoProfile /\ ~crossed =>
        /\ ~upstaged[t] => InStep(t)
        /\ InStep(t) /\ ~profile[t].moved => profile[t].branch = cookie.branch

\* Whatever the menu and the pages of a tab lead its user to, load or offer a
\* button for, the server lets that user do: the sidebar, the role gates and the
\* @Roles of the controllers agree on every call of every role.
OffersArePermitted ==
    \A t \in Tab : InStep(t) =>
        \A call \in Offers[profile[t].role] : Permits(cookie.role, call)

\* A manager changes nobody who is in another branch at that moment, also when the
\* person was moved between the check and the write.
ManagersKeepToBranch ==
    [][\A w \in Slots, u \in User :
         (/\ req[w].pc = "update" /\ req'[w] = Idle
          /\ req[w].by.role # "chain_admin"
          /\ req[w].u = u /\ users[u].branch # req[w].by.branch)
         => users'[u] = users[u]]_vars

=============================================================================
