--------------------------- MODULE FrontendProofs ---------------------------
(***************************************************************************)
(* Theorems about the web application.  The first part is about Staff, for *)
(* any number of people, branches, tabs, and refreshes and requests of the *)
(* users page in flight; the second about Pages, for any choices, any      *)
(* number of calls out and any number of changes.                          *)
(***************************************************************************)
EXTENDS Staff, Pages, FiniteSetTheorems, TLAPS

-----------------------------------------------------------------------------
(* Staff: what a tab takes its user for *)

\* A profile is of an account, and has its branch unless the user was moved since.
FreshUnlessMoved(p) ==
    p # NoProfile => /\ users[p.user] # NoAccount
                     /\ ~p.moved => p.branch = users[p.user].branch

\* The claims of the cookie, and those it may yet get by a refresh since the last login.
LiveClaims == {c \in Claims : c = cookie \/ \E f \in Flights \ early : c = refresh[f]}

\* A profile of the claims' user has their branch unless the user was moved.
AgreesUnlessMoved(p) ==
    ~crossed /\ p # NoProfile /\ ~p.moved =>
        \A c \in LiveClaims : c.user = p.user => c.branch = p.branch

\* What is stored is of the claims' user: login writes the two together.
StoredIsCookies ==
    ~crossed /\ stored # NoProfile => \A c \in LiveClaims : c.user = stored.user

\* The tabs that were not upstaged show the claims' user.
TabsAreCookies ==
    \A t \in Tab : ~crossed /\ ~upstaged[t] /\ profile[t] # NoProfile
                       => \A c \in LiveClaims : c.user = profile[t].user

\* The claims, also those on their way, and the requests are about accounts that exist.
AboutAccounts ==
    /\ cookie # NoClaims => users[cookie.user] # NoAccount
    /\ \A f \in Flights : refresh[f] # NoClaims => users[refresh[f].user] # NoAccount
    /\ \A w \in Slots : req[w].pc = "update" => users[req[w].u] # NoAccount

StaffInv ==
    /\ TypeOK
    /\ FreshUnlessMoved(stored) /\ \A t \in Tab : FreshUnlessMoved(profile[t])
    /\ AgreesUnlessMoved(stored) /\ \A t \in Tab : AgreesUnlessMoved(profile[t])
    /\ StoredIsCookies
    /\ TabsAreCookies
    /\ AboutAccounts

-----------------------------------------------------------------------------
\* None of the three stands for an account, claims or a profile.
LEMMA NoneAreNone ==
    /\ NoAccount \notin Account
    /\ NoClaims \notin Claims
    /\ NoProfile \notin Profile
<1>1. NoAccount \notin Account
  <2>1. \A a \in Account : a.role \in Roles  BY DEF Account
  <2>2. NoAccount.role \notin Roles  BY DEF NoAccount, Roles
  <2> QED  BY <2>1, <2>2
<1>2. NoClaims \notin Claims
  <2>1. \A c \in Claims : "role" \in DOMAIN c  BY DEF Claims
  <2>2. "role" \notin DOMAIN NoClaims  BY DEF NoClaims
  <2> QED  BY <2>1, <2>2
<1>3. NoProfile \notin Profile
  <2>1. \A p \in Profile : "role" \in DOMAIN p  BY DEF Profile
  <2>2. "role" \notin DOMAIN NoProfile  BY DEF NoProfile
  <2> QED  BY <2>1, <2>2
<1> QED  BY <1>1, <1>2, <1>3

LEMMA InitStaff == Init => StaffInv
<1> SUFFICES ASSUME Init  PROVE StaffInv
  OBVIOUS
<1>1. users \in [User -> Account \cup {NoAccount}]
  BY FoundersAssumption DEF Init
<1>2. req \in [Slots -> Request] /\ \A w \in Slots : req[w].pc = "idle"
  BY DEF Init, Request, Idle
<1>3. TypeOK
  BY <1>1, <1>2 DEF Init, TypeOK
<1> QED  BY <1>2, <1>3
     DEF Init, StaffInv, FreshUnlessMoved, AgreesUnlessMoved, StoredIsCookies,
         TabsAreCookies, AboutAccounts

-----------------------------------------------------------------------------
(* One lemma per action, or per group that leaves the same variables alone *)

\* Login writes the cookie, the storage and the tab from the one account.
LEMMA LoginStep ==
  ASSUME StaffInv, NEW t \in Tab, NEW u \in User, Login(t, u)
  PROVE  StaffInv'
<1> USE DEF StaffInv
<1>1. users[u] \in Account
  BY DEF TypeOK, Login
<1>2. ClaimsOf(u) \in Claims /\ ProfileOf(u) \in Profile
  BY <1>1 DEF Account, Claims, Profile, ClaimsOf, ProfileOf
<1>3. ClaimsOf(u) # NoClaims /\ ProfileOf(u) # NoProfile
  BY <1>2, NoneAreNone
<1>4. TypeOK'
  BY <1>2 DEF TypeOK, Login, LoggedIn, UpstageOthers
<1>5. /\ ProfileOf(u).user = u /\ ProfileOf(u).branch = users[u].branch
      /\ ClaimsOf(u).user = u /\ ClaimsOf(u).branch = users[u].branch
  BY DEF ProfileOf, ClaimsOf
<1>6. \A s \in Tab : profile'[s] = IF s = t THEN ProfileOf(u) ELSE profile[s]
  BY DEF Login, TypeOK
\* Every refresh that is out is from before this login.
<1>7. \A c \in LiveClaims' : c = ClaimsOf(u)
  BY NoneAreNone DEF LiveClaims, Login, LoggedIn
<1>8. FreshUnlessMoved(stored)' /\ \A s \in Tab : FreshUnlessMoved(profile[s])'
  BY <1>3, <1>5, <1>6 DEF FreshUnlessMoved, Login
<1>9. AgreesUnlessMoved(stored)' /\ \A s \in Tab : AgreesUnlessMoved(profile[s])'
  BY <1>5, <1>6, <1>7 DEF AgreesUnlessMoved, FreshUnlessMoved, Login
<1>10. StoredIsCookies'
  BY <1>5, <1>7 DEF StoredIsCookies, Login
<1>11. TabsAreCookies'
  BY <1>5, <1>6, <1>7 DEF TabsAreCookies, Login, LoggedIn, UpstageOthers
<1>12. AboutAccounts'
  BY <1>5 DEF AboutAccounts, Login
<1> QED  BY <1>4, <1>8, <1>9, <1>10, <1>11, <1>12

\* Where no claims come to life and no profile changes, what agreed agrees.
LEMMA StillAgree ==
  ASSUME StaffInv, LiveClaims' \subseteq LiveClaims, ~crossed' => ~crossed,
         UNCHANGED <<stored, profile, upstaged>>
  PROVE  /\ AgreesUnlessMoved(stored)' /\ \A t \in Tab : AgreesUnlessMoved(profile[t])'
         /\ StoredIsCookies' /\ TabsAreCookies'
<1> USE DEF StaffInv
<1>1. AgreesUnlessMoved(stored)' /\ \A t \in Tab : AgreesUnlessMoved(profile[t])'
  BY DEF AgreesUnlessMoved
<1>2. StoredIsCookies' /\ TabsAreCookies'
  BY DEF StoredIsCookies, TabsAreCookies
<1> QED  BY <1>1, <1>2

\* A refresh takes the claims from the account as it is now, and so do the profiles
\* that were not moved.
LEMMA RefreshStep ==
  ASSUME StaffInv, NEW f \in Flights, Refresh(f)
  PROVE  StaffInv'
<1> USE DEF StaffInv, history
<1> DEFINE u == cookie.user
<1>1. cookie \in Claims /\ u \in User /\ users[u] \in Account
  BY DEF TypeOK, Refresh, Claims, AboutAccounts
<1>2. ClaimsOf(u) \in Claims
  BY <1>1 DEF Account, Claims, ClaimsOf
<1>3. TypeOK'
  BY <1>2 DEF TypeOK, Refresh
<1>4. ClaimsOf(u).user = u /\ ClaimsOf(u).branch = users[u].branch
  BY DEF ClaimsOf
<1>5. \A g \in Flights : refresh'[g] = IF g = f THEN ClaimsOf(u) ELSE refresh[g]
  BY DEF Refresh, TypeOK
<1>6. cookie \in LiveClaims /\ \A c \in LiveClaims' : c \in LiveClaims \/ c = ClaimsOf(u)
  BY <1>1, <1>5 DEF LiveClaims, Refresh
<1>7. FreshUnlessMoved(stored)' /\ \A t \in Tab : FreshUnlessMoved(profile[t])'
  BY DEF FreshUnlessMoved, Refresh
<1>8. AgreesUnlessMoved(stored)' /\ \A t \in Tab : AgreesUnlessMoved(profile[t])'
  BY <1>4, <1>6 DEF AgreesUnlessMoved, FreshUnlessMoved, Refresh
<1>9. StoredIsCookies' /\ TabsAreCookies'
  BY <1>4, <1>6 DEF StoredIsCookies, TabsAreCookies, Refresh
<1>10. AboutAccounts'
  BY <1>1, <1>4, <1>5, NoneAreNone DEF AboutAccounts, Refresh
<1> QED  BY <1>3, <1>7, <1>8, <1>9, <1>10

\* An answer from before the last login crosses it; any other brings live claims.
LEMMA RefreshEndsStep ==
  ASSUME StaffInv, NEW f \in Flights, RefreshArrives(f) \/ RefreshLost(f)
  PROVE  StaffInv'
<1> USE DEF StaffInv
<1>1. /\ refresh[f] \in Claims /\ cookie' \in {cookie, refresh[f]}
      /\ \A g \in Flights : refresh'[g] = IF g = f THEN NoClaims ELSE refresh[g]
      /\ early' = early \ {f}
      /\ UNCHANGED <<users, stored, profile, upstaged, req>>
  BY DEF TypeOK, RefreshArrives, RefreshLost
<1>2. TypeOK'
  <2>1. refresh' \in [Flights -> Claims \cup {NoClaims}]
    BY DEF TypeOK, RefreshArrives, RefreshLost
  <2>2. crossed' \in BOOLEAN
    BY DEF TypeOK, RefreshArrives, RefreshLost
  <2> QED  BY <1>1, <2>1, <2>2 DEF TypeOK
<1>3. ~crossed' => ~crossed /\ (f \notin early \/ cookie' = cookie)
  BY DEF RefreshArrives, RefreshLost
<1>4. ~crossed' => LiveClaims' \subseteq LiveClaims
  BY <1>1, <1>3, NoneAreNone DEF LiveClaims
<1>5. FreshUnlessMoved(stored)' /\ \A t \in Tab : FreshUnlessMoved(profile[t])'
  BY <1>1 DEF FreshUnlessMoved
<1>6. /\ AgreesUnlessMoved(stored)' /\ \A t \in Tab : AgreesUnlessMoved(profile[t])'
      /\ StoredIsCookies' /\ TabsAreCookies'
  <2>1. CASE crossed'
    BY <2>1 DEF AgreesUnlessMoved, StoredIsCookies, TabsAreCookies
  <2>2. CASE ~crossed'
    BY <1>1, <1>3, <1>4, <2>2, StillAgree
  <2> QED  BY <2>1, <2>2
<1>7. AboutAccounts'
  BY <1>1, NoneAreNone DEF AboutAccounts
<1> QED  BY <1>2, <1>5, <1>6, <1>7

\* The session ends, and the cookie is gone.
LEMMA SessionEndsStep ==
  ASSUME StaffInv, SessionEnds
  PROVE  StaffInv'
<1> USE DEF StaffInv, history
<1>1. LiveClaims' \subseteq LiveClaims
  BY NoneAreNone DEF LiveClaims, SessionEnds
<1>2. TypeOK' /\ AboutAccounts'
  BY DEF TypeOK, AboutAccounts, SessionEnds
<1>3. FreshUnlessMoved(stored)' /\ \A t \in Tab : FreshUnlessMoved(profile[t])'
  BY DEF FreshUnlessMoved, SessionEnds
<1> QED  BY <1>1, <1>2, <1>3, StillAgree DEF SessionEnds

LEMMA LogoutStep ==
  ASSUME StaffInv, NEW t \in Tab, Logout(t)
  PROVE  StaffInv'
<1> USE DEF StaffInv
<1>1. TypeOK'
  BY DEF TypeOK, Logout, UpstageOthers
<1>2. \A s \in Tab : profile'[s] = IF s = t THEN NoProfile ELSE profile[s]
  BY DEF Logout, TypeOK
<1>3. FreshUnlessMoved(stored)' /\ \A s \in Tab : FreshUnlessMoved(profile[s])'
  BY <1>2 DEF FreshUnlessMoved, Logout
<1>4. LiveClaims' \subseteq LiveClaims
  BY NoneAreNone DEF LiveClaims, Logout
<1>5. AgreesUnlessMoved(stored)' /\ \A s \in Tab : AgreesUnlessMoved(profile[s])'
  BY <1>2, <1>4 DEF AgreesUnlessMoved, Logout
<1>6. StoredIsCookies' /\ TabsAreCookies'
  BY <1>2, <1>4 DEF StoredIsCookies, TabsAreCookies, Logout, UpstageOthers
<1>7. AboutAccounts'
  BY DEF AboutAccounts, Logout
<1> QED  BY <1>1, <1>3, <1>5, <1>6, <1>7

\* What a page load copies from the storage has all that is said of a tab's profile.
LEMMA LoadPageStep ==
  ASSUME StaffInv, NEW t \in Tab, LoadPage(t)
  PROVE  StaffInv'
<1> USE DEF StaffInv
<1>1. TypeOK'
  BY DEF TypeOK, LoadPage
<1>2. \A s \in Tab : profile'[s] = IF s = t THEN stored ELSE profile[s]
  BY DEF LoadPage, TypeOK
<1>3. \A s \in Tab : upstaged'[s] = IF s = t THEN FALSE ELSE upstaged[s]
  BY DEF LoadPage, TypeOK
<1>4. FreshUnlessMoved(stored)' /\ \A s \in Tab : FreshUnlessMoved(profile[s])'
  BY <1>2 DEF FreshUnlessMoved, LoadPage
<1>5. LiveClaims' = LiveClaims
  BY DEF LiveClaims, LoadPage
<1>6. AgreesUnlessMoved(stored)' /\ \A s \in Tab : AgreesUnlessMoved(profile[s])'
  BY <1>2, <1>5 DEF AgreesUnlessMoved, LoadPage
<1>7. StoredIsCookies' /\ TabsAreCookies'
  BY <1>2, <1>3, <1>5 DEF StoredIsCookies, TabsAreCookies, LoadPage
<1>8. AboutAccounts'
  BY DEF AboutAccounts, LoadPage
<1> QED  BY <1>1, <1>4, <1>6, <1>7, <1>8

-----------------------------------------------------------------------------
\* A new account is nobody's before, so no profile, claims or request was about it.
LEMMA CreateStep ==
  ASSUME StaffInv, NEW u \in User, NEW role \in Roles, NEW b \in Branch \cup {NoBranch},
         CreateUser(u, role, b)
  PROVE  StaffInv'
<1> USE DEF StaffInv, browser, history
<1> DEFINE new == [role |-> role, branch |-> b, active |-> TRUE]
<1>1. new \in Account
  BY DEF Account
<1>2. new # NoAccount
  BY <1>1, NoneAreNone
<1> HIDE DEF new
<1>3. \A v \in User : users'[v] = IF v = u THEN new ELSE users[v]
  BY DEF CreateUser, TypeOK, new
<1>4. TypeOK'
  BY <1>1, <1>3 DEF TypeOK, CreateUser
<1>5. \A p \in Profile : p.user \in User
  BY DEF Profile
<1>6. \A p \in Profile \cup {NoProfile} : FreshUnlessMoved(p) =>
          (p # NoProfile => /\ users'[p.user] # NoAccount
                            /\ ~p.moved => p.branch = users'[p.user].branch)
  BY <1>2, <1>3, <1>5 DEF FreshUnlessMoved, CreateUser
<1>7. FreshUnlessMoved(stored)' /\ \A t \in Tab : FreshUnlessMoved(profile[t])'
  BY <1>6 DEF FreshUnlessMoved, CreateUser, TypeOK
<1>8. LiveClaims' = LiveClaims
  BY DEF LiveClaims, CreateUser
<1>9. /\ AgreesUnlessMoved(stored)' /\ \A t \in Tab : AgreesUnlessMoved(profile[t])'
      /\ StoredIsCookies' /\ TabsAreCookies'
  BY <1>8, StillAgree DEF CreateUser
<1>10. /\ cookie # NoClaims => cookie.user \in User
       /\ \A f \in Flights : refresh[f] # NoClaims => refresh[f].user \in User
       /\ \A w \in Slots : req[w].pc = "update" => req[w].u \in User
  BY DEF TypeOK, Claims, Request, Idle
<1>11. AboutAccounts'
  BY <1>2, <1>3, <1>10 DEF AboutAccounts, CreateUser
<1> QED  BY <1>4, <1>7, <1>9, <1>11

LEMMA ReadStep ==
  ASSUME StaffInv, NEW w \in Slots, NEW u \in User, NEW active \in BOOLEAN,
         ReadForUpdate(w, u, active)
  PROVE  StaffInv'
<1> USE DEF StaffInv, browser, history
<1> DEFINE by == [role |-> cookie.role, branch |-> cookie.branch]
           r  == [pc |-> "update", u |-> u, by |-> by, active |-> active]
<1>1. r \in Request
  <2>1. by \in Requester
    BY DEF Requester, Claims, ReadForUpdate, TypeOK
  <2> QED  BY <2>1 DEF Request
<1>2. TypeOK'
  BY <1>1 DEF TypeOK, ReadForUpdate
<1>3. \A v \in Slots : req'[v] = IF v = w THEN r ELSE req[v]
  BY DEF ReadForUpdate, TypeOK
<1>4. AboutAccounts'
  BY <1>3 DEF AboutAccounts, ReadForUpdate
<1>5. LiveClaims' = LiveClaims
  BY DEF LiveClaims, ReadForUpdate
<1>6. /\ AgreesUnlessMoved(stored)' /\ \A t \in Tab : AgreesUnlessMoved(profile[t])'
      /\ StoredIsCookies' /\ TabsAreCookies'
  BY <1>5, StillAgree DEF ReadForUpdate
<1>7. FreshUnlessMoved(stored)' /\ \A t \in Tab : FreshUnlessMoved(profile[t])'
  BY DEF FreshUnlessMoved, ReadForUpdate
<1> QED  BY <1>2, <1>4, <1>6, <1>7

\* An update leaves role and branch of every account as they were.
LEMMA UpdateStep ==
  ASSUME StaffInv, NEW w \in Slots, Update(w)
  PROVE  StaffInv'
<1> USE DEF StaffInv, browser, history
<1> DEFINE r == req[w]
<1>1. /\ r.pc = "update" /\ r.u \in User /\ r.active \in BOOLEAN
      /\ users[r.u] \in Account
  BY DEF Update, TypeOK, Request, Idle, AboutAccounts
<1>2. [users[r.u] EXCEPT !.active = r.active] \in Account
  BY <1>1 DEF Account
<1>3. users' \in [User -> Account \cup {NoAccount}]
  BY <1>2 DEF Update, TypeOK
<1>4. TypeOK'
  BY <1>3 DEF TypeOK, Update, Request
<1>5. \A v \in User : \/ users'[v] = users[v]
                      \/ v = r.u /\ users'[v] = [users[v] EXCEPT !.active = r.active]
  BY DEF Update, TypeOK
<1>6. [users[r.u] EXCEPT !.active = r.active].branch = users[r.u].branch
  BY <1>1 DEF Account
<1>7. \A v \in User : /\ users[v] # NoAccount => users'[v] # NoAccount
                      /\ users'[v].branch = users[v].branch
  BY <1>2, <1>5, <1>6, NoneAreNone
<1>8. \A p \in Profile : p.user \in User
  BY DEF Profile
<1>9. FreshUnlessMoved(stored)' /\ \A t \in Tab : FreshUnlessMoved(profile[t])'
  BY <1>7, <1>8 DEF FreshUnlessMoved, Update, TypeOK
<1>10. LiveClaims' = LiveClaims
  BY DEF LiveClaims, Update
<1>11. /\ AgreesUnlessMoved(stored)' /\ \A t \in Tab : AgreesUnlessMoved(profile[t])'
       /\ StoredIsCookies' /\ TabsAreCookies'
  BY <1>10, StillAgree DEF Update
<1>12. /\ cookie # NoClaims => cookie.user \in User
       /\ \A f \in Flights : refresh[f] # NoClaims => refresh[f].user \in User
  BY DEF TypeOK, Claims
<1>13. \A v \in Slots : req'[v].pc = "update" => req'[v] = req[v] /\ req[v].u \in User
  BY DEF TypeOK, Update, Request, Idle
<1>14. AboutAccounts'
  BY <1>7, <1>12, <1>13 DEF AboutAccounts, Update
<1> QED  BY <1>4, <1>9, <1>11, <1>14

\* An assignment marks every profile of the person it moves, and leaves the accounts
\* and the profiles of the others alone.
LEMMA AssignStep ==
  ASSUME StaffInv, NEW u \in User, NEW b \in Branch, AssignUser(u, b)
  PROVE  StaffInv'
<1> USE DEF StaffInv, history
<1> DEFINE Mark(p) == IF p # NoProfile /\ p.user = u THEN [p EXCEPT !.moved = TRUE] ELSE p
<1>1. users[u] \in Account
  BY DEF AssignUser, TypeOK
<1>2. [users[u] EXCEPT !.branch = b] \in Account
  BY <1>1 DEF Account
<1>3. \A v \in User : users'[v] = IF v = u THEN [users[u] EXCEPT !.branch = b] ELSE users[v]
  BY DEF AssignUser, TypeOK
<1>4. ASSUME NEW p \in Profile
      PROVE  /\ p # NoProfile /\ Mark(p) \in Profile /\ Mark(p) # NoProfile
             /\ Mark(p).user = p.user /\ Mark(p).branch = p.branch
             /\ p.user = u => Mark(p).moved
             /\ p.user # u => Mark(p) = p
  <2>1. p # NoProfile
    BY NoneAreNone
  <2>2. [p EXCEPT !.moved = TRUE] \in Profile
    BY DEF Profile
  <2>3. Mark(p) \in Profile /\ Mark(p) # NoProfile
    BY <2>2, NoneAreNone
  <2>4. Mark(p).user = p.user /\ Mark(p).branch = p.branch /\ (p.user = u => Mark(p).moved)
    BY <2>1 DEF Profile
  <2> QED  BY <2>1, <2>3, <2>4
<1>5. Mark(NoProfile) = NoProfile
  OBVIOUS
<1>6. stored' = Mark(stored) /\ \A t \in Tab : profile'[t] = Mark(profile[t])
  BY DEF AssignUser
<1>7. profile' = [t \in Tab |-> Mark(profile[t])]
  BY DEF AssignUser
<1> HIDE DEF Mark
<1>8. TypeOK'
  <2>1. \A p \in Profile \cup {NoProfile} : Mark(p) \in Profile \cup {NoProfile}
    BY <1>4, <1>5
  <2>2. users' \in [User -> Account \cup {NoAccount}]
    BY <1>2 DEF AssignUser, TypeOK
  <2>3. stored' \in Profile \cup {NoProfile}
    BY <1>6, <2>1 DEF TypeOK
  <2>4. profile' \in [Tab -> Profile \cup {NoProfile}]
    BY <1>7, <2>1 DEF TypeOK
  <2>5. UNCHANGED <<cookie, refresh, upstaged, early, crossed, req>>
    BY DEF AssignUser
  <2> QED  BY <2>2, <2>3, <2>4, <2>5 DEF TypeOK
<1>9. \A p \in Profile \cup {NoProfile} : FreshUnlessMoved(p) =>
          (Mark(p) # NoProfile =>
              /\ users'[Mark(p).user] # NoAccount
              /\ ~Mark(p).moved => Mark(p).branch = users'[Mark(p).user].branch)
  <2> SUFFICES ASSUME NEW p \in Profile, FreshUnlessMoved(p)
               PROVE  /\ users'[Mark(p).user] # NoAccount
                      /\ ~Mark(p).moved => Mark(p).branch = users'[Mark(p).user].branch
    BY <1>5
  <2>1. p.user \in User
    BY DEF Profile
  <2>2. CASE p.user = u
    BY <1>2, <1>3, <1>4, <2>2, NoneAreNone
  <2>3. CASE p.user # u
    BY <1>3, <1>4, <2>1, <2>3 DEF FreshUnlessMoved
  <2> QED  BY <2>2, <2>3
<1>10. FreshUnlessMoved(stored)' /\ \A t \in Tab : FreshUnlessMoved(profile[t])'
  BY <1>6, <1>9 DEF FreshUnlessMoved, TypeOK
<1>11. LiveClaims' = LiveClaims /\ (crossed' = crossed)
  BY DEF LiveClaims, AssignUser
<1>12. AgreesUnlessMoved(stored)' /\ \A t \in Tab : AgreesUnlessMoved(profile[t])'
  <2>1. \A p \in Profile \cup {NoProfile} : AgreesUnlessMoved(p) => AgreesUnlessMoved(Mark(p))
    BY <1>4, <1>5 DEF AgreesUnlessMoved
  <2> QED  BY <1>6, <1>11, <2>1 DEF AgreesUnlessMoved, TypeOK
<1>13. StoredIsCookies' /\ TabsAreCookies'
  <2>1. \A p \in Profile \cup {NoProfile} :
            Mark(p) # NoProfile => p # NoProfile /\ Mark(p).user = p.user
    BY <1>4, <1>5
  <2> QED  BY <1>6, <1>11, <2>1 DEF StoredIsCookies, TabsAreCookies, TypeOK, AssignUser
<1>14. /\ cookie # NoClaims => cookie.user \in User
       /\ \A f \in Flights : refresh[f] # NoClaims => refresh[f].user \in User
       /\ \A w \in Slots : req[w].pc = "update" => req[w].u \in User
  BY DEF TypeOK, Claims, Request, Idle
<1>15. \A v \in User : users[v] # NoAccount => users'[v] # NoAccount
  BY <1>2, <1>3, NoneAreNone
<1>16. AboutAccounts'
  BY <1>14, <1>15 DEF AboutAccounts, AssignUser
<1> QED  BY <1>8, <1>10, <1>12, <1>13, <1>16

-----------------------------------------------------------------------------
LEMMA InvStep == StaffInv /\ [Next]_vars => StaffInv'
<1> SUFFICES ASSUME StaffInv, [Next]_vars  PROVE StaffInv'
  OBVIOUS
<1>1. ASSUME NEW t \in Tab, NEW u \in User, Login(t, u)  PROVE StaffInv'
  BY <1>1, LoginStep
<1>2. ASSUME NEW t \in Tab, Logout(t)  PROVE StaffInv'
  BY <1>2, LogoutStep
<1>3. ASSUME NEW t \in Tab, LoadPage(t)  PROVE StaffInv'
  BY <1>3, LoadPageStep
<1>4. ASSUME NEW f \in Flights, Refresh(f) \/ RefreshArrives(f) \/ RefreshLost(f)
      PROVE  StaffInv'
  BY <1>4, RefreshStep, RefreshEndsStep
<1>5. CASE SessionEnds
  BY <1>5, SessionEndsStep
<1>6. ASSUME NEW u \in User, NEW b \in Branch, AssignUser(u, b)  PROVE StaffInv'
  BY <1>6, AssignStep
<1>7. ASSUME NEW u \in User, NEW role \in Roles, NEW b \in Branch \cup {NoBranch},
             CreateUser(u, role, b)
      PROVE  StaffInv'
  BY <1>7, CreateStep
<1>8. ASSUME NEW w \in Slots, NEW u \in User, NEW active \in BOOLEAN,
             ReadForUpdate(w, u, active)
      PROVE  StaffInv'
  BY <1>8, ReadStep
<1>9. ASSUME NEW w \in Slots, Update(w)  PROVE StaffInv'
  BY <1>9, UpdateStep
<1>10. CASE UNCHANGED vars
  BY <1>10 DEF vars, browser, history, StaffInv, TypeOK, FreshUnlessMoved, LiveClaims,
               AgreesUnlessMoved, StoredIsCookies, TabsAreCookies, AboutAccounts
<1> QED  BY <1>1, <1>2, <1>3, <1>4, <1>5, <1>6, <1>7, <1>8, <1>9, <1>10 DEF Next

LEMMA StaffInvariant == Spec => []StaffInv
  BY InitStaff, InvStep, PTL DEF Spec

-----------------------------------------------------------------------------
\* Every account, cookie, profile and request of the staff pages has its type.
THEOREM StaffTypes == Spec => []TypeOK
<1>1. StaffInv => TypeOK
  BY DEF StaffInv
<1> QED  BY <1>1, StaffInvariant, PTL

\* However many tabs log in and out, load, refresh and lose the session, and whoever
\* is moved meanwhile, a tab that was not upstaged goes by the person whose cookie
\* its calls carry, and by the branch of the claims unless that person was moved, until
\* the answer to a refresh from before the last login comes after it.
THEOREM TabsShowTheirUser == Spec => []TabShowsItsUser
<1>1. StaffInv => TabShowsItsUser
  <2> SUFFICES ASSUME StaffInv, NEW t \in Tab, cookie # NoClaims, profile[t] # NoProfile,
                      ~crossed
               PROVE  /\ ~upstaged[t] => InStep(t)
                      /\ InStep(t) /\ ~profile[t].moved => profile[t].branch = cookie.branch
    BY DEF TabShowsItsUser
  <2>1. cookie \in LiveClaims
    BY DEF LiveClaims, StaffInv, TypeOK
  <2>2. ~upstaged[t] => InStep(t)
    BY <2>1 DEF StaffInv, TabsAreCookies, InStep
  <2>3. InStep(t) /\ ~profile[t].moved => profile[t].branch = cookie.branch
    BY <2>1 DEF StaffInv, AgreesUnlessMoved, InStep
  <2> QED  BY <2>2, <2>3
<1> QED  BY <1>1, StaffInvariant, PTL

\* An update writes only an account that is in the manager's branch when it writes,
\* whatever happened to the account since it was read.
THEOREM ManagersKeep == Spec => ManagersKeepToBranch
<1> DEFINE Keeps == \A w \in Slots, u \in User :
         (/\ req[w].pc = "update" /\ req'[w] = Idle
          /\ req[w].by.role # "chain_admin"
          /\ req[w].u = u /\ users[u].branch # req[w].by.branch)
         => users'[u] = users[u]
<1>1. TypeOK /\ [Next]_vars => [Keeps]_vars
  <2> SUFFICES ASSUME TypeOK, Next, NEW w \in Slots, NEW u \in User,
                      req[w].pc = "update", req'[w] = Idle,
                      req[w].by.role # "chain_admin",
                      req[w].u = u, users[u].branch # req[w].by.branch
               PROVE  users'[u] = users[u]
    OBVIOUS
  <2>1. req'[w] # req[w]
    BY DEF Idle
  <2>2. ASSUME NEW v \in Slots, NEW n \in User, NEW active \in BOOLEAN,
               ReadForUpdate(v, n, active)
        PROVE  users' = users
    BY <2>2 DEF ReadForUpdate
  <2>3. ASSUME NEW v \in Slots, Update(v)  PROVE users' = users
    <3>1. v = w
      BY <2>1, <2>3 DEF Update, TypeOK
    <3>2. ~InReach(req[w].by, req[w].u)
      BY DEF InReach
    <3> QED  BY <2>3, <3>1, <3>2 DEF Update
  <2>4. \/ \E v \in Slots, n \in User, active \in BOOLEAN : ReadForUpdate(v, n, active)
        \/ \E v \in Slots : Update(v)
    BY <2>1
    DEF Next, vars, browser, history, Login, Logout, LoadPage, Refresh, RefreshArrives,
        RefreshLost, SessionEnds, AssignUser, CreateUser
  <2> QED  BY <2>2, <2>3, <2>4
<1> QED  BY <1>1, StaffTypes, PTL DEF Spec, ManagersKeepToBranch

-----------------------------------------------------------------------------
(* Roles: given with the account, and never again *)

\* A profile, and the claims, have the role of the account they are of.
OfItsRole(p) == p # NoProfile => p.role = users[p.user].role

RolesAgree ==
    /\ cookie # NoClaims => cookie.role = users[cookie.user].role
    /\ \A f \in Flights : refresh[f] # NoClaims => refresh[f].role = users[refresh[f].user].role
    /\ OfItsRole(stored) /\ \A t \in Tab : OfItsRole(profile[t])

\* Nobody but CreateUser writes a role, and it writes a row that was not there.
LEMMA RolesKept ==
  ASSUME StaffInv, [Next]_vars
  PROVE  \A u \in User : users[u] # NoAccount =>
            users'[u] # NoAccount /\ users'[u].role = users[u].role
<1> USE DEF StaffInv
<1>1. CASE users' = users
  BY <1>1
<1>2. ASSUME NEW u \in User, NEW role \in Roles, NEW b \in Branch \cup {NoBranch},
             CreateUser(u, role, b)
      PROVE  \A v \in User : users[v] # NoAccount => users'[v] = users[v]
  BY <1>2 DEF CreateUser, TypeOK
<1>3. ASSUME NEW a \in Account
      PROVE  /\ \A active \in BOOLEAN : /\ [a EXCEPT !.active = active] \in Account
                                        /\ [a EXCEPT !.active = active].role = a.role
             /\ \A b \in Branch : /\ [a EXCEPT !.branch = b] \in Account
                                  /\ [a EXCEPT !.branch = b].role = a.role
  BY DEF Account
<1>4. ASSUME NEW w \in Slots, Update(w)
      PROVE  \A v \in User : users[v] # NoAccount =>
                users'[v] # NoAccount /\ users'[v].role = users[v].role
  <2>1. req[w].u \in User /\ req[w].active \in BOOLEAN
    BY <1>4 DEF Update, TypeOK, Request, Idle
  <2>2. \A v \in User : users'[v] \in {users[v], [users[v] EXCEPT !.active = req[w].active]}
    BY <1>4, <2>1 DEF Update, TypeOK
  <2>3. \A v \in User : users[v] # NoAccount => users[v] \in Account
    BY DEF TypeOK
  <2> DEFINE active == req[w].active
  <2>4. \A x \in Account :
            /\ [x EXCEPT !.active = active] # NoAccount
            /\ [x EXCEPT !.active = active].role = x.role
    BY <1>3, <2>1, NoneAreNone
  <2> HIDE DEF StaffInv
  <2> QED  BY <2>1, <2>2, <2>3, <2>4
<1>5. ASSUME NEW u \in User, NEW b \in Branch, AssignUser(u, b)
      PROVE  \A v \in User : users[v] # NoAccount =>
                users'[v] # NoAccount /\ users'[v].role = users[v].role
  <2>1. \A v \in User : users'[v] \in {users[v], [users[v] EXCEPT !.branch = b]}
    BY <1>5 DEF AssignUser, TypeOK
  <2>2. \A v \in User : users[v] # NoAccount => users[v] \in Account
    BY DEF TypeOK
  <2>3. \A x \in Account :
            [x EXCEPT !.branch = b] # NoAccount /\ [x EXCEPT !.branch = b].role = x.role
    BY <1>3, NoneAreNone
  <2> HIDE DEF StaffInv
  <2> QED  BY <2>1, <2>2, <2>3
<1> QED  BY <1>1, <1>2, <1>4, <1>5
     DEF Next, vars, Login, Logout, LoadPage, Refresh, RefreshArrives, RefreshLost,
         SessionEnds, ReadForUpdate

\* A profile that stays, or is marked as moved, keeps the role it has.
LEMMA ProfilesKeepRole ==
  ASSUME StaffInv, [Next]_vars, NEW p \in Profile, FreshUnlessMoved(p), OfItsRole(p)
  PROVE  OfItsRole(p)'
<1>1. p.user \in User /\ users[p.user] # NoAccount /\ p.role = users[p.user].role
  BY NoneAreNone DEF Profile, FreshUnlessMoved, OfItsRole
<1>2. users'[p.user].role = p.role
  BY <1>1, RolesKept
<1> QED  BY <1>2 DEF OfItsRole

\* An assignment marks profiles, and a mark leaves person and role as they were.
LEMMA MarkKeepsRole ==
  ASSUME StaffInv, NEW u \in User, NEW b \in Branch, AssignUser(u, b), RolesAgree
  PROVE  OfItsRole(stored)' /\ \A t \in Tab : OfItsRole(profile[t])'
<1> USE DEF StaffInv
<1> DEFINE Mark(p) == IF p # NoProfile /\ p.user = u THEN [p EXCEPT !.moved = TRUE] ELSE p
<1>1. stored' = Mark(stored) /\ \A t \in Tab : profile'[t] = Mark(profile[t])
  BY DEF AssignUser
<1>2. ASSUME NEW p \in Profile  PROVE Mark(p).user = p.user /\ Mark(p).role = p.role
  BY DEF Profile
<1>3. Mark(NoProfile) = NoProfile
  OBVIOUS
<1> HIDE DEF Mark
<1>4. Next
  BY DEF Next
<1>5. ASSUME NEW p \in Profile \cup {NoProfile}, FreshUnlessMoved(p), OfItsRole(p)
      PROVE  Mark(p) # NoProfile => Mark(p).role = users'[Mark(p).user].role
  <2>1. CASE p = NoProfile
    BY <1>3, <2>1
  <2>2. CASE p \in Profile
    <3>1. p # NoProfile /\ p.role = users'[p.user].role
      BY <1>4, <1>5, <2>2, ProfilesKeepRole, NoneAreNone DEF OfItsRole
    <3> QED  BY <1>2, <2>2, <3>1
  <2> QED  BY <2>1, <2>2
<1>6. Mark(stored) # NoProfile => Mark(stored).role = users'[Mark(stored).user].role
  BY <1>5 DEF TypeOK, RolesAgree
<1>7. ASSUME NEW t \in Tab
      PROVE  Mark(profile[t]) # NoProfile => Mark(profile[t]).role = users'[Mark(profile[t]).user].role
  BY <1>5 DEF TypeOK, RolesAgree
<1> QED  BY <1>1, <1>6, <1>7 DEF OfItsRole

LEMMA RolesStep == StaffInv /\ RolesAgree /\ [Next]_vars => RolesAgree'
<1> SUFFICES ASSUME StaffInv, RolesAgree, [Next]_vars  PROVE RolesAgree'
  OBVIOUS
<1> USE DEF StaffInv, browser, history
\* Claims and profiles that are there stay right; those made now are made of the account.
<1>1. /\ cookie # NoClaims => cookie.role = users'[cookie.user].role
      /\ \A f \in Flights : refresh[f] # NoClaims => refresh[f].role = users'[refresh[f].user].role
  <2>1. /\ cookie # NoClaims => cookie.user \in User
        /\ \A f \in Flights : refresh[f] # NoClaims => refresh[f].user \in User
    BY DEF TypeOK, Claims
  <2> QED  BY <2>1, RolesKept DEF AboutAccounts, RolesAgree
<1>2. OfItsRole(stored) /\ FreshUnlessMoved(stored)
      /\ \A t \in Tab : OfItsRole(profile[t]) /\ FreshUnlessMoved(profile[t])
  BY DEF RolesAgree
<1>3. ASSUME NEW p \in Profile \cup {NoProfile}, FreshUnlessMoved(p), OfItsRole(p)
      PROVE  p # NoProfile => p.role = users'[p.user].role
  BY <1>3, ProfilesKeepRole DEF OfItsRole
<1>4. stored # NoProfile => stored.role = users'[stored.user].role
  BY <1>2, <1>3 DEF TypeOK
<1>5. \A t \in Tab : profile[t] # NoProfile => profile[t].role = users'[profile[t].user].role
  BY <1>2, <1>3 DEF TypeOK
<1>6. ASSUME NEW t \in Tab, NEW u \in User, Login(t, u)  PROVE RolesAgree'
  <2>1. /\ ClaimsOf(u).user = u /\ ClaimsOf(u).role = users[u].role
        /\ ProfileOf(u).user = u /\ ProfileOf(u).role = users[u].role
    BY DEF ClaimsOf, ProfileOf
  <2>2. \A s \in Tab : profile'[s] = IF s = t THEN ProfileOf(u) ELSE profile[s]
    BY <1>6 DEF Login, TypeOK
  <2> QED  BY <1>1, <1>5, <1>6, <2>1, <2>2 DEF Login, RolesAgree, OfItsRole
<1>7. ASSUME NEW t \in Tab, Logout(t)  PROVE RolesAgree'
  <2>1. \A s \in Tab : profile'[s] = IF s = t THEN NoProfile ELSE profile[s]
    BY <1>7 DEF Logout, TypeOK
  <2> QED  BY <1>1, <1>5, <1>7, <2>1 DEF Logout, RolesAgree, OfItsRole
<1>8. ASSUME NEW t \in Tab, LoadPage(t)  PROVE RolesAgree'
  <2>1. \A s \in Tab : profile'[s] = IF s = t THEN stored ELSE profile[s]
    BY <1>8 DEF LoadPage, TypeOK
  <2> QED  BY <1>1, <1>4, <1>5, <1>8, <2>1 DEF LoadPage, RolesAgree, OfItsRole
<1>9. ASSUME NEW f \in Flights, Refresh(f) \/ RefreshArrives(f) \/ RefreshLost(f)
      PROVE  RolesAgree'
  <2>1. UNCHANGED <<users, stored, profile>>
    BY <1>9 DEF Refresh, RefreshArrives, RefreshLost
  <2>2. /\ refresh'[f] = NoClaims \/ refresh'[f].role = users[refresh'[f].user].role
        /\ \A g \in Flights \ {f} : refresh'[g] = refresh[g]
        /\ cookie' = cookie \/ (cookie' = refresh[f] /\ refresh[f] # NoClaims)
    BY <1>9 DEF Refresh, RefreshArrives, RefreshLost, ClaimsOf, TypeOK
  <2> QED  BY <1>1, <1>4, <1>5, <2>1, <2>2 DEF RolesAgree, OfItsRole
<1>10. ASSUME NEW u \in User, NEW b \in Branch, AssignUser(u, b)  PROVE RolesAgree'
  <2>1. UNCHANGED <<cookie, refresh>>
    BY <1>10 DEF AssignUser
  <2> QED  BY <1>1, <1>10, <2>1, MarkKeepsRole DEF RolesAgree
<1>11. CASE /\ cookie' \in {cookie, NoClaims}
            /\ UNCHANGED <<stored, profile, refresh>>
  BY <1>1, <1>4, <1>5, <1>11 DEF RolesAgree, OfItsRole
<1> QED  BY <1>6, <1>7, <1>8, <1>9, <1>10, <1>11
     DEF Next, vars, SessionEnds, CreateUser, ReadForUpdate, Update

LEMMA RolesInvariant == Spec => [](StaffInv /\ RolesAgree)
<1>1. Init => RolesAgree
  BY DEF Init, RolesAgree, OfItsRole
<1> QED  BY <1>1, InitStaff, InvStep, RolesStep, PTL DEF Spec

\* A tab never goes by another role than the server does for the same person, not even
\* one whose profile is stale: neither update nor assignUser writes the role of an
\* account that is there.
RoleNeverStale == \A t \in Tab : InStep(t) => profile[t].role = cookie.role

THEOREM TabsHaveTheClaimsRole == Spec => []RoleNeverStale
<1>1. RolesAgree => RoleNeverStale
  BY DEF InStep, RolesAgree, OfItsRole, RoleNeverStale
<1> QED  BY <1>1, RolesInvariant, PTL

-----------------------------------------------------------------------------
(* Access: the tables agree *)

\* The pages that may be led to, by role.
DeskPages ==
    {"rooms", "guests", "newGuest", "guestDetail", "editGuest", "reservations",
     "newReservation", "reservationDetail", "calendar", "frontDesk", "invoices", "invoice",
     "checkout"}

ManagerPages ==
    {"newRoom", "editRoom", "roomTypes", "housekeepingManage", "reports", "reconciliation",
     "cancellations", "futureReservations", "users"}

LedTo(role) ==
    {"dashboard", "statusBoard"} \cup For(Cleaning, role, {"housekeeping"})
    \cup For(Desk, role, DeskPages) \cup For(Managers, role, ManagerPages)
    \cup For(ChainAdmin, role, {"chainDashboard", "branches"})

LEMMA MenuLedTo == \A role \in Roles : Menu(role) \subseteq LedTo(role)
  BY DEF Menu, MenuItems, LedTo, DeskPages, ManagerPages, For,
         Roles, Desk, Cleaning, Managers, ChainAdmin

LEMMA LinksLedTo ==
    \A role \in Roles : \A p \in LedTo(role) \cap DOMAIN Links : \A q \in DOMAIN Links[p] :
        role \in Links[p][q] => q \in LedTo(role)
<1> SUFFICES ASSUME NEW role \in Roles, NEW p \in LedTo(role) \cap DOMAIN Links,
                    NEW q \in DOMAIN Links[p], role \in Links[p][q]
             PROVE  q \in LedTo(role)
  OBVIOUS
<1> USE DEF Links, LedTo, For, ManagerPages, DeskPages, Roles, Desk, Cleaning, Managers,
        ChainAdmin
<1>1. CASE p = "rooms" /\ role \in Managers
  BY <1>1
<1>2. CASE p \in {"guests", "guestDetail", "reservations", "calendar"}
  BY <1>2
<1>3. CASE p \in {"newReservation", "reservationDetail", "invoices", "invoice"}
  BY <1>3
<1>4. CASE p \in {"checkout", "reports", "reconciliation"}
  BY <1>4
<1>5. CASE p = "rooms" /\ role \notin Managers
  BY <1>5
<1> QED  BY <1>1, <1>2, <1>3, <1>4, <1>5

LEMMA PagesLedTo == \A role \in Roles : Pages(role) \subseteq LedTo(role)
<1> SUFFICES ASSUME NEW role \in Roles PROVE  Pages(role) \subseteq LedTo(role)
  OBVIOUS
<1>1. ASSUME NEW S, S \subseteq LedTo(role)
      PROVE  S \cup LinkedFrom(S, role) \subseteq LedTo(role)
  BY <1>1, LinksLedTo DEF LinkedFrom
<1> DEFINE one == Menu(role) \cup LinkedFrom(Menu(role), role)
           two == one \cup LinkedFrom(one, role)
<1>2. one \subseteq LedTo(role)
  BY <1>1, MenuLedTo
<1>3. Pages(role) = two \cup LinkedFrom(two, role)
  BY DEF Pages
<1> HIDE DEF one
<1>4. two \subseteq LedTo(role)
  BY <1>1, <1>2
<1> HIDE DEF two
<1> QED  BY <1>1, <1>3, <1>4

\* The calls of the client library, by who may make them.
CallsOfAll ==
    {"getRooms", "getRoom", "updateCleaningStatus"}

CallsOfCleaning ==
    {"getTasks", "startTask", "completeTask", "skipTask"}

CallsOfDesk ==
    {"updateRoomStatus", "getRoomTypes", "getGuests", "searchGuests", "getGuest",
     "createGuest", "updateGuest", "getGuestDocuments", "getReservations",
     "getReservation", "getCalendarReservations", "createReservation",
     "updateReservationStatus", "cancelReservation", "sendPortalLink", "checkIn",
     "checkOut", "getInvoice", "getActiveGuests", "getArrivals", "getDepartures",
     "initiatePayment", "listInvoices", "getInvoiceById", "sendInvoiceByEmail",
     "getInvoicePayments", "addCharge", "applyDiscount", "getServiceCatalog",
     "downloadInvoicePdf", "getOccupancySummary", "getArrivalsDepartures",
     "getReservationPipeline", "getOccupancyTrend", "getFutureReservations",
     "getAvailableRooms"}

CallsOfManagers ==
    {"createRoom", "updateRoom", "deleteRoom", "createRoomType", "updateRoomType",
     "deleteRoomType", "deleteGuest", "initiateRefund", "getReconciliation",
     "getRevenueSummary", "getCancellations", "downloadReservationsCsv", "createTask",
     "assignTask", "getUsers", "createUser", "updateUser", "getBranches", "uploadPhoto",
     "getPricingSuggestions", "queryNlReports", "feedbackInsights", "digest", "reminders",
     "upgrades"}

CallsOfChain ==
    {"getCrossBranch", "createBranch", "updateBranch", "setBranchActive"}

Allowed(role) ==
    CallsOfAll \cup For(Cleaning, role, CallsOfCleaning) \cup For(Desk, role, CallsOfDesk)
    \cup For(Managers, role, CallsOfManagers) \cup For(ChainAdmin, role, CallsOfChain)

\* The call is of the route, and the route is open to the roles.
Opens(call, route, roles) == <<call, route>> \in Route /\ <<route, roles>> \in Server

LEMMA OpenCall ==
  \A role \in Roles : \A call, route, roles :
     Opens(call, route, roles) /\ role \in roles => Permits(role, call)
<1> SUFFICES ASSUME NEW role \in Roles, NEW call, NEW route, NEW roles,
                    Opens(call, route, roles), role \in roles
             PROVE  Permits(role, call)
  OBVIOUS
<1> DEFINE open == {r[1] : r \in {s \in Server : role \in s[2]}}
<1>1. route \in open
  BY DEF Opens
<1>2. call \in {c[1] : c \in {d \in Route : d[2] \in open}}
  BY <1>1 DEF Opens
<1> QED  BY <1>2 DEF Permits, Permitted

LEMMA RoomsOpen ==
  /\ Opens("getRooms", "GET rooms", Roles)
  /\ Opens("getRoom", "GET rooms/id", Roles)
  /\ Opens("createRoom", "POST rooms", Managers)
  /\ Opens("updateRoom", "PATCH rooms/id", Managers)
  /\ Opens("updateRoomStatus", "PATCH rooms/id/status", Desk)
  /\ Opens("updateCleaningStatus", "PATCH rooms/id/cleaning-status", Roles)
  /\ Opens("deleteRoom", "DELETE rooms/id", Managers)
  /\ Opens("getRoomTypes", "GET room-types", Desk)
  /\ Opens("createRoomType", "POST room-types", Managers)
  /\ Opens("updateRoomType", "PATCH room-types/id", Managers)
  /\ Opens("deleteRoomType", "DELETE room-types/id", Managers)
  BY DEF RoomsClient, RoomsController, RoomTypesController, Route, Server, Opens

LEMMA GuestsOpen ==
  /\ Opens("getGuests", "GET guests", Desk)
  /\ Opens("searchGuests", "GET guests/search", Desk)
  /\ Opens("getGuest", "GET guests/id", Desk)
  /\ Opens("createGuest", "POST guests", Desk)
  /\ Opens("updateGuest", "PATCH guests/id", Desk)
  /\ Opens("deleteGuest", "DELETE guests/id", Managers)
  /\ Opens("getGuestDocuments", "GET guests/id/documents", Desk)
  /\ Opens("getReservations", "GET reservations", Desk)
  /\ Opens("getReservation", "GET reservations/id", Desk)
  /\ Opens("getCalendarReservations", "GET reservations/calendar", Desk)
  /\ Opens("createReservation", "POST reservations", Desk)
  /\ Opens("updateReservationStatus", "PATCH reservations/id/status", Desk)
  /\ Opens("cancelReservation", "POST reservations/id/cancel", Desk)
  /\ Opens("sendPortalLink", "POST portal/send-link", Desk)
  /\ Opens("checkIn", "POST reservations/id/check-in", Desk)
  /\ Opens("checkOut", "POST reservations/id/check-out", Desk)
  /\ Opens("getInvoice", "GET reservations/id/invoice", Desk)
  /\ Opens("getActiveGuests", "GET front-desk/active-guests", Desk)
  /\ Opens("getArrivals", "GET front-desk/arrivals", Desk)
  /\ Opens("getDepartures", "GET front-desk/departures", Desk)
  BY DEF GuestsClient, ReservationsClient, CheckInClient, GuestsController,
         ReservationsController, PortalStaffRoutes, CheckInController, Route, Server, Opens

LEMMA BillingOpen ==
  /\ Opens("initiatePayment", "POST payments", Desk)
  /\ Opens("listInvoices", "GET invoices", Desk)
  /\ Opens("getInvoiceById", "GET invoices/id", Desk)
  /\ Opens("sendInvoiceByEmail", "POST invoices/id/send-email", Desk)
  /\ Opens("getInvoicePayments", "GET invoices/id/payments", Desk)
  /\ Opens("addCharge", "POST charges", Desk)
  /\ Opens("initiateRefund", "POST refunds", Managers)
  /\ Opens("applyDiscount", "POST invoices/id/discount", Desk)
  /\ Opens("getServiceCatalog", "GET service-catalog", Desk)
  /\ Opens("getReconciliation", "GET reports/payment-reconciliation", Managers)
  /\ Opens("downloadInvoicePdf", "GET invoices/id/pdf", Desk)
  BY DEF BillingClient, CatalogClient, PaymentRoutes, InvoiceRoutes, RefundRoutes, Route,
         Server, Opens

LEMMA ReportsOpen ==
  /\ Opens("getOccupancySummary", "GET reports/occupancy-summary", Desk)
  /\ Opens("getRevenueSummary", "GET reports/revenue-summary", Managers)
  /\ Opens("getArrivalsDepartures", "GET reports/arrivals-departures", Desk)
  /\ Opens("getReservationPipeline", "GET reports/reservation-pipeline", Desk)
  /\ Opens("getOccupancyTrend", "GET reports/occupancy-trend", Desk)
  /\ Opens("getCancellations", "GET reports/cancellations", Managers)
  /\ Opens("getFutureReservations", "GET reports/future-reservations", Desk)
  /\ Opens("getCrossBranch", "GET reports/cross-branch", ChainAdmin)
  /\ Opens("downloadReservationsCsv", "GET reports/export/reservations", Managers)
  /\ Opens("getPricingSuggestions", "GET reports/pricing-suggestions", Managers)
  /\ Opens("queryNlReports", "POST reports/query", Managers)
  /\ Opens("feedbackInsights", "GET reports/feedback-insights", Managers)
  /\ Opens("digest", "POST ai/trigger/digest", Managers)
  /\ Opens("reminders", "POST ai/trigger/reminders", Managers)
  /\ Opens("upgrades", "POST ai/trigger/upgrades", Managers)
  BY DEF ReportsClient, AssistantsClient, InsightsWidget, TriggersWidget, ReportsController,
         PricingController, NlReportsController, FeedbackController, AiTriggersController,
         Route, Server, Opens

LEMMA RestOpen ==
  /\ Opens("getTasks", "GET housekeeping/tasks", Cleaning)
  /\ Opens("createTask", "POST housekeeping/tasks", Managers)
  /\ Opens("assignTask", "PATCH housekeeping/tasks/id/assign", Managers)
  /\ Opens("startTask", "PATCH housekeeping/tasks/id/start", Cleaning)
  /\ Opens("completeTask", "PATCH housekeeping/tasks/id/complete", Cleaning)
  /\ Opens("skipTask", "PATCH housekeeping/tasks/id/skip", Cleaning)
  /\ Opens("getUsers", "GET users", Managers)
  /\ Opens("createUser", "POST users", Managers)
  /\ Opens("updateUser", "PATCH users/id", Managers)
  /\ Opens("getBranches", "GET branches", Managers)
  /\ Opens("createBranch", "POST branches", ChainAdmin)
  /\ Opens("updateBranch", "PATCH branches/id", ChainAdmin)
  /\ Opens("setBranchActive", "PATCH branches/id", ChainAdmin)
  /\ Opens("getAvailableRooms", "GET availability", Desk)
  /\ Opens("uploadPhoto", "POST uploads/photo", Managers)
  BY DEF HousekeepingClient, UsersClient, BranchesClient, AvailabilityClient, UploadsClient,
         HousekeepingController, UsersController, BranchesController, AvailabilityController,
         UploadsController, Route, Server, Opens

LEMMA AllowedIsPermitted ==
  ASSUME NEW role \in Roles
  PROVE  \A call \in Allowed(role) : Permits(role, call)
<1>1. \A call \in CallsOfAll : \E route : Opens(call, route, Roles)
  BY RoomsOpen, GuestsOpen, BillingOpen, ReportsOpen, RestOpen DEF CallsOfAll
<1>2. \A call \in CallsOfCleaning : \E route : Opens(call, route, Cleaning)
  BY RoomsOpen, GuestsOpen, BillingOpen, ReportsOpen, RestOpen DEF CallsOfCleaning
<1>3. \A call \in CallsOfDesk : \E route : Opens(call, route, Desk)
  BY RoomsOpen, GuestsOpen, BillingOpen, ReportsOpen, RestOpen DEF CallsOfDesk
<1>4. \A call \in CallsOfManagers : \E route : Opens(call, route, Managers)
  BY RoomsOpen, GuestsOpen, BillingOpen, ReportsOpen, RestOpen DEF CallsOfManagers
<1>5. \A call \in CallsOfChain : \E route : Opens(call, route, ChainAdmin)
  BY RoomsOpen, GuestsOpen, BillingOpen, ReportsOpen, RestOpen DEF CallsOfChain
<1> QED  BY <1>1, <1>2, <1>3, <1>4, <1>5, OpenCall DEF Allowed, For

\* What a page calls is allowed to whom it is shown.
LEMMA CallsAllowed ==
  ASSUME NEW role \in Roles, NEW p \in LedTo(role)
  PROVE  Calls(p, role) \subseteq Allowed(role)
<1> USE DEF Allowed, CallsOfAll, CallsOfCleaning, CallsOfDesk, CallsOfManagers, CallsOfChain,
        For, Cleaning, Desk, Managers, ChainAdmin
<1>1. CASE p \in {"dashboard", "statusBoard"}
  BY <1>1 DEF Calls, DashboardCalls
<1>2. CASE p = "housekeeping" /\ role \in Cleaning
  BY <1>2 DEF Calls
<1>3. CASE p \in DeskPages /\ role \in Desk
  BY <1>3 DEF DeskPages, Calls, RoomsCalls, GuestsCalls, NewReservationCalls,
              ReservationDetailCalls, FrontDeskCalls, InvoiceCalls, Roles
<1>4. CASE p \in ManagerPages /\ role \in Managers
  BY <1>4 DEF ManagerPages, Calls, NewRoomCalls, RoomTypesCalls, HousekeepingManageCalls,
              ReportsCalls
<1>5. CASE p \in {"chainDashboard", "branches"} /\ role \in ChainAdmin
  BY <1>5 DEF Calls, BranchesCalls
<1> QED  BY <1>1, <1>2, <1>3, <1>4, <1>5 DEF LedTo

\* What a page offers is permitted to the role it is offered to: the tables agree.
THEOREM TablesAgree == \A role \in Roles : \A call \in Offers[role] : Permits(role, call)
<1> SUFFICES ASSUME NEW role \in Roles  PROVE Offers[role] \subseteq Allowed(role)
  BY AllowedIsPermitted
<1>1. TopbarCalls(role) \subseteq Allowed(role)
  BY DEF TopbarCalls, Allowed, For, CallsOfManagers, ChainAdmin, Managers
<1> QED  BY <1>1, PagesLedTo, CallsAllowed DEF Offers

\* Whatever a tab offers its user the server lets that user do, through all logins, loads,
\* refreshes and moves: the two go by one role, and the tables agree about it.
THEOREM TabsOfferWhatIsPermitted == Spec => []OffersArePermitted
<1>1. StaffInv /\ RolesAgree => OffersArePermitted
  <2> SUFFICES ASSUME StaffInv, RolesAgree, NEW t \in Tab, InStep(t)
               PROVE  \A call \in Offers[profile[t].role] : Permits(cookie.role, call)
    BY DEF OffersArePermitted
  <2>1. profile[t].role = cookie.role
    BY DEF InStep, RolesAgree, OfItsRole
  <2>2. cookie.role \in Roles
    BY DEF StaffInv, TypeOK, InStep, Claims
  <2> QED  BY <2>1, <2>2, TablesAgree
<1> QED  BY <1>1, RolesInvariant, PTL

-----------------------------------------------------------------------------
(* Pages: what a page shows, and does *)

\* A page that is a form: all that its actions do is leave it.
Form(p) == p.acts # {} /\ p.acts \subseteq {"leave", "save"}

\* Every form disables its button while its action is out.
WellMade(p) == p \in PageType /\ (Form(p) => p.acts \subseteq p.locks)

CallsTyped ==
    /\ \A x \in calls : x \in CallType
    /\ \A x, y \in calls : x.id = y.id => x = y

\* The rows the page keeps when the answer to a patch, a removal or an insert came.
Patched(x) ==
    LET kept == DOMAIN shown \ {x.row}
        new  == IF x.kind = "insert" THEN DOMAIN x.answer
                ELSE DOMAIN x.answer \cap DOMAIN shown
    IN  [k \in kept \cup new |-> IF k \in new THEN x.answer[k] ELSE shown[k]]

\* Without a filter a row is found under the choice it was made under.
Unfiltered == ~page.filters => foundBy = [k \in Rows |-> k[1]]

\* These rows are all that the choice's query finds, each as the database has it, and
\* others only as far as the page filters by what its actions change.
Current(rows) ==
    /\ \A k \in DOMAIN server : foundBy[k] = choice => k \in DOMAIN rows
    /\ \A k \in DOMAIN rows :
          /\ k \in DOMAIN server /\ rows[k] = server[k]
          /\ foundBy[k] = choice \/ (page.filters /\ rows[k] > 0)

\* The only call out brings, or will bring, the rows of the choice.
Brings(x) ==
    /\ x.kind = "load" => x.row[1] = choice /\ (x.done => x.answer = RowsOf(choice))
    /\ x.kind \in Acts /\ ~error =>
          /\ ~x.done => /\ Current(shown)
                        /\ x.kind \in {"patch", "drop"} => x.row \in DOMAIN shown
                        /\ x.kind = "insert" => x.row[1] = choice
          /\ x.done /\ x.kind \in {"patch", "drop", "insert"} => Current(Patched(x))

Calm == page.loads /\ ~leaving /\ ~gone /\ ~blurred

Settling ==
    Calm => /\ \A x, y \in calls : x = y
            /\ \A x \in calls : Brings(x)
            /\ calls = {} /\ choice # NoChoice /\ ~error => Current(shown)

\* A page is left when its action was done, and pressed again only while it is being left.
Done ==
    /\ \A x \in calls : x.kind \in Acts /\ x.done => written >= 1
    /\ leaving => page.pushes /\ written >= 1
    /\ gone /\ ~page.trusts => written >= 1
    /\ again => page.pushes

\* The one action of a form is out, or done, or there was none yet.
OneAction ==
    Form(page) /\ ~lost /\ ~again =>
        /\ \A x \in calls : x.kind \in page.acts \cup {"load"}
        /\ \A x, y \in calls : x.kind \in Acts /\ y.kind \in Acts => x = y
        /\ \A x \in calls :
              x.kind \in Acts => ~gone /\ ~leaving /\ written = IF x.done THEN 1 ELSE 0
        /\ ~gone /\ ~leaving /\ (\A x \in calls : x.kind = "load") => written = 0
        /\ written <= 1

PageInv == PageTypeOK /\ Unfiltered /\ Settling /\ Done /\ OneAction

-----------------------------------------------------------------------------
(* The pages *)

LEMMA PagesAreWellMade == \A p \in AllPages : WellMade(p)
<1>1. /\ WellMade(GuestsPage) /\ WellMade(RoomsPage)
      /\ WellMade(ReservationsPage) /\ WellMade(InvoicesPage)
      /\ WellMade(HousekeepingPage) /\ WellMade(HousekeepingManagePage)
  BY DEF GuestsPage, RoomsPage, ReservationsPage, InvoicesPage,
         HousekeepingPage, HousekeepingManagePage, List, WellMade, Form,
         PageType, Acts
<1>2. /\ WellMade(RoomTypesPage) /\ WellMade(CalendarPage)
      /\ WellMade(FrontDeskPage) /\ WellMade(StatusBoardPage)
      /\ WellMade(ReconciliationPage) /\ WellMade(NewReservationPage)
  BY DEF RoomTypesPage, CalendarPage, FrontDeskPage, StatusBoardPage,
         ReconciliationPage, NewReservationPage, List, WellMade, Form,
         PageType, Acts
<1>3. WellMade(GuestSearchCombobox) /\ WellMade(NewRoomPage)
  BY DEF GuestSearchCombobox, NewRoomPage, List, WellMade, Form,
         PageType, Acts
<1>4. /\ WellMade(FutureReservationsPage) /\ WellMade(CancellationsPage)
      /\ WellMade(DashboardPage) /\ WellMade(BookRoomsPage)
      /\ WellMade(BookRoomTypePage) /\ WellMade(OccupancySummaryWidget)
  BY DEF FutureReservationsPage, CancellationsPage, DashboardPage,
         BookRoomsPage, BookRoomTypePage, OccupancySummaryWidget, Dated,
         List, WellMade, Form, PageType, Acts
<1>5. /\ WellMade(ChainDashboardPage) /\ WellMade(ReportsPage)
      /\ WellMade(GuestDetailPage) /\ WellMade(UsersPage)
      /\ WellMade(BranchesPage) /\ WellMade(EditGuestPage)
  BY DEF ChainDashboardPage, ReportsPage, GuestDetailPage, UsersPage,
         BranchesPage, EditGuestPage, Fixed, Dated, List, WellMade,
         Form, PageType, Acts
<1>6. /\ WellMade(EditRoomPage) /\ WellMade(ReservationDetailPage)
      /\ WellMade(InvoicePage) /\ WellMade(PortalLandingPage)
      /\ WellMade(PortalCheckInPage) /\ WellMade(PortalPaymentPage)
  BY DEF EditRoomPage, ReservationDetailPage, InvoicePage,
         PortalLandingPage, PortalCheckInPage, PortalPaymentPage, Fixed,
         Dated, List, WellMade, Form, PageType, Acts
<1>7. /\ WellMade(CheckoutPage) /\ WellMade(BookBranchesPage)
      /\ WellMade(BookBranchPage) /\ WellMade(FeedbackInsights)
      /\ WellMade(SessionsPanel)
  BY DEF CheckoutPage, BookBranchesPage, BookBranchPage,
         FeedbackInsights, SessionsPanel, Fixed, Dated, List,
         WellMade, Form, PageType, Acts
<1>8. /\ WellMade(NewGuestPage) /\ WellMade(BookCheckoutPage)
      /\ WellMade(LoginPage) /\ WellMade(ForgotPasswordPage)
      /\ WellMade(ResetPasswordPage) /\ WellMade(FeedbackForm)
  BY DEF NewGuestPage, BookCheckoutPage, LoginPage, ForgotPasswordPage,
         ResetPasswordPage, FeedbackForm, LeftForm, SimpleForm, Fixed, Dated,
         List, WellMade, Form, PageType, Acts
<1>9. WellMade(AiConcierge)
  BY DEF AiConcierge, SimpleForm, Fixed, Dated, List, WellMade,
         Form, PageType, Acts
<1> QED  BY <1>1, <1>2, <1>3, <1>4, <1>5, <1>6, <1>7, <1>8, <1>9 DEF AllPages

-----------------------------------------------------------------------------
(* Calls and rows *)

LEMMA NothingIsRows == Nothing \in RowSets /\ DOMAIN Nothing = {}
<1>1. Nothing \in [{} -> 0 .. MaxWrites] /\ DOMAIN Nothing = {}
  BY DEF Nothing
<1>2. {} \in SUBSET Rows
  OBVIOUS
<1> QED  BY <1>1, <1>2 DEF RowSets

LEMMA RowsParts ==
  ASSUME NEW f \in RowSets
  PROVE  /\ DOMAIN f \subseteq Rows /\ f = [k \in DOMAIN f |-> f[k]]
         /\ \A k \in DOMAIN f : f[k] \in 0 .. MaxWrites
<1>1. PICK S \in SUBSET Rows : f \in [S -> 0 .. MaxWrites]
  BY DEF RowSets
<1> QED  BY <1>1

LEMMA RowsMade ==
  ASSUME NEW S \in SUBSET Rows, NEW f \in [S -> 0 .. MaxWrites]
  PROVE  f \in RowSets
  BY DEF RowSets

LEMMA RowsOfIsRows ==
  ASSUME PageTypeOK, NEW c
  PROVE  /\ RowsOf(c) \in RowSets
         /\ RowsOf(c) = [k \in {r \in DOMAIN server : foundBy[r] = c} |-> server[k]]
<1>1. RowsOf(c) = [k \in {r \in DOMAIN server : foundBy[r] = c} |-> server[k]]
  BY DEF RowsOf, Restrict
<1>2. /\ DOMAIN server \subseteq Rows
      /\ \A k \in DOMAIN server : server[k] \in 0 .. MaxWrites
  BY RowsParts DEF PageTypeOK
<1>3. {r \in DOMAIN server : foundBy[r] = c} \in SUBSET Rows
  BY <1>2
<1>4. RowsOf(c) \in [{r \in DOMAIN server : foundBy[r] = c} -> 0 .. MaxWrites]
  BY <1>1, <1>2
<1> QED  BY <1>1, <1>3, <1>4, RowsMade

LEMMA CallFields ==
  ASSUME NEW x \in CallType
  PROVE  /\ x.id \in 1 .. MaxCalls
         /\ x.kind \in Acts \cup {"load"} /\ x.row \in Rows
         /\ x.done \in BOOLEAN /\ x.answer \in RowSets
         /\ x = [id |-> x.id, kind |-> x.kind, row |-> x.row, done |-> x.done,
                 answer |-> x.answer]
  BY DEF CallType

LEMMA FreeId ==
  ASSUME PageTypeOK, CanCall
  PROVE  \E n \in 1 .. MaxCalls : \A x \in calls : x.id # n
<1> SUFFICES ASSUME \A n \in 1 .. MaxCalls : \E x \in calls : x.id = n
             PROVE  FALSE
  OBVIOUS
<1> DEFINE f == [x \in calls |-> x.id]
<1>1. MaxCalls \in Nat
  BY BoundAssumption
<1>2. IsFiniteSet(1 .. MaxCalls) /\ Cardinality(1 .. MaxCalls) = MaxCalls
  BY <1>1, FS_Interval
<1>3. f \in [calls -> 1 .. MaxCalls]
  BY CallFields DEF PageTypeOK
<1>4. f \in Injection(calls, 1 .. MaxCalls)
  BY <1>3 DEF Injection, IsInjective, PageTypeOK
<1>5. f \in Surjection(calls, 1 .. MaxCalls)
  BY <1>3 DEF Surjection
<1>6. Cardinality(calls) < MaxCalls
  BY DEF CanCall
<1> QED  BY <1>1, <1>2, <1>4, <1>5, <1>6, FS_Injection

LEMMA NewCallFields ==
  ASSUME PageTypeOK, CanCall,
         NEW kind \in Acts \cup {"load"}, NEW row \in Rows
  PROVE  /\ NewCall(kind, row) \in CallType
         /\ NewCall(kind, row).kind = kind /\ NewCall(kind, row).row = row
         /\ ~NewCall(kind, row).done
         /\ \A x \in calls : x.id # NewCall(kind, row).id
<1> DEFINE n == CHOOSE m \in 1 .. MaxCalls : \A x \in calls : x.id # m
<1>1. n \in 1 .. MaxCalls /\ \A x \in calls : x.id # n
  BY FreeId
<1>2. NewCall(kind, row) = [id |-> n, kind |-> kind, row |-> row, done |-> FALSE,
                            answer |-> Nothing]
  BY DEF NewCall
<1> HIDE DEF n
<1> QED  BY <1>1, <1>2, NothingIsRows DEF CallType

LEMMA CallAdded ==
  ASSUME PageTypeOK, NEW y \in CallType,
         \A x \in calls : x.id # y.id, calls' = calls \cup {y}
  PROVE  CallsTyped'
  BY DEF PageTypeOK, CallsTyped

LEMMA CallReplaced ==
  ASSUME PageTypeOK, NEW x \in calls, NEW y \in CallType,
         y.id = x.id,
         calls' = (calls \ {x}) \cup {y}
  PROVE  CallsTyped'
  BY DEF PageTypeOK, CallsTyped

LEMMA CallsLeft ==
  ASSUME PageTypeOK, calls' \subseteq calls
  PROVE  CallsTyped'
  BY DEF PageTypeOK, CallsTyped

-----------------------------------------------------------------------------
(* Types *)

LEMMA RestTyped ==
  ASSUME PageTypeOK, CallsTyped', UNCHANGED page,
         choice' \in Choice \cup {NoChoice}, server' \in RowSets, written' \in 0 .. MaxWrites,
         foundBy' \in [Rows -> Choice], shown' \in RowSets, loading' \in BOOLEAN,
         error' \in BOOLEAN, leaving' \in BOOLEAN, gone' \in BOOLEAN, blurred' \in BOOLEAN,
         lost' \in BOOLEAN, again' \in BOOLEAN
  PROVE  PageTypeOK'
  BY DEF PageTypeOK, CallsTyped

LEMMA ChooseTyped ==
  ASSUME PageTypeOK, NEW c \in Choice, Choose(c)
  PROVE  PageTypeOK'
<1>1. <<c, 1>> \in Rows
  BY DEF Rows
<1>2. CallsTyped'
  BY <1>1, NewCallFields, CallAdded DEF Choose, Load
<1>3. page.spins \in BOOLEAN
  BY DEF PageTypeOK, PageType
<1> QED  BY <1>2, <1>3, NothingIsRows, RestTyped DEF Choose, database, past, PageTypeOK

LEMMA ChooseNothingTyped ==
  ASSUME PageTypeOK, ChooseNothing
  PROVE  PageTypeOK'
<1>1. CallsTyped'
  BY CallsLeft DEF ChooseNothing
<1> QED  BY <1>1, NothingIsRows, RestTyped DEF ChooseNothing, database, past, PageTypeOK

LEMMA ActTyped ==
  ASSUME PageTypeOK, NEW how \in Acts, NEW row \in Rows,
         Act(how, row)
  PROVE  PageTypeOK'
<1>1. CallsTyped'
  BY NewCallFields, CallAdded DEF Act
<1>2. page.mutes \in BOOLEAN
  BY DEF PageTypeOK, PageType
<1> QED  BY <1>1, <1>2, RestTyped DEF Act, database, past, PageTypeOK

\* The call as it is once the server has answered it.
LEMMA Answered ==
  ASSUME NEW x \in CallType, NEW rows \in RowSets
  PROVE  LET y == [x EXCEPT !.done = TRUE, !.answer = rows]
         IN  /\ y \in CallType /\ y.id = x.id /\ y.kind = x.kind /\ y.row = x.row
             /\ y.done /\ y.answer = rows
  BY DEF CallType

LEMMA ServerLoadsTyped ==
  ASSUME PageTypeOK, NEW x \in calls, ServerLoads(x)
  PROVE  PageTypeOK'
<1>1. x \in CallType
  BY DEF PageTypeOK
<1>2. CallsTyped'
  BY <1>1, Answered, RowsOfIsRows, CallReplaced DEF ServerLoads
<1> QED  BY <1>2, RestTyped DEF ServerLoads, database, past, PageTypeOK

\* What a served action makes of the rows.
LEMMA ServedRows ==
  ASSUME PageTypeOK, NEW x \in calls, ServerActs(x)
  PROVE  LET new == AfterAct(x)
         IN  /\ x \in CallType /\ written' \in 1 .. MaxWrites /\ new \in RowSets
             /\ x.kind = "drop" => DOMAIN new = {}
             /\ x.kind # "drop" => DOMAIN new = {x.row} /\ new[x.row] = written'
             /\ server' \in RowSets
             /\ DOMAIN server' = (DOMAIN server \ {x.row}) \cup DOMAIN new
             /\ \A k \in DOMAIN server' : server'[k] = IF k = x.row THEN written' ELSE server[k]
<1> DEFINE new  == AfterAct(x)
           kept == DOMAIN server \ {x.row}
<1>1. x \in CallType /\ x.row \in Rows
  BY CallFields DEF PageTypeOK
<1>2. written' \in 1 .. MaxWrites
  BY BoundAssumption DEF ServerActs, PageTypeOK
<1>3. /\ x.kind = "drop" => new = Nothing
      /\ x.kind # "drop" => new = [k \in {x.row} |-> written']
  BY DEF AfterAct
<1>4. new \in RowSets
  <2>1. /\ [k \in {x.row} |-> written'] \in [{x.row} -> 0 .. MaxWrites]
        /\ {x.row} \in SUBSET Rows
    BY <1>1, <1>2
  <2>2. [k \in {x.row} |-> written'] \in RowSets
    BY <2>1, RowsMade
  <2> QED  BY <1>3, <2>2, NothingIsRows
<1>5. /\ x.kind = "drop" => DOMAIN new = {}
      /\ x.kind # "drop" => DOMAIN new = {x.row} /\ new[x.row] = written'
  BY <1>3, NothingIsRows
<1>6. server' = [k \in kept \cup DOMAIN new |-> IF k \in kept THEN server[k] ELSE new[k]]
  BY DEF ServerActs
<1> HIDE DEF new
<1>7. /\ DOMAIN server \subseteq Rows
      /\ \A k \in DOMAIN server : server[k] \in 0 .. MaxWrites
  BY RowsParts DEF PageTypeOK
<1>8. DOMAIN server' = kept \cup DOMAIN new
  BY <1>6
<1>9. \A k \in DOMAIN server' : server'[k] = IF k = x.row THEN written' ELSE server[k]
  BY <1>5, <1>6
<1>10. server' \in [kept \cup DOMAIN new -> 0 .. MaxWrites]
  BY <1>2, <1>5, <1>6, <1>7
<1>11. kept \cup DOMAIN new \in SUBSET Rows
  BY <1>1, <1>5, <1>7
<1>12. server' \in RowSets
  BY <1>10, <1>11, RowsMade
<1> QED  BY <1>1, <1>2, <1>4, <1>5, <1>8, <1>9, <1>12 DEF new

LEMMA ServerActsTyped ==
  ASSUME PageTypeOK, NEW x \in calls, ServerActs(x)
  PROVE  PageTypeOK'
<1>1. /\ x \in CallType
      /\ written' \in 1 .. MaxWrites /\ AfterAct(x) \in RowSets
      /\ server' \in RowSets
  BY ServedRows
<1>2. CallsTyped'
  BY <1>1, Answered, CallReplaced DEF ServerActs
<1>3. written' \in 0 .. MaxWrites
  BY <1>1, BoundAssumption
<1>4. x.row[1] \in Choice
  BY <1>1, CallFields DEF Rows
<1>5. foundBy' \in [Rows -> Choice]
  BY <1>4 DEF ServerActs, PageTypeOK
<1> QED  BY <1>1, <1>2, <1>3, <1>5, RestTyped DEF ServerActs, past, PageTypeOK

LEMMA PatchedIsRows ==
  ASSUME PageTypeOK, NEW x \in calls
  PROVE  Patched(x) \in RowSets
<1> DEFINE kept == DOMAIN shown \ {x.row}
           new  == IF x.kind = "insert" THEN DOMAIN x.answer
                   ELSE DOMAIN x.answer \cap DOMAIN shown
<1>1. x.answer \in RowSets /\ shown \in RowSets
  BY CallFields DEF PageTypeOK
<1>2. /\ DOMAIN x.answer \subseteq Rows
      /\ \A k \in DOMAIN x.answer : x.answer[k] \in 0 .. MaxWrites
      /\ DOMAIN shown \subseteq Rows
      /\ \A k \in DOMAIN shown : shown[k] \in 0 .. MaxWrites
  BY <1>1, RowsParts
<1>3. Patched(x) = [k \in kept \cup new |-> IF k \in new THEN x.answer[k] ELSE shown[k]]
  BY DEF Patched
<1>4. /\ kept \cup new \in SUBSET Rows
      /\ new \subseteq DOMAIN x.answer /\ kept \subseteq DOMAIN shown
  BY <1>2
<1>5. Patched(x) \in [kept \cup new -> 0 .. MaxWrites]
  BY <1>2, <1>3, <1>4
<1> QED  BY <1>4, <1>5, RowsMade

\* The answer that is a reload sends a load.
LEMMA ReloadFields ==
  ASSUME PageTypeOK, NEW x \in calls
  PROVE  LET y == [x EXCEPT !.kind = "load", !.done = FALSE, !.answer = Nothing,
                            !.row = <<x.row[1], 1>>]
         IN  /\ y \in CallType /\ y.id = x.id /\ y.kind = "load"
             /\ y.row[1] = x.row[1] /\ ~y.done
<1>1. x \in CallType /\ x.row \in Rows
  BY CallFields DEF PageTypeOK
<1>2. <<x.row[1], 1>> \in Rows
  BY <1>1 DEF Rows
<1> QED  BY <1>1, <1>2, NothingIsRows DEF CallType

LEMMA AnswerTyped ==
  ASSUME PageTypeOK, NEW n \in 1 .. MaxCalls, AnswerTo(n)
  PROVE  PageTypeOK'
<1>1. PICK x \in calls : \/ LoadArrives(x) \/ LoadFails(x)
                         \/ PatchArrives(x) \/ ReloadArrives(x) \/ LeaveArrives(x)
                         \/ ActRefused(x) \/ ActLost(x)
  BY DEF AnswerTo
<1>2. x \in CallType /\ x.answer \in RowSets /\ x.done \in BOOLEAN
  BY CallFields DEF PageTypeOK
<1>3. /\ page.spins \in BOOLEAN /\ page.trusts \in BOOLEAN /\ page.pushes \in BOOLEAN
  BY DEF PageTypeOK, PageType
<1>4. CASE LoadArrives(x)
  BY <1>2, <1>4, CallsLeft, RestTyped DEF LoadArrives, database, past, PageTypeOK
<1>5. CASE LoadFails(x)
  BY <1>5, CallsLeft, NothingIsRows, RestTyped DEF LoadFails, database, past, PageTypeOK
<1>6. CASE PatchArrives(x)
  <2>1. shown' = Patched(x)
    BY <1>6 DEF PatchArrives, Patched
  <2> QED  BY <1>6, <2>1, PatchedIsRows, CallsLeft, RestTyped DEF PatchArrives,
              database, past, PageTypeOK
<1>7. CASE ReloadArrives(x)
  <2>1. CallsTyped'
    BY <1>7, ReloadFields, CallReplaced DEF ReloadArrives
  <2> QED  BY <1>3, <1>7, <2>1, RestTyped DEF ReloadArrives, database, past, PageTypeOK
<1>8. CASE LeaveArrives(x)
  BY <1>3, <1>8, CallsLeft, RestTyped DEF LeaveArrives, database, past, PageTypeOK
<1>9. CASE ActRefused(x)
  BY <1>3, <1>9, CallsLeft, RestTyped DEF ActRefused, database, past, PageTypeOK
<1>10. CASE ActLost(x)
  BY <1>2, <1>10, CallsLeft, RestTyped DEF ActLost, database, past, PageTypeOK
<1> QED  BY <1>1, <1>4, <1>5, <1>6, <1>7, <1>8, <1>9, <1>10

-----------------------------------------------------------------------------
(* The user chooses and acts *)

\* Where the database and the choice are what they were, so are the rows they make.
LEMMA SameRows ==
  ASSUME UNCHANGED <<page, choice, database>>
  PROVE  /\ RowsOf(choice)' = RowsOf(choice)
         /\ \A rows : Current(rows)' <=> Current(rows)
         /\ Unfiltered' <=> Unfiltered
         /\ UNCHANGED <<server, foundBy, written>>
  BY DEF database, RowsOf, Current, Unfiltered

LEMMA RowsOfAreCurrent ==
  ASSUME PageTypeOK
  PROVE  Current(RowsOf(choice))
<1>1. RowsOf(choice) = [k \in {r \in DOMAIN server : foundBy[r] = choice} |-> server[k]]
  BY RowsOfIsRows
<1>2. PICK rows : rows = RowsOf(choice)
  OBVIOUS
<1>3. /\ DOMAIN rows = {r \in DOMAIN server : foundBy[r] = choice}
      /\ \A k \in DOMAIN rows : rows[k] = server[k]
  BY <1>1, <1>2
<1> QED  BY <1>2, <1>3 DEF Current

LEMMA ChooseStep ==
  ASSUME PageInv, NEW c \in Choice, Choose(c)
  PROVE  PageInv'
<1> USE DEF PageInv
<1>1. PageTypeOK'
  BY ChooseTyped
<1>2. <<c, 1>> \in Rows /\ <<c, 1>>[1] = c
  BY DEF Rows
<1>3. PICK y : y = Load(c) /\ y.kind = "load" /\ y.row[1] = c /\ ~y.done
  BY <1>2, NewCallFields DEF Load, Choose
<1>4. calls' = calls \cup {y} /\ choice' = c
  BY <1>3 DEF Choose
<1>5. y.kind \notin Acts
  BY <1>3 DEF Acts
<1>6. UNCHANGED <<page, server, foundBy, written, leaving, gone, lost, again>>
  BY DEF Choose, database, past
<1>7. Unfiltered' /\ Done'
  BY <1>3, <1>4, <1>5, <1>6 DEF Unfiltered, Done
<1>8. Settling'
  BY <1>3, <1>4, <1>5 DEF Settling, Calm, Brings, Choose
<1>9. OneAction'
  BY <1>3, <1>4, <1>5, <1>6 DEF OneAction
<1> QED  BY <1>1, <1>7, <1>8, <1>9

LEMMA ChooseNothingStep ==
  ASSUME PageInv, ChooseNothing
  PROVE  PageInv'
<1> USE DEF PageInv
<1>1. PageTypeOK'
  BY ChooseNothingTyped
<1>2. UNCHANGED <<page, server, foundBy, written, calls, leaving, gone, lost, again>>
  BY DEF ChooseNothing, database, past
<1>3. Unfiltered' /\ Done' /\ OneAction'
  BY <1>2 DEF Unfiltered, Done, OneAction
<1>4. Settling'
  BY DEF Settling, Calm, ChooseNothing
<1> QED  BY <1>1, <1>3, <1>4

\* A button that is there is of a row the page keeps, or adds one to the choice.
LEMMA ActOnShown ==
  ASSUME PageTypeOK, NEW how \in Acts, NEW row \in Rows, Act(how, row)
  PROVE  /\ how \in {"patch", "drop"} => row \in DOMAIN shown
         /\ how = "insert" => row[1] = choice
<1>1. how \in {"patch", "drop"} => row \in DOMAIN Visible
  BY DEF Act
<1>2. DOMAIN Visible \subseteq DOMAIN shown
  BY NothingIsRows DEF Visible
<1>3. how = "insert" => row = <<choice, 2>>
  BY DEF Act
<1> QED  BY <1>1, <1>2, <1>3

LEMMA ActStep ==
  ASSUME PageInv, NEW how \in Acts, NEW row \in Rows, Act(how, row)
  PROVE  PageInv'
<1> USE DEF PageInv
<1>1. PageTypeOK'
  BY ActTyped
<1>2. PICK y : y = NewCall(how, row) /\ y.kind = how /\ y.row = row /\ ~y.done
  BY NewCallFields DEF Act
<1>3. calls' = calls \cup {y}
  BY <1>2 DEF Act
<1>4. "load" \notin Acts
  BY DEF Acts
<1>5. page.mutes \in BOOLEAN /\ (error' = (error /\ ~page.mutes))
  BY DEF PageTypeOK, PageType, Act
<1>6. UNCHANGED <<page, choice, database, shown, leaving, gone, lost>> /\ UNCHANGED written
  BY DEF Act, database
<1>7. Unfiltered' /\ Done'
  <2>1. Unfiltered'
    BY <1>6, SameRows DEF Act
  <2>2. again' = (again \/ leaving)
    BY DEF Act
  <2> QED  BY <1>2, <1>3, <1>6, <2>1, <2>2 DEF Done
<1>8. Settling'
  <2> SUFFICES ASSUME Calm'  PROVE Settling'
    BY DEF Settling
  <2>1. calls = {} /\ Calm /\ choice # NoChoice /\ ~(error /\ page.mutes)
    BY DEF Act, Calm
  <2>2. ~error' => ~error
    BY <1>5, <2>1
  <2>3. ~error' => Current(shown)'
    BY <1>6, <2>1, <2>2, SameRows DEF Settling, Current
  <2>4. Brings(y)'
    BY <1>2, <1>4, <1>6, <2>3, ActOnShown DEF Brings
  <2> QED  BY <1>3, <2>1, <2>4 DEF Settling
<1>9. OneAction'
  <2> SUFFICES ASSUME Form(page), ~lost, ~again, ~leaving  PROVE OneAction'
    BY DEF OneAction, Act
  <2>1. how \in page.acts /\ page.acts \subseteq page.locks /\ ~gone
    BY PagesAreWellMade DEF Act, PageTypeOK, WellMade
  <2>2. \A x \in calls : x.kind \notin page.acts
    BY <2>1 DEF Act, Busy
  <2>3. \A x \in calls : x.kind = "load"
    BY <2>2 DEF OneAction
  <2>4. written = 0
    BY <2>1, <2>3 DEF OneAction
  <2> QED  BY <1>2, <1>3, <1>4, <1>6, <2>1, <2>3, <2>4 DEF OneAction
<1> QED  BY <1>1, <1>7, <1>8, <1>9

-----------------------------------------------------------------------------
(* The server *)

LEMMA ServerLoadsStep ==
  ASSUME PageInv, NEW x \in calls, ServerLoads(x)
  PROVE  PageInv'
<1> USE DEF PageInv
<1>1. PageTypeOK'
  BY ServerLoadsTyped
<1>2. x \in CallType
  BY DEF PageTypeOK
<1>3. PICK y : /\ y = [x EXCEPT !.done = TRUE, !.answer = RowsOf(x.row[1])]
               /\ y.kind = x.kind
               /\ y.row = x.row /\ y.done /\ y.answer = RowsOf(x.row[1])
  BY <1>2, Answered, RowsOfIsRows
<1>4. calls' = (calls \ {x}) \cup {y} /\ x.kind = "load" /\ "load" \notin Acts
  BY <1>3 DEF ServerLoads, Acts
<1>5. /\ UNCHANGED <<page, choice, database, shown, error, leaving, gone, blurred, lost, again>>
      /\ UNCHANGED written
  BY DEF ServerLoads, database, past
<1>6. Unfiltered' /\ Done'
  BY <1>3, <1>4, <1>5, SameRows DEF Done
<1>7. Settling'
  <2> SUFFICES ASSUME Calm'  PROVE Settling'
    BY DEF Settling
  <2>1. Calm /\ calls' = {y} /\ Brings(x)
    BY <1>4, <1>5 DEF Calm, Settling
  <2>2. Brings(y)'
    BY <1>3, <1>4, <1>5, <2>1, SameRows DEF Brings
  <2> QED  BY <2>1, <2>2 DEF Settling
<1>8. OneAction'
  <2> SUFFICES ASSUME Form(page), ~lost, ~again  PROVE OneAction'
    BY <1>5 DEF OneAction
  <2>1. calls' = (calls \ {x}) \cup {y} /\ y.kind = "load"
    BY <1>3, <1>4
  <2> QED  BY <2>1, <1>4, <1>5 DEF OneAction
<1> QED  BY <1>1, <1>6, <1>7, <1>8

\* What the page keeps after the answer is current once the action is done.
LEMMA ServedIsPatched ==
  ASSUME PageTypeOK, Unfiltered, NEW x \in calls, ServerActs(x),
         NEW y, y.kind = x.kind, y.row = x.row, y.answer = AfterAct(x),
         Current(shown), x.kind \in {"patch", "drop", "insert"},
         x.kind # "insert" => x.row \in DOMAIN shown,
         x.kind = "insert" => x.row[1] = choice
  PROVE  Current(Patched(y))'
<1> DEFINE new == y.answer
<1> HIDE DEF new
<1>1. y.kind = x.kind /\ y.row = x.row /\ new = AfterAct(x)
  BY DEF new
<1>2. /\ x.kind = "drop" => DOMAIN new = {}
      /\ x.kind # "drop" => DOMAIN new = {x.row} /\ new[x.row] = written'
      /\ DOMAIN server' = (DOMAIN server \ {x.row}) \cup DOMAIN new
      /\ \A k \in DOMAIN server' : server'[k] = IF k = x.row THEN written' ELSE server[k]
      /\ written' > 0
  <2>1. /\ x.kind = "drop" => DOMAIN AfterAct(x) = {}
        /\ x.kind # "drop" => DOMAIN AfterAct(x) = {x.row} /\ AfterAct(x)[x.row] = written'
        /\ DOMAIN server' = (DOMAIN server \ {x.row}) \cup DOMAIN AfterAct(x)
        /\ \A k \in DOMAIN server' : server'[k] = IF k = x.row THEN written' ELSE server[k]
        /\ written' \in 1 .. MaxWrites
    BY ServedRows
  <2> QED  BY <1>1, <2>1, BoundAssumption
<1>3. x.row \in Rows /\ UNCHANGED <<page, choice, shown>>
  BY CallFields DEF ServerActs, PageTypeOK
<1>4. PICK c \in Choice : /\ foundBy' = [foundBy EXCEPT ![x.row] = c]
                          /\ ~page.filters => c = x.row[1]
  BY CallFields DEF ServerActs, PageTypeOK, Rows
<1>5. foundBy'[x.row] = c /\ \A k \in Rows \ {x.row} : foundBy'[k] = foundBy[k]
  BY <1>3, <1>4 DEF PageTypeOK
<1>6. DOMAIN server \subseteq Rows /\ DOMAIN shown \subseteq Rows
  BY RowsParts DEF PageTypeOK
<1> DEFINE kept  == DOMAIN shown \ {x.row}
           fresh == IF x.kind = "insert" THEN DOMAIN new ELSE DOMAIN new \cap DOMAIN shown
           rows  == [k \in kept \cup fresh |-> IF k \in fresh THEN new[k] ELSE shown[k]]
<1>7. (Patched(y))' = rows
  BY <1>1, <1>3 DEF Patched, new
<1>8. fresh = DOMAIN new
  BY <1>2
<1>9. ASSUME NEW k \in DOMAIN server', foundBy'[k] = choice
      PROVE  k \in DOMAIN rows
  <2>1. CASE k = x.row
    BY <1>2, <1>8, <2>1
  <2>2. CASE k # x.row
    BY <1>2, <1>5, <1>6, <1>9, <2>2 DEF Current
  <2> QED  BY <2>1, <2>2
<1>10. ASSUME NEW k \in DOMAIN rows
       PROVE  /\ k \in DOMAIN server' /\ rows[k] = server'[k]
              /\ foundBy'[k] = choice \/ (page.filters /\ rows[k] > 0)
  <2>1. CASE k = x.row
    <3>1. k \in DOMAIN new /\ k \in DOMAIN server' /\ rows[k] = new[k]
      BY <1>2, <1>8, <2>1
    <3>2. rows[k] = written' /\ server'[k] = written'
      BY <1>2, <2>1, <3>1
    <3>3. ~page.filters => c = choice
      BY <1>3, <1>4 DEF Current, Unfiltered
    <3> QED  BY <1>2, <1>5, <2>1, <3>1, <3>2, <3>3
  <2>2. CASE k # x.row
    <3>1. k \in DOMAIN shown /\ rows[k] = shown[k]
      BY <1>2, <1>8, <2>2
    <3> QED  BY <1>2, <1>5, <1>6, <2>2, <3>1 DEF Current
  <2> QED  BY <2>1, <2>2
<1> HIDE DEF rows
<1>11. /\ \A k \in DOMAIN server' : foundBy'[k] = choice' => k \in DOMAIN rows
       /\ \A k \in DOMAIN rows :
             /\ k \in DOMAIN server' /\ rows[k] = server'[k]
             /\ foundBy'[k] = choice' \/ (page'.filters /\ rows[k] > 0)
  BY <1>3, <1>9, <1>10
<1> QED  BY <1>7, <1>11 DEF Current

LEMMA ServerActsStep ==
  ASSUME PageInv, NEW x \in calls, ServerActs(x)
  PROVE  PageInv'
<1> USE DEF PageInv
<1>1. PageTypeOK'
  BY ServerActsTyped
<1>2. PICK y : /\ y = [x EXCEPT !.done = TRUE, !.answer = AfterAct(x)]
               /\ y.kind = x.kind /\ y.row = x.row /\ y.done /\ y.answer = AfterAct(x)
  <2>1. x \in CallType /\ AfterAct(x) \in RowSets
    BY ServedRows
  <2> QED  BY <2>1, Answered
<1>3. /\ calls' = (calls \ {x}) \cup {y}
      /\ x.kind \in Acts /\ ~x.done /\ written' = written + 1 /\ written \in Nat
      /\ "load" \notin Acts
  BY <1>2 DEF ServerActs, Acts, PageTypeOK
<1>4. UNCHANGED <<page, choice, shown, loading, error, leaving, gone, blurred, lost, again>>
  BY DEF ServerActs, past
<1>5. Unfiltered'
  <2>1. x.row \in Rows
    BY CallFields DEF PageTypeOK
  <2>2. ~page.filters => foundBy' = [foundBy EXCEPT ![x.row] = x.row[1]]
    BY DEF ServerActs
  <2> QED  BY <1>4, <2>1, <2>2 DEF Unfiltered
<1>6. Done'
  BY <1>3, <1>4 DEF Done
<1>7. Settling'
  <2> SUFFICES ASSUME Calm'  PROVE Settling'
    BY DEF Settling
  <2>1. Calm /\ calls' = {y} /\ Brings(x)
    BY <1>3, <1>4 DEF Calm, Settling
  <2>2. /\ ~error => Current(shown)
        /\ ~error /\ x.kind \in {"patch", "drop"} => x.row \in DOMAIN shown
        /\ ~error /\ x.kind = "insert" => x.row[1] = choice
    BY <1>3, <2>1 DEF Brings
  <2>3. ~error /\ x.kind \in {"patch", "drop", "insert"} => Current(Patched(y))'
    BY <1>2, <2>2, ServedIsPatched
  <2>4. Brings(y)'
    BY <1>2, <1>3, <1>4, <2>3 DEF Brings
  <2> QED  BY <2>1, <2>4 DEF Settling
<1>8. OneAction'
  <2> SUFFICES ASSUME Form(page), ~lost, ~again  PROVE OneAction'
    BY <1>4 DEF OneAction
  <2>1. written = 0 /\ ~gone /\ ~leaving /\ \A z \in calls : z.kind \in Acts => z = x
    BY <1>3 DEF OneAction
  <2>2. \A z \in calls' : z.kind \in Acts => z = y
    BY <1>3, <2>1
  <2>3. \A z \in calls' : z.kind \in page.acts \cup {"load"}
    BY <1>2, <1>3 DEF OneAction
  <2>4. written' = 1 /\ y.kind \in Acts /\ y \in calls'
    BY <1>2, <1>3, <2>1
  <2>5. ~gone' /\ ~leaving' /\ page' = page
    BY <1>4, <2>1
  <2>6. \A z \in calls' : z.kind \in Acts => z.done
    BY <1>2, <2>2
  <2>7. ~(\A z \in calls' : z.kind = "load")
    BY <1>3, <2>4
  <2> QED  BY <2>2, <2>3, <2>4, <2>5, <2>6, <2>7 DEF OneAction
<1> QED  BY <1>1, <1>5, <1>6, <1>7, <1>8

-----------------------------------------------------------------------------
(* The answers *)

LEMMA LoadArrivesStep ==
  ASSUME PageInv, PageTypeOK', NEW x \in calls, LoadArrives(x)
  PROVE  PageInv'
<1> USE DEF PageInv
<1>1. /\ calls' = calls \ {x} /\ x.kind = "load" /\ x.done /\ shown' = x.answer
      /\ UNCHANGED <<page, choice, database, leaving, gone, blurred, lost, again>>
      /\ UNCHANGED written
  BY DEF LoadArrives, database, past
<1>2. Unfiltered' /\ Done'
  BY <1>1, SameRows DEF Done
<1>3. Settling'
  <2> SUFFICES ASSUME Calm'  PROVE Settling'
    BY DEF Settling
  <2>1. Calm /\ calls' = {} /\ Brings(x)
    BY <1>1 DEF Calm, Settling
  <2>2. shown' = RowsOf(choice)
    BY <1>1, <2>1 DEF Brings
  <2>3. Current(shown')
    BY <2>2, RowsOfAreCurrent
  <2>4. Current(shown)'
    BY <1>1, <2>3 DEF Current, database
  <2> QED  BY <2>1, <2>4 DEF Settling
<1>4. OneAction'
  <2> SUFFICES ASSUME Form(page), ~lost, ~again  PROVE OneAction'
    BY <1>1 DEF OneAction
  <2>1. (\A z \in calls' : z.kind = "load") => \A z \in calls : z.kind = "load"
    BY <1>1
  <2> QED  BY <1>1, <2>1 DEF OneAction
<1> QED  BY <1>2, <1>3, <1>4

LEMMA LoadFailsStep ==
  ASSUME PageInv, PageTypeOK', NEW x \in calls, LoadFails(x)
  PROVE  PageInv'
<1> USE DEF PageInv
<1>1. /\ calls' = calls \ {x} /\ x.kind = "load"
      /\ UNCHANGED <<page, choice, database, leaving, gone, lost, again>>
      /\ UNCHANGED written
  BY DEF LoadFails, database, past
<1>2. Unfiltered' /\ Done'
  BY <1>1, SameRows DEF Done
<1>3. Settling'
  <2> SUFFICES ASSUME Calm'  PROVE Settling'
    BY DEF Settling
  <2>1. Calm /\ page.fails = "says"
    BY DEF Calm, LoadFails
  <2>2. calls' = {} /\ error'
    BY <1>1, <2>1 DEF Settling, LoadFails
  <2> QED  BY <2>2 DEF Settling
<1>4. OneAction'
  <2> SUFFICES ASSUME Form(page), ~lost, ~again  PROVE OneAction'
    BY <1>1 DEF OneAction
  <2>1. (\A z \in calls' : z.kind = "load") => \A z \in calls : z.kind = "load"
    BY <1>1
  <2> QED  BY <1>1, <2>1 DEF OneAction
<1> QED  BY <1>2, <1>3, <1>4

\* The only call of a form that is no load leaves it.
LEMMA FormsLeave ==
  ASSUME PageInv, Form(page), ~lost, ~again, NEW x \in calls
  PROVE  x.kind \in {"load", "leave", "save"}
  BY DEF PageInv, OneAction, Form

LEMMA PatchArrivesStep ==
  ASSUME PageInv, PageTypeOK', NEW x \in calls, PatchArrives(x)
  PROVE  PageInv'
<1> USE DEF PageInv
<1>1. /\ calls' = calls \ {x} /\ x.kind \in {"patch", "drop", "insert"} /\ x.done
      /\ shown' = Patched(x)
      /\ UNCHANGED <<page, choice, database, error, leaving, gone, blurred, lost, again>>
      /\ UNCHANGED written
  BY DEF PatchArrives, Patched, database, past
<1>2. Unfiltered' /\ Done'
  BY <1>1, SameRows DEF Done
<1>3. Settling'
  <2> SUFFICES ASSUME Calm'  PROVE Settling'
    BY DEF Settling
  <2>1. Calm /\ calls' = {} /\ Brings(x)
    BY <1>1 DEF Calm, Settling
  <2>2. ~error => Current(shown')
    BY <1>1, <2>1 DEF Brings, Acts
  <2>3. ~error' => Current(shown)'
    BY <1>1, <2>2 DEF Current, database
  <2> QED  BY <2>1, <2>3 DEF Settling
<1>4. OneAction'
  BY <1>1, FormsLeave DEF OneAction
<1> QED  BY <1>2, <1>3, <1>4

LEMMA ReloadArrivesStep ==
  ASSUME PageInv, PageTypeOK', NEW x \in calls, ReloadArrives(x)
  PROVE  PageInv'
<1> USE DEF PageInv
<1>1. PICK y : /\ y = [x EXCEPT !.kind = "load", !.done = FALSE, !.answer = Nothing,
                                !.row = <<x.row[1], 1>>]
               /\ y.kind = "load" /\ y.row[1] = x.row[1] /\ ~y.done
  BY ReloadFields
<1>2. /\ calls' = (calls \ {x}) \cup {y} /\ x.kind = "reload" /\ "load" \notin Acts
      /\ UNCHANGED <<page, choice, database, leaving, gone, lost, again>>
      /\ UNCHANGED written
      /\ blurred' = (calls # {x} \/ x.row[1] # choice)
  BY <1>1 DEF ReloadArrives, Acts, database, past
<1>3. Unfiltered' /\ Done'
  BY <1>1, <1>2, SameRows DEF Done
<1>4. Settling'
  <2> SUFFICES ASSUME Calm'  PROVE Settling'
    BY DEF Settling
  <2>1. calls' = {y} /\ x.row[1] = choice
    BY <1>2 DEF Calm
  <2>2. Brings(y)'
    BY <1>1, <1>2, <2>1 DEF Brings
  <2> QED  BY <2>1, <2>2 DEF Settling
<1>5. OneAction'
  BY <1>2, FormsLeave DEF OneAction
<1> QED  BY <1>3, <1>4, <1>5

LEMMA LeaveArrivesStep ==
  ASSUME PageInv, PageTypeOK', NEW x \in calls, LeaveArrives(x)
  PROVE  PageInv'
<1> USE DEF PageInv
<1>1. /\ calls' = calls \ {x} /\ x.kind \in Acts /\ x.done
      /\ leaving' = page.pushes /\ gone' = (gone \/ ~page.pushes)
      /\ UNCHANGED <<page, choice, database, lost, again>>
      /\ UNCHANGED written
  BY DEF LeaveArrives, Acts, database, past
<1>2. page.pushes \in BOOLEAN /\ gone \in BOOLEAN
  BY DEF PageTypeOK, PageType
<1>3. leaving' \/ gone'
  BY <1>1, <1>2
<1>4. Unfiltered' /\ Settling'
  BY <1>1, <1>3, SameRows DEF Settling, Calm
<1>5. Done'
  <2>1. written >= 1
    BY <1>1 DEF Done
  <2> QED  BY <1>1, <1>2, <2>1 DEF Done
<1>6. OneAction'
  <2> SUFFICES ASSUME Form(page), ~lost, ~again  PROVE OneAction'
    BY <1>1 DEF OneAction
  <2>1. written = 1 /\ \A z \in calls' : z.kind \notin Acts
    BY <1>1 DEF OneAction
  <2> QED  BY <1>1, <1>3, <2>1 DEF OneAction
<1> QED  BY <1>4, <1>5, <1>6

LEMMA NavigatedStep ==
  ASSUME PageInv, Navigated
  PROVE  PageInv'
<1> USE DEF PageInv
<1>1. /\ leaving /\ leaving' = FALSE /\ gone'
      /\ UNCHANGED <<page, choice, database, calls, shown, loading, error, blurred, lost, again>>
      /\ UNCHANGED <<server, foundBy, written>>
  BY DEF Navigated, database, past
<1>2. PageTypeOK'
  BY <1>1 DEF PageTypeOK
<1>3. Unfiltered' /\ Settling' /\ Done'
  BY <1>1, SameRows DEF Settling, Calm, Done
<1>4. OneAction'
  <2> SUFFICES ASSUME Form(page), ~lost, ~again  PROVE OneAction'
    BY <1>1 DEF OneAction
  <2>1. \A z \in calls : z.kind \notin Acts
    BY <1>1 DEF OneAction
  <2> QED  BY <1>1, <2>1 DEF OneAction
<1> QED  BY <1>2, <1>3, <1>4

LEMMA ActRefusedStep ==
  ASSUME PageInv, PageTypeOK', NEW x \in calls, ActRefused(x)
  PROVE  PageInv'
<1> USE DEF PageInv
<1>1. /\ calls' = calls \ {x} /\ x.kind \in Acts /\ ~x.done /\ gone' = (gone \/ page.trusts)
      /\ UNCHANGED <<page, choice, database, shown, leaving, blurred, lost, again>>
      /\ UNCHANGED written
      /\ error' \in {error, TRUE}
  BY DEF ActRefused, database, past
<1>2. page.trusts \in BOOLEAN /\ gone \in BOOLEAN /\ error \in BOOLEAN
  BY DEF PageTypeOK, PageType
<1>3. Unfiltered' /\ Done'
  BY <1>1, <1>2, SameRows DEF Done
<1>4. Settling'
  <2> SUFFICES ASSUME Calm'  PROVE Settling'
    BY DEF Settling
  <2>1. Calm /\ calls' = {} /\ Brings(x)
    BY <1>1, <1>2 DEF Calm, Settling
  <2>2. ~error' => ~error
    BY <1>1, <1>2
  <2>3. ~error' => Current(shown)'
    BY <1>1, <2>1, <2>2 DEF Brings, Current, database
  <2> QED  BY <2>1, <2>3 DEF Settling
<1>5. OneAction'
  <2> SUFFICES ASSUME Form(page), ~lost, ~again  PROVE OneAction'
    BY <1>1 DEF OneAction
  <2>1. written = 0 /\ \A z \in calls' : z.kind \notin Acts
    BY <1>1 DEF OneAction
  <2>2. \A z \in calls' : z.kind \in page.acts \cup {"load"}
    BY <1>1 DEF OneAction
  <2> QED  BY <1>1, <2>1, <2>2 DEF OneAction
<1> QED  BY <1>3, <1>4, <1>5

LEMMA ActLostStep ==
  ASSUME PageInv, PageTypeOK', NEW x \in calls, ActLost(x)
  PROVE  PageInv'
<1> USE DEF PageInv
<1>1. /\ calls' = calls \ {x} /\ x.kind \in Acts
      /\ blurred' = (blurred \/ x.done)
      /\ lost' = (lost \/ (x.done /\ x.kind \in {"leave", "save"}))
      /\ UNCHANGED <<page, choice, database, shown, leaving, gone, again>>
      /\ UNCHANGED written
      /\ error' \in {error, TRUE}
  BY DEF ActLost, database
<1>2. error \in BOOLEAN
  BY DEF PageTypeOK
<1>3. Unfiltered' /\ Done'
  BY <1>1, SameRows DEF Done
<1>4. Settling'
  <2> SUFFICES ASSUME Calm'  PROVE Settling'
    BY DEF Settling
  <2>1. Calm /\ ~x.done
    BY <1>1 DEF Calm
  <2>2. calls' = {} /\ Brings(x)
    BY <1>1, <2>1 DEF Settling
  <2>3. ~error' => ~error
    BY <1>1, <1>2
  <2>4. ~error' => Current(shown)'
    BY <1>1, <2>1, <2>2, <2>3 DEF Brings, Current, database
  <2> QED  BY <2>2, <2>4 DEF Settling
<1>5. OneAction'
  <2> SUFFICES ASSUME Form(page), ~lost', ~again  PROVE OneAction'
    BY <1>1 DEF OneAction
  <2>1. ~lost /\ ~x.done
    BY <1>1, FormsLeave DEF Acts
  <2>2. written = 0 /\ ~gone /\ ~leaving /\ \A z \in calls' : z.kind \notin Acts
    BY <1>1, <2>1 DEF OneAction
  <2>3. \A z \in calls' : z.kind \in page.acts \cup {"load"}
    BY <1>1, <2>1 DEF OneAction
  <2> QED  BY <1>1, <2>2, <2>3 DEF OneAction
<1> QED  BY <1>3, <1>4, <1>5

-----------------------------------------------------------------------------
LEMMA PageInvInit == PageInit => PageInv
<1> SUFFICES ASSUME PageInit  PROVE PageInv
  OBVIOUS
<1> DEFINE first == [id |-> 1, kind |-> "load", row |-> <<choice, 1>>,
                     done |-> FALSE, answer |-> Nothing]
<1>1. page \in AllPages /\ page \in PageType
  BY PagesAreWellMade DEF PageInit, WellMade
<1>2. choice \in Choice \cup {NoChoice}
  BY DEF PageInit
<1>3. server \in RowSets
  <2>1. server \in [Choice \X {1} -> 0 .. MaxWrites] /\ Choice \X {1} \in SUBSET Rows
    BY BoundAssumption DEF PageInit, Rows
  <2> QED  BY <2>1, RowsMade
<1>4. foundBy = [k \in Rows |-> k[1]] /\ foundBy \in [Rows -> Choice]
  BY DEF PageInit, Rows
<1>5. \A x \in calls : x = first /\ choice # NoChoice /\ page.loads
  BY DEF PageInit
<1>6. choice # NoChoice => first \in CallType
  <2>1. choice # NoChoice => <<choice, 1>> \in Rows
    BY <1>2 DEF Rows
  <2> QED  BY <2>1, NothingIsRows, BoundAssumption DEF CallType
<1>7. first.kind = "load" /\ ~first.done /\ first.row[1] = choice /\ "load" \notin Acts
  BY DEF Acts
<1> HIDE DEF first
<1>8. PageTypeOK
  <2>1. loading \in BOOLEAN
    BY DEF PageInit
  <2>2. \A x, y \in calls : x \in CallType /\ x = y
    BY <1>5, <1>6
  <2>3. written \in 0 .. MaxWrites /\ shown \in RowSets
    BY NothingIsRows, BoundAssumption DEF PageInit
  <2> QED  BY <1>1, <1>2, <1>3, <1>4, <2>1, <2>2, <2>3 DEF PageInit, PageTypeOK
<1>9. Unfiltered /\ Done
  BY <1>4, <1>5, <1>7 DEF PageInit, Unfiltered, Done
<1>10. Settling
  <2>1. page.loads /\ choice # NoChoice => calls # {}
    BY DEF PageInit
  <2> QED  BY <1>5, <1>7, <2>1 DEF Settling, Calm, Brings
<1>11. OneAction
  BY <1>5, <1>7 DEF PageInit, OneAction
<1> QED  BY <1>8, <1>9, <1>10, <1>11 DEF PageInv

LEMMA PageInvStep == PageInv /\ [PageNext]_pageVars => PageInv'
<1> SUFFICES ASSUME PageInv, [PageNext]_pageVars  PROVE PageInv'
  OBVIOUS
<1>1. ASSUME NEW c \in Choice, Choose(c)  PROVE PageInv'
  BY <1>1, ChooseStep
<1>2. CASE ChooseNothing
  BY <1>2, ChooseNothingStep
<1>3. ASSUME NEW how \in Acts, NEW row \in Rows, Act(how, row)  PROVE PageInv'
  BY <1>3, ActStep
<1>4. CASE Serve
  BY <1>4, ServerLoadsStep, ServerActsStep DEF Serve
<1>5. ASSUME NEW n \in 1 .. MaxCalls, AnswerTo(n)  PROVE PageInv'
  <2>1. PageTypeOK'
    BY <1>5, AnswerTyped DEF PageInv
  <2> QED
    BY <1>5, <2>1, LoadArrivesStep, LoadFailsStep, PatchArrivesStep, ReloadArrivesStep,
       LeaveArrivesStep, ActRefusedStep, ActLostStep
    DEF AnswerTo
<1>6. CASE Navigated
  BY <1>6, NavigatedStep
<1>7. CASE UNCHANGED pageVars
  <2>1. UNCHANGED <<page, choice, server, foundBy, written, shown, calls, loading, error,
                    leaving, gone, blurred, lost, again>>
    BY <1>7 DEF pageVars, database, past
  <2>2. PageTypeOK'
    BY <2>1 DEF PageInv, PageTypeOK
  <2>3. Unfiltered' /\ Done' /\ OneAction'
    BY <2>1 DEF PageInv, Unfiltered, Done, OneAction
  <2>4. Settling'
    <3> SUFFICES ASSUME Calm'  PROVE Settling'
      BY DEF Settling
    <3>1. Calm
      BY <2>1 DEF Calm
    <3>2. \A x \in calls : Brings(x)' <=> Brings(x)
      BY <2>1 DEF Brings, Patched, RowsOf, Current
    <3>3. Current(shown)' <=> Current(shown)
      BY <2>1 DEF Current
    <3> QED  BY <2>1, <3>1, <3>2, <3>3 DEF PageInv, Settling
  <2> QED  BY <2>2, <2>3, <2>4 DEF PageInv
<1> QED  BY <1>1, <1>2, <1>3, <1>4, <1>5, <1>6, <1>7 DEF PageNext

LEMMA PageHolds == PageSpec => []PageInv
  BY PageInvInit, PageInvStep, PTL DEF PageSpec

-----------------------------------------------------------------------------
\* The page, its rows and its calls have their types.
THEOREM PageTypes == PageSpec => []PageTypeOK
<1>1. PageInv => PageTypeOK
  BY DEF PageInv
<1> QED  BY <1>1, PageHolds, PTL

\* Whatever the user chose and did, and in whatever order the answers came or failed to
\* come: a page with no call out and no error keeps the rows the database has of the
\* choice, if its calls did not overlap; beyond them only the pages that filter by what
\* their actions change keep any.  For any choices, calls out and changes, on each of the
\* pages.
THEOREM SettledPagesShow == PageSpec => []SettledShowsChoice
<1>1. PageInv => SettledShowsChoice
  <2> SUFFICES ASSUME PageInv, page.loads, calls = {}, choice # NoChoice,
                      ~leaving, ~gone, ~error, ~blurred
               PROVE  SettledShowsChoice
    BY DEF SettledShowsChoice
  <2>1. Current(shown)
    BY DEF PageInv, Settling, Calm
  <2>2. DOMAIN RowsOf(choice) = {k \in DOMAIN server : foundBy[k] = choice}
    BY RowsOfIsRows DEF PageInv
  <2> QED  BY <2>1, <2>2 DEF Current, SettledShowsChoice
<1> QED  BY <1>1, PageHolds, PTL

\* A form whose actions all end it writes once, through all refusals and failures, unless
\* an answer to a finished action gets lost or its button is pressed again before the
\* router has left; and it ends only when it has written.
THEOREM FormsDoneOnce == PageSpec => []FormDoneOnce
<1>1. PageInv => FormDoneOnce
  <2> SUFFICES ASSUME PageInv, Form(page)  PROVE FormDoneOnce
    BY DEF Form, FormDoneOnce
  <2>1. ~lost => written <= 1 \/ (again /\ page.pushes)
    BY DEF PageInv, OneAction, Done
  <2>2. (leaving \/ gone) /\ ~page.trusts => written >= 1
    BY DEF PageInv, Done
  <2> QED  BY <2>1, <2>2 DEF FormDoneOnce
<1> QED  BY <1>1, PageHolds, PTL

=============================================================================
