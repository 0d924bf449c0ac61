------------------------------- MODULE Sessions -------------------------------
(***************************************************************************)
(* One user account and its sessions: refresh tokens that are exchanged at *)
(* every use, password reset tokens, and a browser whose tabs share one    *)
(* cookie jar.  A call that is refused asks its tab for a refresh, joins   *)
(* the one in flight if there is one, is sent once more, and otherwise     *)
(* takes the tab to the login page.  On the server a refresh, a login and  *)
(* a reset each read, await, and write what the read allowed.              *)
(*                                                                         *)
(* The sessions of other devices are rows that no cookie here refers to.   *)
(* A deactivated account is refused login and reset, which then do not     *)
(* happen here; nothing else looks at isActive.  A token that expired is    *)
(* refused as one that was revoked, and is not told from it.               *)
(***************************************************************************)
EXTENDS Naturals

CONSTANTS
    Tabs,          \* tabs of the browser
    Strays,        \* slots for refreshes whose page is gone
    Calls,         \* slots for calls of apiFetch
    Resetters,     \* slots for requests that reset the password
    ResetTokens,   \* password reset tokens
    MaxToken,      \* bound: refresh tokens issued
    MaxEpoch,      \* bound: times that all sessions are ended at once
    MaxLost        \* bound: answers that do not reach the browser

ASSUME SessionBoundsAssumption ==
    MaxToken \in Nat \ {0} /\ MaxEpoch \in Nat /\ MaxLost \in Nat

VARIABLES
    epoch,     \* how often all sessions of the account were ended at once
    row,       \* row[k]: the refresh token k, or NoRow
    reset,     \* reset[j]: the password reset token j
    hold,      \* hold[r]: the token that reset request r read, or "none"
    jar,       \* the browser's cookies
    page,      \* page[t]: what tab t shows
    signIn,    \* signIn[t]: the login that tab t has in flight
    flight,    \* flight[f]: the refresh that tab f, or a page that is gone, has in flight
    call,      \* call[c]: the state of apiFetch call c
    lost       \* answers lost

server == <<epoch, row>>
resetting == <<reset, hold>>
vars == <<server, resetting, jar, page, signIn, flight, call, lost>>

Token == 1 .. MaxToken

Flights == Tabs \cup Strays

-----------------------------------------------------------------------------
(* Types *)

NoRow == [state |-> "none"]

\* revokedAt is set in "rotated" and "ended"; login is the row the session began with,
\* epoch how often all had been ended by then; late, that an ancestor was revoked when exchanged.
Row == [state : {"live", "rotated", "ended"}, login : Token,
        epoch : 0 .. MaxEpoch, late : BOOLEAN]

ResetState == {"none", "sent", "used"}

Settled == [pc |-> "settled"]

Flight ==
    {Settled}
    \cup [pc : {"csrf"}]
    \cup [pc : {"sent", "found"}, token : Token]
    \cup [pc : {"refreshed"}, token : Token]

SignIn ==
    {Settled}
    \cup [pc : {"password_ok"}, epoch : 0 .. MaxEpoch]
    \cup [pc : {"logged_in"}, token : Token]

Resting == [pc |-> "idle"]

Call == {Resting} \cup [pc : {"sent", "waiting", "again"}, tab : Tabs]

TypeOK ==
    /\ epoch \in 0 .. MaxEpoch
    /\ row \in [Token -> Row \cup {NoRow}]
    /\ reset \in [ResetTokens -> ResetState]
    /\ hold \in [Resetters -> ResetTokens \cup {"none"}]
    /\ jar \in [access : BOOLEAN, refresh : Token \cup {0}]
    /\ page \in [Tabs -> {"app", "login"}]
    /\ signIn \in [Tabs -> SignIn]
    /\ flight \in [Flights -> Flight]
    /\ call \in [Calls -> Call]
    /\ lost \in 0 .. MaxLost

\* The pages of the app have no gate: a tab may be opened on one before anybody logs in.
Init ==
    /\ epoch = 0
    /\ row = [k \in Token |-> NoRow]
    /\ reset = [j \in ResetTokens |-> "none"]
    /\ hold = [r \in Resetters |-> "none"]
    /\ jar = [access |-> FALSE, refresh |-> 0]
    /\ page \in [Tabs -> {"app", "login"}]
    /\ signIn = [t \in Tabs |-> Settled]
    /\ flight = [f \in Flights |-> Settled]
    /\ call = [c \in Calls |-> Resting]
    /\ lost = 0

-----------------------------------------------------------------------------
(* Helpers *)

Sign(t, stage) == signIn' = [signIn EXCEPT ![t] = stage]

Fly(f, stage) == flight' = [flight EXCEPT ![f] = stage]

Unused(k) == row[k] = NoRow /\ \A i \in 1 .. k - 1 : row[i] # NoRow

IsLive(k) == row[k].state = "live"

\* updateMany where revokedAt is null.
EndAll == [k \in Token |-> IF IsLive(k) THEN [row[k] EXCEPT !.state = "ended"] ELSE row[k]]

WaitingIn(t) == {c \in Calls : call[c].pc = "waiting" /\ call[c].tab = t}

CallsOf(t) == {c \in Calls : call[c] # Resting /\ call[c].tab = t}

\* Mutant: the promise's settling reaches only one of the calls that await it.
WakeOne(t) ==
    [c \in Calls |-> IF c \in WaitingIn(t) /\ c = CHOOSE d \in WaitingIn(t) : TRUE
                     THEN [pc |-> "again", tab |-> t] ELSE call[c]]

\* The calls that await the tab's refresh go on at once, with the new cookies.
WakeAll(t) ==
    [c \in Calls |-> IF c \in WaitingIn(t) THEN [pc |-> "again", tab |-> t]
                     ELSE call[c]]

\* window.location: the page is gone, with the calls and the login its scripts had in
\* flight.
GoToLogin(t) ==
    /\ page' = [page EXCEPT ![t] = "login"]
    /\ signIn' = [signIn EXCEPT ![t] = Settled]
    /\ call' = [c \in Calls |-> IF c \in CallsOf(t) THEN Resting ELSE call[c]]

\* refreshPromise is gone with the page, too.  A refresh already sent still reaches the
\* server, and its answer may still set the cookies.
LeaveFlight(t) ==
    IF flight[t].pc \in {"settled", "csrf"} THEN Fly(t, Settled)
    ELSE \E s \in Strays : /\ flight[s] = Settled
                           /\ flight' = [flight EXCEPT ![s] = flight[t], ![t] = Settled]

-----------------------------------------------------------------------------
(* Login *)

\* AuthService.login reads the account and compares the password, which takes a while.
CheckPassword(t) ==
    /\ page[t] = "login"
    /\ signIn[t] = Settled
    /\ Sign(t, [pc |-> "password_ok", epoch |-> epoch])
    /\ UNCHANGED <<server, resetting, jar, page, flight, call, lost>>

IssueTokens(t) ==
    /\ signIn[t].pc = "password_ok"
    /\ \E k \in Token :
        /\ Unused(k)
        /\ row' = [row EXCEPT ![k] = [state |-> "live", login |-> k,
                                      epoch |-> signIn[t].epoch,
                                      late  |-> signIn[t].epoch # epoch]]
        /\ Sign(t, [pc |-> "logged_in", token |-> k])
    /\ UNCHANGED <<epoch, resetting, jar, page, flight, call, lost>>

EnterApp(t) ==
    /\ signIn[t].pc = "logged_in"
    /\ jar' = [access |-> TRUE, refresh |-> signIn[t].token]
    /\ page' = [page EXCEPT ![t] = "app"]
    /\ Sign(t, Settled)
    /\ UNCHANGED <<server, resetting, flight, call, lost>>

\* The answer to the login, or a step before it, fails: the page shows an error.
FailLogin(t) ==
    /\ signIn[t].pc \in {"password_ok", "logged_in"}
    /\ lost < MaxLost
    /\ lost' = lost + 1
    /\ Sign(t, Settled)
    /\ UNCHANGED <<server, resetting, jar, page, flight, call>>

-----------------------------------------------------------------------------
(* apiFetch *)

Send(c, t) ==
    /\ call[c] = Resting
    /\ page[t] = "app"
    /\ call' = [call EXCEPT ![c] = [pc |-> "sent", tab |-> t]]
    /\ UNCHANGED <<server, resetting, jar, page, signIn, flight, lost>>

\* The server answers, or the fetch throws: either way the call is over.
EndCall(c) ==
    /\ call[c].pc \in {"sent", "again"}
    /\ call' = [call EXCEPT ![c] = Resting]
    /\ UNCHANGED <<server, resetting, jar, page, signIn, flight, lost>>

\* A 401, for want of the cookie or because the token expired on the way: the call
\* awaits doRefresh, which returns the promise in flight if there is one.
AskForRefresh(c) ==
    /\ call[c].pc = "sent"
    /\ LET t == call[c].tab
       IN /\ call' = [call EXCEPT ![c] = [pc |-> "waiting", tab |-> t]]
          /\ flight' = IF flight[t] = Settled THEN [flight EXCEPT ![t] = [pc |-> "csrf"]]
                       ELSE flight
    /\ UNCHANGED <<server, resetting, jar, page, signIn, lost>>

\* A second 401.
GiveUp(c) ==
    /\ call[c].pc = "again"
    /\ GoToLogin(call[c].tab)
    /\ LeaveFlight(call[c].tab)
    /\ UNCHANGED <<server, resetting, jar, lost>>

-----------------------------------------------------------------------------
(* Refresh *)

SendRefresh(f) ==
    /\ flight[f].pc = "csrf"
    /\ jar.refresh # 0
    /\ Fly(f, [pc |-> "sent", token |-> jar.refresh])
    /\ UNCHANGED <<server, resetting, jar, page, signIn, call, lost>>

\* isActive is not looked at.
FindToken(f) ==
    /\ flight[f].pc = "sent"
    /\ IsLive(flight[f].token)
    /\ Fly(f, [pc |-> "found", token |-> flight[f].token])
    /\ UNCHANGED <<server, resetting, jar, page, signIn, call, lost>>

\* Mutant: the token exchanged is not revoked.
RotateKeeping(f) ==
    /\ flight[f].pc = "found"
    /\ \E k \in Token :
        /\ Unused(k)
        /\ row' = [row EXCEPT ![k] = [row[flight[f].token] EXCEPT !.state = "live"]]
        /\ Fly(f, [pc |-> "refreshed", token |-> k])
    /\ UNCHANGED <<epoch, resetting, jar, page, signIn, call, lost>>

\* One transaction, on the row's id alone: it may have been revoked since.
Rotate(f) ==
    /\ flight[f].pc = "found"
    /\ LET old == flight[f].token
       IN \E k \in Token :
            /\ Unused(k)
            /\ row' = [row EXCEPT
                         ![old].state = IF IsLive(old) THEN "rotated" ELSE @,
                         ![k] = [row[old] EXCEPT !.state = "live",
                                   !.late = @ \/ ~IsLive(old)]]
            /\ Fly(f, [pc |-> "refreshed", token |-> k])
    /\ UNCHANGED <<epoch, resetting, jar, page, signIn, call, lost>>

\* Mutant: the controller sets the access token's cookie only.
ReceiveAccessOnly(f) ==
    /\ flight[f].pc = "refreshed"
    /\ jar' = [jar EXCEPT !.access = TRUE]
    /\ Fly(f, Settled)
    /\ call' = WakeAll(f)
    /\ UNCHANGED <<server, resetting, page, signIn, lost>>

\* Both cookies are set, whatever happened to the jar since the refresh was sent.
Receive(f) ==
    /\ flight[f].pc = "refreshed"
    /\ jar' = [access |-> TRUE, refresh |-> flight[f].token]
    /\ Fly(f, Settled)
    /\ call' = WakeAll(f)
    /\ UNCHANGED <<server, resetting, page, signIn, lost>>

\* No cookie, a token the server refuses, or a failure before it is exchanged: doRefresh
\* returns false, and the tab goes to the login page if a call awaits it.
FailRefresh(f) ==
    /\ flight[f].pc \in {"csrf", "sent", "found"}
    /\ Fly(f, Settled)
    /\ IF WaitingIn(f) # {} THEN GoToLogin(f) ELSE UNCHANGED <<page, signIn, call>>
    /\ UNCHANGED <<server, resetting, jar, lost>>

\* The token is exchanged and the answer lost.
LoseRefresh(f) ==
    /\ flight[f].pc = "refreshed"
    /\ lost < MaxLost
    /\ lost' = lost + 1
    /\ Fly(f, Settled)
    /\ IF WaitingIn(f) # {} THEN GoToLogin(f) ELSE UNCHANGED <<page, signIn, call>>
    /\ UNCHANGED <<server, resetting, jar>>

-----------------------------------------------------------------------------
(* Ending sessions *)

\* The logout button.  It works only while the access token lives: after that the server
\* refuses, and the page goes to login with the cookies and the session in place.  The
\* router changes the page and calls in flight go on.
Logout(t) ==
    /\ page[t] = "app"
    /\ page' = [page EXCEPT ![t] = "login"]
    /\ IF jar.access
       THEN /\ row' = [k \in Token |-> IF k = jar.refresh /\ IsLive(k)
                                       THEN [row[k] EXCEPT !.state = "ended"] ELSE row[k]]
            /\ jar' = [access |-> FALSE, refresh |-> 0]
       ELSE UNCHANGED <<row, jar>>
    /\ UNCHANGED <<epoch, resetting, signIn, flight, call, lost>>

\* The button that ends the sessions on all devices.
LogoutAll(t) ==
    /\ page[t] = "app"
    /\ jar.access
    /\ epoch < MaxEpoch
    /\ epoch' = epoch + 1
    /\ row' = EndAll
    /\ jar' = [access |-> FALSE, refresh |-> 0]
    /\ page' = [page EXCEPT ![t] = "login"]
    /\ UNCHANGED <<resetting, signIn, flight, call, lost>>

\* One session of the list, by any device of the user; any row of the user will do.
RevokeSession(k) ==
    /\ IsLive(k)
    /\ row' = [row EXCEPT ![k].state = "ended"]
    /\ UNCHANGED <<epoch, resetting, jar, page, signIn, flight, call, lost>>

ExpireAccess ==
    /\ jar.access
    /\ jar' = [jar EXCEPT !.access = FALSE]
    /\ UNCHANGED <<server, resetting, page, signIn, flight, call, lost>>

-----------------------------------------------------------------------------
(* Password reset *)

ForgotPassword(j) ==
    /\ reset[j] = "none"
    /\ reset' = [reset EXCEPT ![j] = "sent"]
    /\ UNCHANGED <<server, hold, jar, page, signIn, flight, call, lost>>

\* The token is neither used nor an hour old.  Then the new password is hashed, which takes a while.
CheckResetToken(r, j) ==
    /\ hold[r] = "none"
    /\ reset[j] = "sent"
    /\ hold' = [hold EXCEPT ![r] = j]
    /\ UNCHANGED <<server, reset, jar, page, signIn, flight, call, lost>>

\* Mutant: the password is changed and the sessions go on.
ResetKeepingSessions(r) ==
    /\ hold[r] # "none"
    /\ epoch < MaxEpoch
    /\ epoch' = epoch + 1
    /\ reset' = [reset EXCEPT ![hold[r]] = "used"]
    /\ hold' = [hold EXCEPT ![r] = "none"]
    /\ UNCHANGED <<row, jar, page, signIn, flight, call, lost>>

\* One transaction: password, usedAt, and all sessions.
ResetPassword(r) ==
    /\ hold[r] # "none"
    /\ epoch < MaxEpoch
    /\ epoch' = epoch + 1
    /\ reset' = [reset EXCEPT ![hold[r]] = "used"]
    /\ row' = EndAll
    /\ hold' = [hold EXCEPT ![r] = "none"]
    /\ UNCHANGED <<jar, page, signIn, flight, call, lost>>

AbandonReset(r) ==
    /\ hold[r] # "none"
    /\ hold' = [hold EXCEPT ![r] = "none"]
    /\ UNCHANGED <<server, reset, jar, page, signIn, flight, call, lost>>

-----------------------------------------------------------------------------
CallStep(c) == EndCall(c) \/ AskForRefresh(c) \/ GiveUp(c)

RefreshStep(f) ==
    SendRefresh(f) \/ FindToken(f) \/ Rotate(f) \/ Receive(f) \/ FailRefresh(f) \/ LoseRefresh(f)

LoginStep(t) == CheckPassword(t) \/ IssueTokens(t) \/ EnterApp(t) \/ FailLogin(t)

Next ==
    \/ \E c \in Calls : CallStep(c) \/ \E t \in Tabs : Send(c, t)
    \/ \E f \in Flights : RefreshStep(f)
    \/ \E t \in Tabs : LoginStep(t) \/ Logout(t) \/ LogoutAll(t)
    \/ \E k \in Token : RevokeSession(k)
    \/ ExpireAccess
    \/ \E j \in ResetTokens : ForgotPassword(j)
    \/ \E r \in Resetters :
        \/ \E j \in ResetTokens : CheckResetToken(r, j)
        \/ ResetPassword(r) \/ AbandonReset(r)

\* Every fetch is answered or fails, and the event loop runs what its answer wakes.
Fairness ==
    /\ \A c \in Calls : WF_vars(CallStep(c))
    /\ \A f \in Flights : WF_vars(RefreshStep(f))

Spec == Init /\ [][Next]_vars

FairSpec == Spec /\ Fairness

-----------------------------------------------------------------------------
(* Properties *)

(***************************************************************************)
(* The browser is never left with a token that was exchanged for another,  *)
(* however its tabs race to refresh and log in and out, unless the answer  *)
(* with the newer one is on its way or was lost.                           *)
(***************************************************************************)
CookieIsCurrent ==
    jar.refresh # 0 /\ row[jar.refresh].state = "rotated" =>
        lost > 0 \/ \E f \in Flights : flight[f].pc = "refreshed"

(***************************************************************************)
(* A login has one live token: two refreshes of one token leave a second   *)
(* only where both had found it before either exchanged it.                *)
(***************************************************************************)
OneTokenPerLogin ==
    \A k, i \in Token :
        IsLive(k) /\ IsLive(i) /\ ~row[k].late /\ ~row[i].late /\ row[k].login = row[i].login
            => k = i

(***************************************************************************)
(* A password reset, or a logout everywhere, ends all sessions begun       *)
(* before it: the only ones that go on are those whose refresh or login    *)
(* had passed its check before, and wrote after it.                        *)
(***************************************************************************)
EarlierSessionsEnd ==
    \A k \in Token : IsLive(k) /\ row[k].epoch < epoch => row[k].late

(***************************************************************************)
(* A call ends, with an answer, an error or the login page: no call waits  *)
(* for ever for a refresh that another call began.                         *)
(***************************************************************************)
EveryCallEnds == \A c \in Calls : call[c] # Resting ~> call[c] = Resting

=============================================================================
