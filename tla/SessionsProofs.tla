---------------------------- MODULE SessionsProofs ----------------------------
(***************************************************************************)
(* Theorems about Sessions for any number of tabs, calls, resets, tokens   *)
(* and lost answers: what the exchange of refresh tokens leaves behind.    *)
(* The argument follows where a token may be: arriving with an answer, on  *)
(* its way to the server, in the cookie jar.                               *)
(***************************************************************************)
EXTENDS Sessions, TLAPS

\* The tokens of the answers to f's refresh and login that are under way, and the one it sent.
Arriving(t) == IF flight[t].pc = "refreshed" THEN {flight[t].token} ELSE {}
Entering(t) == IF t \in Tabs /\ signIn[t].pc = "logged_in" THEN {signIn[t].token} ELSE {}
Sending(t) == IF flight[t].pc \in {"sent", "found"} THEN {flight[t].token} ELSE {}

Known(k) == row[k] # NoRow

\* Whatever refers to a token refers to a row that was written: rows are never deleted.
RowsKnown ==
    /\ jar.refresh # 0 => Known(jar.refresh)
    /\ \A t \in Flights : \A k \in Arriving(t) \cup Entering(t) \cup Sending(t) : Known(k)
    /\ \A k \in Token : Known(k) => Known(row[k].login)

\* A token the browser has not had: not exchanged, not in the jar, sent by no refresh.
Fresh(k) == row[k].state # "rotated" /\ jar.refresh # k /\ \A t \in Flights : k \notin Sending(t)

\* Answers under way bring tokens the browser has not had, each one its own.
AnswersFresh ==
    /\ \A t \in Flights : \A k \in Arriving(t) \cup Entering(t) : Fresh(k)
    /\ \A t, u \in Flights :
        /\ Arriving(t) \cap Entering(u) = {}
        /\ t # u => Arriving(t) \cap Arriving(u) = {} /\ Entering(t) \cap Entering(u) = {}

SessionInv ==
    /\ TypeOK
    /\ RowsKnown
    /\ AnswersFresh
    /\ CookieIsCurrent
    /\ OneTokenPerLogin
    /\ EarlierSessionsEnd

-----------------------------------------------------------------------------
(* Types *)

LEMMA StageFields ==
    ASSUME TypeOK, NEW t \in Flights
    PROVE  /\ flight[t].pc \in {"sent", "found", "refreshed"} => flight[t].token \in Token
           /\ t \in Tabs =>
                /\ signIn[t].pc = "logged_in" => signIn[t].token \in Token
                /\ signIn[t].pc = "password_ok" => signIn[t].epoch \in 0 .. MaxEpoch
           /\ Arriving(t) \subseteq Token /\ Entering(t) \subseteq Token
           /\ Sending(t) \subseteq Token
  <1>1. flight[t].pc \in {"sent", "found", "refreshed"} => flight[t].token \in Token
    BY DEF TypeOK, Flight, Settled
  <1>2. t \in Tabs =>
          /\ signIn[t].pc = "logged_in" => signIn[t].token \in Token
          /\ signIn[t].pc = "password_ok" => signIn[t].epoch \in 0 .. MaxEpoch
    BY DEF TypeOK, SignIn, Settled
  <1>3. QED
    BY <1>1, <1>2 DEF Arriving, Entering, Sending

LEMMA NoRowIsNone == NoRow \notin Row /\ NoRow.state = "none"
  <1>1. \A r \in Row : r.state \in {"live", "rotated", "ended"}
    BY DEF Row
  <1>2. QED
    BY <1>1 DEF NoRow

\* A token has a row if it is in a state, and then all the fields.
LEMMA RowFields ==
    ASSUME TypeOK, NEW k \in Token, Known(k) \/ row[k].state # "none"
    PROVE  /\ row[k] \in Row /\ Known(k)
           /\ row[k].state \in {"live", "rotated", "ended"}
           /\ row[k].login \in Token /\ row[k].epoch \in 0 .. MaxEpoch
           /\ row[k].late \in BOOLEAN
  <1>1. row[k] \in Row /\ Known(k)
    BY NoRowIsNone DEF TypeOK, Known
  <1>2. QED
    BY <1>1 DEF Row

\* A row that is revoked differs in its state alone.
LEMMA Revoked ==
    ASSUME NEW r \in Row, NEW state \in {"live", "rotated", "ended"}
    PROVE  /\ [r EXCEPT !.state = state] \in Row
           /\ [r EXCEPT !.state = state].state = state
           /\ [r EXCEPT !.state = state].login = r.login
           /\ [r EXCEPT !.state = state].epoch = r.epoch
           /\ [r EXCEPT !.state = state].late = r.late
  BY DEF Row

LEMMA LoginPage ==
    ASSUME TypeOK, NEW t \in Tabs, GoToLogin(t)
    PROVE  /\ page' \in [Tabs -> {"app", "login"}]
           /\ signIn' \in [Tabs -> SignIn]
           /\ call' \in [Calls -> Call]
           /\ \A u \in Tabs : signIn'[u] \in {signIn[u], Settled}
  BY DEF TypeOK, GoToLogin, SignIn, Call, Resting

LEMMA WaitingTab ==
    ASSUME TypeOK, NEW f \in Flights, WaitingIn(f) # {}
    PROVE  f \in Tabs
  BY DEF TypeOK, WaitingIn, Call, Resting

LEMMA LeaveTypes ==
    ASSUME TypeOK, NEW t \in Tabs, LeaveFlight(t)
    PROVE  flight' \in [Flights -> Flight]
  <1>1. Settled \in Flight /\ t \in Flights /\ flight[t] \in Flight
    BY DEF TypeOK, Flights, Flight
  <1>2. CASE Fly(t, Settled)
    BY <1>1, <1>2 DEF Fly, TypeOK
  <1>3. CASE \E s \in Strays : flight' = [flight EXCEPT ![s] = flight[t], ![t] = Settled]
    BY <1>1, <1>3 DEF TypeOK
  <1>4. QED
    BY <1>2, <1>3 DEF LeaveFlight

LEMMA StageTypes ==
    /\ Settled \in Flight /\ [pc |-> "csrf"] \in Flight /\ Settled \in SignIn
    /\ \A k \in Token : /\ [pc |-> "sent", token |-> k] \in Flight
                        /\ [pc |-> "found", token |-> k] \in Flight
                        /\ [pc |-> "refreshed", token |-> k] \in Flight
                        /\ [pc |-> "logged_in", token |-> k] \in SignIn
    /\ \A e \in 0 .. MaxEpoch : [pc |-> "password_ok", epoch |-> e] \in SignIn
    /\ \A t \in Tabs, pc \in {"sent", "waiting", "again"} : [pc |-> pc, tab |-> t] \in Call
    /\ Resting \in Call
  BY DEF Flight, SignIn, Call, Resting, Settled

LEMMA LoginTypes ==
    ASSUME TypeOK, NEW t \in Tabs, LoginStep(t)
    PROVE  TypeOK'
  <1> USE DEF TypeOK, server, resetting, Sign
  <1>1. CASE CheckPassword(t)
    BY <1>1, StageTypes DEF CheckPassword
  <1>2. CASE IssueTokens(t)
    <2>1. PICK k \in Token :
             /\ row' = [row EXCEPT ![k] = [state |-> "live", login |-> k,
                                           epoch |-> signIn[t].epoch,
                                           late  |-> signIn[t].epoch # epoch]]
             /\ signIn' = [signIn EXCEPT ![t] = [pc |-> "logged_in", token |-> k]]
      BY <1>2 DEF IssueTokens
    <2>2. signIn[t].epoch \in 0 .. MaxEpoch
      BY <1>2, StageFields DEF IssueTokens, Flights
    <2>3. [state |-> "live", login |-> k, epoch |-> signIn[t].epoch,
           late  |-> signIn[t].epoch # epoch] \in Row
      BY <2>2 DEF Row
    <2>4. row' \in [Token -> Row \cup {NoRow}] /\ signIn' \in [Tabs -> SignIn]
      BY <2>1, <2>3, StageTypes
    <2>5. QED
      BY <1>2, <2>4 DEF IssueTokens
  <1>3. CASE EnterApp(t)
    <2>1. signIn[t].token \in Token
      BY <1>3, StageFields DEF EnterApp, Flights
    <2>2. QED
      BY <1>3, <2>1, StageTypes DEF EnterApp
  <1>4. CASE FailLogin(t)
    BY <1>4, StageTypes, SessionBoundsAssumption DEF FailLogin
  <1>5. QED
    BY <1>1, <1>2, <1>3, <1>4 DEF LoginStep

LEMMA CallTypes ==
    ASSUME TypeOK, NEW c \in Calls,
           CallStep(c) \/ \E t \in Tabs : Send(c, t)
    PROVE  TypeOK'
  <1> USE DEF TypeOK, server, resetting
  <1>1. call[c].pc # "idle" => call[c].tab \in Tabs
    BY DEF Call, Resting
  <1>2. ASSUME NEW t \in Tabs, Send(c, t)  PROVE TypeOK'
    BY <1>2, StageTypes DEF Send
  <1>3. CASE EndCall(c)
    BY <1>3, StageTypes DEF EndCall
  <1>4. CASE AskForRefresh(c)
    <2>1. PICK t \in Tabs : t = call[c].tab
      BY <1>1, <1>4 DEF AskForRefresh
    <2>2. call' = [call EXCEPT ![c] = [pc |-> "waiting", tab |-> t]]
      BY <1>4, <2>1 DEF AskForRefresh
    <2>3. flight' \in {flight, [flight EXCEPT ![t] = [pc |-> "csrf"]]}
      BY <1>4, <2>1 DEF AskForRefresh
    <2>4. call' \in [Calls -> Call] /\ flight' \in [Flights -> Flight]
      BY <2>2, <2>3, StageTypes
    <2>5. QED
      BY <1>4, <2>4 DEF AskForRefresh
  <1>5. CASE GiveUp(c)
    <2>1. call[c].tab \in Tabs /\ GoToLogin(call[c].tab)
      BY <1>1, <1>5 DEF GiveUp
    <2>2. flight' \in [Flights -> Flight]
      BY <1>5, <2>1, LeaveTypes DEF GiveUp
    <2>3. QED
      BY <1>5, <2>1, <2>2, LoginPage DEF GiveUp
  <1>6. QED
    BY <1>2, <1>3, <1>4, <1>5 DEF CallStep

\* What a refresh leaves in the two rows it writes.
LEMMA RotateEffect ==
    ASSUME TypeOK, RowsKnown, NEW t \in Flights, Rotate(t), NEW old, old = flight[t].token
    PROVE  /\ old \in Token /\ row[old] \in Row
           /\ row' \in [Token -> Row \cup {NoRow}]
           /\ \E k \in Token \ {old} :
                /\ Unused(k)
                /\ flight' = [flight EXCEPT ![t] = [pc |-> "refreshed", token |-> k]]
                /\ row'[old] = [row[old] EXCEPT !.state = IF IsLive(old) THEN "rotated" ELSE @]
                /\ row'[k] = [row[old] EXCEPT !.state = "live", !.late = @ \/ ~IsLive(old)]
                /\ \A i \in Token \ {old, k} : row'[i] = row[i]
  <1>1. old \in Token /\ Known(old)
    BY StageFields DEF Rotate, RowsKnown, Sending
  <1>2. row[old] \in Row
    BY <1>1, RowFields
  <1>3. PICK k \in Token :
           /\ Unused(k)
           /\ row' = [row EXCEPT
                         ![old].state = IF IsLive(old) THEN "rotated" ELSE @,
                         ![k] = [row[old] EXCEPT !.state = "live",
                                   !.late = @ \/ ~IsLive(old)]]
           /\ flight' = [flight EXCEPT ![t] = [pc |-> "refreshed", token |-> k]]
    BY DEF Rotate, Fly
  <1>4. k # old
    BY <1>1, <1>3 DEF Unused, Known
  <1>5. /\ row'[old] = [row[old] EXCEPT !.state = IF IsLive(old) THEN "rotated" ELSE @]
        /\ row'[k] = [row[old] EXCEPT !.state = "live", !.late = @ \/ ~IsLive(old)]
        /\ \A i \in Token \ {old, k} : row'[i] = row[i]
        /\ DOMAIN row' = Token
    BY <1>1, <1>3, <1>4 DEF TypeOK
  <1>6. row'[old] \in Row /\ row'[k] \in Row
    BY <1>2, <1>5 DEF Row, IsLive
  <1>7. row' \in [Token -> Row \cup {NoRow}]
    BY <1>3, <1>5, <1>6 DEF TypeOK
  <1>8. QED
    BY <1>1, <1>2, <1>3, <1>4, <1>5, <1>7

LEMMA RefreshTypes ==
    ASSUME TypeOK, RowsKnown, NEW t \in Flights, RefreshStep(t)
    PROVE  TypeOK'
  <1> USE DEF TypeOK, server, resetting, Fly
  <1>1. CASE SendRefresh(t)
    BY <1>1, StageTypes DEF SendRefresh
  <1>2. CASE FindToken(t)
    <2>1. flight[t].token \in Token
      BY <1>2, StageFields DEF FindToken
    <2>2. QED
      BY <1>2, <2>1, StageTypes DEF FindToken
  <1>3. CASE Rotate(t)
    <2>1. PICK k \in Token : flight' = [flight EXCEPT ![t] = [pc |-> "refreshed", token |-> k]]
      BY <1>3 DEF Rotate
    <2>2. flight' \in [Flights -> Flight]
      BY <2>1, StageTypes
    <2>3. row' \in [Token -> Row \cup {NoRow}]
      BY <1>3, RotateEffect
    <2>4. QED
      BY <1>3, <2>2, <2>3 DEF Rotate
  <1>4. CASE Receive(t)
    <2>1. flight[t].token \in Token
      BY <1>4, StageFields DEF Receive
    <2>2. call' \in [Calls -> Call]
      BY <1>4, StageTypes, WaitingTab DEF Receive, WakeAll
    <2>3. QED
      BY <1>4, <2>1, <2>2, StageTypes DEF Receive
  <1>5. CASE FailRefresh(t)
    <2>1. page' \in [Tabs -> {"app", "login"}] /\ signIn' \in [Tabs -> SignIn]
          /\ call' \in [Calls -> Call]
      BY <1>5, LoginPage, WaitingTab DEF FailRefresh
    <2>2. QED
      BY <1>5, <2>1, StageTypes DEF FailRefresh
  <1>6. CASE LoseRefresh(t)
    <2>1. page' \in [Tabs -> {"app", "login"}] /\ signIn' \in [Tabs -> SignIn]
          /\ call' \in [Calls -> Call]
      BY <1>6, LoginPage, WaitingTab DEF LoseRefresh
    <2>2. lost' \in 0 .. MaxLost
      BY <1>6, SessionBoundsAssumption DEF LoseRefresh
    <2>3. QED
      BY <1>6, <2>1, <2>2, StageTypes DEF LoseRefresh
  <1>7. QED
    BY <1>1, <1>2, <1>3, <1>4, <1>5, <1>6 DEF RefreshStep

\* The rows after a step that revokes some of them.
LEMMA EndTypes ==
    ASSUME TypeOK, NEW S \in SUBSET Token, \A k \in S : Known(k)
    PROVE  [k \in Token |-> IF k \in S THEN [row[k] EXCEPT !.state = "ended"] ELSE row[k]]
              \in [Token -> Row \cup {NoRow}]
  <1>1. \A k \in S : [row[k] EXCEPT !.state = "ended"] \in Row
    BY RowFields, Revoked
  <1>2. QED
    BY <1>1 DEF TypeOK

\* The steps that end sessions: some live rows are ended, and all of them if the epoch changes.
LEMMA EndEffect ==
    ASSUME TypeOK,
           \/ \E t \in Tabs : Logout(t) \/ LogoutAll(t)
           \/ \E k \in Token : RevokeSession(k)
           \/ \E r \in Resetters : ResetPassword(r)
    PROVE  /\ row' \in [Token -> Row \cup {NoRow}]
           /\ \A k \in Token : \/ row'[k] = row[k]
                               \/ IsLive(k) /\ row'[k] = [row[k] EXCEPT !.state = "ended"]
           /\ epoch' = epoch \/ \A k \in Token : row'[k].state # "live"
  <1>1. \A k \in Token : IsLive(k) => Known(k)
    BY NoRowIsNone DEF IsLive, Known
  <1>2. ASSUME NEW S \in SUBSET Token, \A k \in S : IsLive(k),
               row' = [k \in Token |-> IF k \in S THEN [row[k] EXCEPT !.state = "ended"]
                                       ELSE row[k]]
        PROVE  /\ row' \in [Token -> Row \cup {NoRow}]
               /\ \A k \in Token : \/ row'[k] = row[k]
                                   \/ IsLive(k) /\ row'[k] = [row[k] EXCEPT !.state = "ended"]
               /\ \A k \in S : row'[k].state # "live"
    <2>1. row' \in [Token -> Row \cup {NoRow}]
      BY <1>1, <1>2, EndTypes
    <2>2. \A k \in S : row'[k].state = "ended"
      BY <1>1, <1>2, RowFields, Revoked
    <2>3. QED
      BY <1>2, <2>1, <2>2
  <1>3. CASE row' = EndAll
    <2> DEFINE S == {k \in Token : IsLive(k)}
    <2>1. row' = [k \in Token |-> IF k \in S THEN [row[k] EXCEPT !.state = "ended"] ELSE row[k]]
      BY <1>3 DEF EndAll
    <2>2. \A k \in Token \ S : row'[k].state # "live"
      BY <2>1 DEF IsLive
    <2>3. QED
      BY <1>2, <2>1, <2>2
  <1>4. ASSUME NEW t \in Tabs, Logout(t)
        PROVE  \/ row' = row
               \/ row' = [k \in Token |-> IF k \in {i \in Token : i = jar.refresh /\ IsLive(i)}
                                         THEN [row[k] EXCEPT !.state = "ended"] ELSE row[k]]
    BY <1>4 DEF Logout
  <1>5. ASSUME NEW k \in Token, RevokeSession(k)
        PROVE  row' = [i \in Token |-> IF i \in {k} THEN [row[i] EXCEPT !.state = "ended"]
                                       ELSE row[i]]
    BY <1>5 DEF RevokeSession, TypeOK
  <1>6. CASE \E t \in Tabs : Logout(t)
    <2>1. epoch' = epoch
      BY <1>6 DEF Logout
    <2>2. CASE row' = row
      BY <2>1, <2>2 DEF TypeOK
    <2>3. CASE row' # row
      BY <1>2, <1>4, <1>6, <2>1, <2>3
    <2>4. QED
      BY <2>2, <2>3
  <1>7. CASE \E t \in Tabs : LogoutAll(t)
    BY <1>3, <1>7 DEF LogoutAll
  <1>8. CASE \E k \in Token : RevokeSession(k)
    <2>1. PICK k \in Token : RevokeSession(k)
      BY <1>8
    <2>2. {k} \in SUBSET Token /\ \A i \in {k} : IsLive(i)
      BY <2>1 DEF RevokeSession
    <2>3. epoch' = epoch
      BY <2>1 DEF RevokeSession
    <2>4. QED
      BY <1>2, <1>5, <2>1, <2>2, <2>3
  <1>9. CASE \E r \in Resetters : ResetPassword(r)
    BY <1>3, <1>9 DEF ResetPassword
  <1>10. QED
    BY <1>6, <1>7, <1>8, <1>9

LEMMA TypesStep == TypeOK /\ RowsKnown /\ [Next]_vars => TypeOK'
  <1> SUFFICES ASSUME TypeOK, RowsKnown, [Next]_vars  PROVE TypeOK'
    OBVIOUS
  <1> USE DEF server, resetting
  <1>1. ASSUME NEW t \in Tabs, Logout(t) \/ LogoutAll(t)  PROVE TypeOK'
    <2>1. row' \in [Token -> Row \cup {NoRow}]
      BY <1>1, EndEffect
    <2>2. epoch' \in 0 .. MaxEpoch
      BY <1>1, SessionBoundsAssumption DEF Logout, LogoutAll, TypeOK
    <2>3. jar' \in {jar, [access |-> FALSE, refresh |-> 0]}
      BY <1>1 DEF Logout, LogoutAll
    <2>4. jar' \in [access : BOOLEAN, refresh : Token \cup {0}]
      <3>1. [access |-> FALSE, refresh |-> 0] \in [access : BOOLEAN, refresh : Token \cup {0}]
        OBVIOUS
      <3>2. jar \in [access : BOOLEAN, refresh : Token \cup {0}]
        BY DEF TypeOK
      <3>3. QED
        BY <2>3, <3>1, <3>2
    <2>5. QED
      BY <1>1, <2>1, <2>2, <2>4 DEF Logout, LogoutAll, TypeOK
  <1>2. ASSUME NEW k \in Token, RevokeSession(k)  PROVE TypeOK'
    <2>1. row' \in [Token -> Row \cup {NoRow}]
      BY <1>2, EndEffect
    <2>2. QED
      BY <1>2, <2>1 DEF RevokeSession, TypeOK
  <1>3. ASSUME NEW r \in Resetters, ResetPassword(r)  PROVE TypeOK'
    <2>1. row' \in [Token -> Row \cup {NoRow}]
      BY <1>3, EndEffect
    <2>2. epoch' \in 0 .. MaxEpoch
      BY <1>3, SessionBoundsAssumption DEF ResetPassword, TypeOK
    <2>3. reset' \in [ResetTokens -> ResetState] /\ hold' \in [Resetters -> ResetTokens \cup {"none"}]
      BY <1>3 DEF ResetPassword, TypeOK, ResetState
    <2>4. QED
      BY <1>3, <2>1, <2>2, <2>3 DEF ResetPassword, TypeOK
  <1>4. ASSUME NEW r \in Resetters, AbandonReset(r) \/ \E j \in ResetTokens : CheckResetToken(r, j)
        PROVE  TypeOK'
    BY <1>4 DEF AbandonReset, CheckResetToken, TypeOK
  <1>5. ASSUME NEW j \in ResetTokens, ForgotPassword(j)  PROVE TypeOK'
    BY <1>5 DEF ForgotPassword, TypeOK, ResetState
  <1>6. CASE ExpireAccess
    BY <1>6 DEF ExpireAccess, TypeOK
  <1>7. CASE UNCHANGED vars
    BY <1>7 DEF vars, TypeOK
  <1>8. QED
    BY <1>1, <1>2, <1>3, <1>4, <1>5, <1>6, <1>7, LoginTypes, CallTypes, RefreshTypes DEF Next

-----------------------------------------------------------------------------
(* The steps that bring the browser no token and write no new row *)

\* Answers may go, and rows may be ended, but no token comes: what was so before is so after.
LEMMA Subsides ==
    ASSUME SessionInv, TypeOK',
           \A t \in Flights : /\ Arriving(t)' \subseteq Arriving(t)
                              /\ Entering(t)' \subseteq Entering(t)
                              /\ Sending(t)' \subseteq Sending(t),
           jar'.refresh \in {0, jar.refresh},
           \A k \in Token : \/ row'[k] = row[k]
                            \/ IsLive(k) /\ row'[k] = [row[k] EXCEPT !.state = "ended"],
           epoch' = epoch \/ \A k \in Token : row'[k].state # "live",
           \/ lost' > 0
           \/ lost' = lost /\ \A t \in Flights : flight[t].pc = "refreshed" => flight'[t].pc = "refreshed"
    PROVE  SessionInv'
  <1> USE DEF SessionInv
  <1>1. ASSUME NEW k \in Token, Known(k)
        PROVE  /\ Known(k)' /\ row'[k].login = row[k].login /\ row'[k].epoch = row[k].epoch
               /\ row'[k].late = row[k].late
               /\ row'[k].state = row[k].state \/ row'[k].state = "ended"
    <2>1. row[k] \in Row
      BY <1>1, RowFields
    <2>2. CASE row'[k] = row[k]
      BY <1>1, <2>2 DEF Known
    <2>3. CASE row'[k] = [row[k] EXCEPT !.state = "ended"]
      BY <2>1, <2>3, Revoked, NoRowIsNone DEF Known
    <2>4. QED
      BY <2>2, <2>3
  <1>2. \A k \in Token : ~Known(k) => row'[k] = row[k] /\ row'[k].state = "none"
    BY NoRowIsNone DEF Known, IsLive
  <1>3. \A k \in Token : row'[k].state # "none" => Known(k)
    BY <1>2
  <1>4. \A t \in Flights : /\ Arriving(t) \subseteq Token /\ Entering(t) \subseteq Token
                           /\ Sending(t) \subseteq Token
    BY StageFields
  <1>5. jar.refresh # 0 => jar.refresh \in Token
    BY DEF TypeOK
  <1>6. RowsKnown'
    <2>1. jar'.refresh # 0 => Known(jar.refresh)' /\ jar'.refresh = jar.refresh
      BY <1>1, <1>5 DEF RowsKnown
    <2>2. \A t \in Flights : \A k \in Arriving(t)' \cup Entering(t)' \cup Sending(t)' : Known(k)'
      BY <1>1, <1>4 DEF RowsKnown
    <2>3. \A k \in Token : Known(k)' => Known(row[k].login)'
      <3>1. ASSUME NEW k \in Token, Known(k)'  PROVE row[k].login \in Token /\ Known(row[k].login)
                                                    /\ row'[k].login = row[k].login
        BY <1>1, <1>2, <3>1, RowFields DEF RowsKnown, Known
      <3>2. QED
        BY <1>1, <3>1
    <2>4. QED
      BY <2>1, <2>2, <2>3 DEF RowsKnown, Known
  <1>7. AnswersFresh'
    <2>1. ASSUME NEW t \in Flights, NEW k \in Arriving(t)' \cup Entering(t)'  PROVE Fresh(k)'
      <3>1. k \in Token /\ Known(k) /\ Fresh(k) /\ k # 0
        BY <1>4 DEF AnswersFresh, RowsKnown, Token
      <3>2. QED
        BY <1>1, <3>1 DEF Fresh
    <2>2. QED
      BY <2>1 DEF AnswersFresh
  <1>8. CookieIsCurrent'
    <2> SUFFICES ASSUME jar'.refresh # 0, row'[jar'.refresh].state = "rotated"
                 PROVE  lost' > 0 \/ \E t \in Flights : flight'[t].pc = "refreshed"
      BY DEF CookieIsCurrent
    <2>1. jar'.refresh = jar.refresh /\ row[jar.refresh].state = "rotated"
      BY <1>1, <1>3, <1>5
    <2>2. lost > 0 \/ \E t \in Flights : flight[t].pc = "refreshed"
      BY <2>1 DEF CookieIsCurrent
    <2>3. QED
      BY <2>2
  <1>9. OneTokenPerLogin'
    BY <1>1, <1>3 DEF OneTokenPerLogin, IsLive
  <1>10. EarlierSessionsEnd'
    BY <1>1, <1>3 DEF EarlierSessionsEnd, IsLive
  <1>11. QED
    BY <1>6, <1>7, <1>8, <1>9, <1>10

LEMMA EndsSubside ==
    ASSUME SessionInv, TypeOK',
           \/ \E t \in Tabs : Logout(t) \/ LogoutAll(t)
           \/ \E k \in Token : RevokeSession(k)
           \/ \E r \in Resetters : ResetPassword(r)
    PROVE  SessionInv'
  <1>1. UNCHANGED <<signIn, flight, lost>> /\ jar'.refresh \in {0, jar.refresh}
    BY DEF Logout, LogoutAll, RevokeSession, ResetPassword, resetting
  <1>2. /\ \A k \in Token : \/ row'[k] = row[k]
                            \/ IsLive(k) /\ row'[k] = [row[k] EXCEPT !.state = "ended"]
        /\ epoch' = epoch \/ \A k \in Token : row'[k].state # "live"
    BY EndEffect DEF SessionInv
  <1>3. \A t \in Flights : /\ Arriving(t)' = Arriving(t) /\ Entering(t)' = Entering(t)
                           /\ Sending(t)' = Sending(t)
    BY <1>1 DEF Arriving, Entering, Sending
  <1>4. QED
    BY <1>1, <1>2, <1>3, Subsides

\* What the tabs have in flight after a step that settles logins, sends no token, and lets
\* a refresh go on to be found, or be given up.
LEMMA FlightSubsides ==
    ASSUME SessionInv, TypeOK', UNCHANGED row, UNCHANGED epoch, jar'.refresh = jar.refresh,
           \A t \in Tabs : \/ signIn'[t] = signIn[t]
                           \/ signIn'[t].pc # "logged_in",
           \A t \in Flights : \/ flight'[t] = flight[t]
                              \/ flight'[t].pc \in {"csrf", "settled"}
                              \/ /\ flight[t].pc = "sent" /\ flight'[t].pc = "found"
                                 /\ flight'[t].token = flight[t].token,
           \/ lost' > 0
           \/ lost' = lost /\ \A t \in Flights : flight[t].pc = "refreshed" => flight'[t] = flight[t]
    PROVE  SessionInv'
  <1>1. \A t \in Flights : Entering(t)' \subseteq Entering(t)
    BY DEF Entering
  <1>2. \A t \in Flights : Arriving(t)' \subseteq Arriving(t) /\ Sending(t)' \subseteq Sending(t)
    BY DEF Arriving, Sending
  <1>3. QED
    BY <1>1, <1>2, Subsides

\* A page that is left takes its login with it; a refresh it had sent goes on as a stray.
LEMMA PageLeft ==
    ASSUME SessionInv, TypeOK', NEW t \in Tabs, LeaveFlight(t),
           UNCHANGED <<row, epoch, jar, lost>>,
           \A u \in Tabs : signIn'[u] \in {signIn[u], Settled}
    PROVE  SessionInv'
  <1> USE DEF SessionInv
  <1>1. t \in Flights /\ Settled.pc = "settled"
    BY DEF Flights, Settled
  <1>2. \A u \in Flights : Entering(u)' \subseteq Entering(u)
    BY <1>1 DEF Entering
  <1>3. CASE flight[t].pc \in {"settled", "csrf"}
    <2>1. flight'[t] = Settled /\ \A u \in Flights \ {t} : flight'[u] = flight[u]
      BY <1>1, <1>3 DEF LeaveFlight, Fly, TypeOK
    <2>2. \A u \in Tabs : signIn'[u] = signIn[u] \/ signIn'[u].pc # "logged_in"
      BY <1>1
    <2>3. QED
      BY <1>1, <1>3, <2>1, <2>2, FlightSubsides
  <1>4. CASE flight[t].pc \notin {"settled", "csrf"}
    <2>1. PICK s \in Strays :
             flight[s] = Settled /\ flight' = [flight EXCEPT ![s] = flight[t], ![t] = Settled]
      BY <1>4 DEF LeaveFlight
    <2>2. /\ s \in Flights /\ s # t /\ flight'[s] = flight[t] /\ flight'[t] = Settled
          /\ \A u \in Flights \ {s, t} : flight'[u] = flight[u]
      BY <1>1, <1>4, <2>1 DEF TypeOK, Flights
    <2>3. /\ Arriving(s) = {} /\ Arriving(s)' = Arriving(t) /\ Arriving(t)' = {}
          /\ Sending(s)' = Sending(t) /\ Sending(t)' = {}
          /\ \A u \in Flights \ {s, t} : Arriving(u)' = Arriving(u) /\ Sending(u)' = Sending(u)
      BY <1>1, <2>1, <2>2 DEF Arriving, Sending
    <2>4. RowsKnown'
      BY <1>1, <1>2, <2>2, <2>3 DEF RowsKnown, Known
    <2>5. AnswersFresh'
      <3>1. ASSUME NEW u \in Flights, NEW k \in Arriving(u) \cup Entering(u)  PROVE Fresh(k)'
        BY <1>1, <2>2, <2>3, <3>1 DEF AnswersFresh, Fresh
      <3>2. \A u \in Flights : \A k \in Arriving(u)' \cup Entering(u)' : Fresh(k)'
        BY <1>1, <1>2, <2>2, <2>3, <3>1
      <3>3. \A u, v \in Flights :
               /\ Arriving(u)' \cap Entering(v)' = {}
               /\ u # v => Arriving(u)' \cap Arriving(v)' = {} /\ Entering(u)' \cap Entering(v)' = {}
        BY <1>1, <1>2, <2>2, <2>3 DEF AnswersFresh
      <3>4. QED
        BY <3>2, <3>3 DEF AnswersFresh
    <2>6. CookieIsCurrent'
      <3>1. \A f \in Flights : flight[f].pc = "refreshed" =>
               \E g \in Flights : flight'[g].pc = "refreshed"
        BY <1>1, <2>1, <2>2
      <3>2. QED
        BY <3>1 DEF CookieIsCurrent
    <2>7. OneTokenPerLogin' /\ EarlierSessionsEnd'
      BY DEF OneTokenPerLogin, EarlierSessionsEnd, IsLive
    <2>8. QED
      BY <2>4, <2>5, <2>6, <2>7
  <1>5. QED
    BY <1>3, <1>4

LEMMA BrowserSubsides ==
    ASSUME SessionInv, TypeOK',
           \/ \E c \in Calls : CallStep(c) \/ \E t \in Tabs : Send(c, t)
           \/ \E t \in Tabs : CheckPassword(t) \/ FailLogin(t)
           \/ \E t \in Flights : FindToken(t) \/ FailRefresh(t) \/ LoseRefresh(t)
           \/ ExpireAccess
           \/ \E j \in ResetTokens : ForgotPassword(j)
           \/ \E r \in Resetters : \/ \E j \in ResetTokens : CheckResetToken(r, j)
                                   \/ AbandonReset(r)
           \/ UNCHANGED vars
    PROVE  SessionInv'
  <1> USE DEF server, resetting, Sign, Fly
  <1>1. TypeOK /\ lost \in Nat
    BY SessionBoundsAssumption DEF SessionInv, TypeOK
  <1>2. \A t \in Flights : [pc |-> "settled"] = Settled
    BY DEF Settled
  <1>3. ASSUME NEW c \in Calls, CallStep(c) \/ \E t \in Tabs : Send(c, t)
        PROVE  SessionInv'
    <2>1. UNCHANGED <<row, epoch, jar, lost>>
      BY <1>3 DEF CallStep, EndCall, AskForRefresh, GiveUp, Send
    <2>2. CASE EndCall(c) \/ \E t \in Tabs : Send(c, t)
      BY <2>1, <2>2, FlightSubsides DEF EndCall, Send
    <2>3. CASE AskForRefresh(c)
      <3>1. \A t \in Flights : \/ flight'[t] = flight[t]
                               \/ flight[t] = Settled /\ flight'[t].pc = "csrf"
        BY <1>1, <2>3 DEF AskForRefresh, TypeOK
      <3>2. signIn' = signIn
        BY <2>3 DEF AskForRefresh
      <3>3. QED
        BY <2>1, <3>1, <3>2, FlightSubsides DEF Settled
    <2>4. CASE GiveUp(c)
      <3>1. call[c].tab \in Tabs
        BY <1>1, <2>4 DEF GiveUp, TypeOK, Call, Resting
      <3>2. \A t \in Tabs : signIn'[t] \in {signIn[t], Settled}
        BY <1>1, <2>4, <3>1, LoginPage DEF GiveUp
      <3>3. LeaveFlight(call[c].tab)
        BY <2>4 DEF GiveUp
      <3>4. QED
        BY <2>1, <3>1, <3>2, <3>3, PageLeft
    <2>5. QED
      BY <1>3, <2>2, <2>3, <2>4 DEF CallStep
  <1>4. ASSUME NEW t \in Tabs, CheckPassword(t) \/ FailLogin(t)  PROVE SessionInv'
    <2>1. UNCHANGED <<row, epoch, jar, flight>> /\ (lost' = lost \/ lost' > 0)
      BY <1>1, <1>4 DEF CheckPassword, FailLogin
    <2>2. \A u \in Tabs : signIn'[u] = signIn[u] \/ signIn'[u].pc # "logged_in"
      BY <1>1, <1>4 DEF CheckPassword, FailLogin, TypeOK, Settled
    <2>3. QED
      BY <2>1, <2>2, FlightSubsides
  <1>5. ASSUME NEW t \in Flights, FindToken(t)  PROVE SessionInv'
    <2>1. /\ flight[t].pc = "sent" /\ flight'[t].pc = "found"
          /\ flight'[t].token = flight[t].token
          /\ \A u \in Flights \ {t} : flight'[u] = flight[u]
          /\ UNCHANGED <<row, epoch, jar, signIn, lost>>
      BY <1>1, <1>5 DEF FindToken, TypeOK
    <2>2. QED
      BY <2>1, FlightSubsides
  <1>6. ASSUME NEW t \in Flights, FailRefresh(t) \/ LoseRefresh(t)  PROVE SessionInv'
    <2>1. \A u \in Tabs : signIn'[u] \in {signIn[u], Settled}
      BY <1>1, <1>6, LoginPage, WaitingTab DEF FailRefresh, LoseRefresh
    <2>2. /\ flight'[t] = Settled
          /\ \A u \in Flights \ {t} : flight'[u] = flight[u]
          /\ UNCHANGED <<row, epoch, jar>>
      BY <1>1, <1>6 DEF FailRefresh, LoseRefresh, TypeOK
    <2>3. lost' > 0 \/ (lost' = lost /\ flight[t].pc # "refreshed")
      BY <1>1, <1>6 DEF FailRefresh, LoseRefresh
    <2>4. QED
      BY <2>1, <2>2, <2>3, FlightSubsides DEF Settled
  <1>7. CASE ExpireAccess
    <2>1. jar'.refresh = jar.refresh
      BY <1>1, <1>7 DEF ExpireAccess, TypeOK
    <2>2. QED
      BY <1>7, <2>1, FlightSubsides DEF ExpireAccess
  <1>8. CASE \/ \E j \in ResetTokens : ForgotPassword(j)
             \/ \E r \in Resetters : \/ \E j \in ResetTokens : CheckResetToken(r, j)
                                     \/ AbandonReset(r)
             \/ UNCHANGED vars
    BY <1>8, FlightSubsides DEF ForgotPassword, CheckResetToken, AbandonReset, vars
  <1>9. QED
    BY <1>3, <1>4, <1>5, <1>6, <1>7, <1>8

-----------------------------------------------------------------------------
(* The steps that bring the browser a token, send one or write a new row *)

LEMMA StageEffect ==
    ASSUME TypeOK, NEW t \in Flights, NEW stage,
           flight' = [flight EXCEPT ![t] = stage]
    PROVE  /\ Arriving(t)' = IF stage.pc = "refreshed" THEN {stage.token} ELSE {}
           /\ Sending(t)' = IF stage.pc \in {"sent", "found"} THEN {stage.token} ELSE {}
           /\ \A u \in Flights \ {t} : Arriving(u)' = Arriving(u) /\ Sending(u)' = Sending(u)
  <1>1. flight'[t] = stage /\ \A u \in Flights \ {t} : flight'[u] = flight[u]
    BY DEF TypeOK
  <1>2. QED
    BY <1>1 DEF Arriving, Sending

\* The jar takes the token an answer brings: it was not exchanged, and no other answer has it.
LEMMA JarTakes ==
    ASSUME SessionInv, TypeOK', NEW t \in Flights, (t \in Tabs /\ EnterApp(t)) \/ Receive(t)
    PROVE  SessionInv'
  <1> USE DEF SessionInv, server
  <1>1. PICK k \in Token :
           /\ k \in Arriving(t) \cup Entering(t)
           /\ jar'.refresh = k
           /\ \A u \in Flights : /\ Arriving(u)' = Arriving(u) \ {k}
                                 /\ Entering(u)' = Entering(u) \ {k}
                                 /\ Sending(u)' = Sending(u)
    <2>1. CASE t \in Tabs /\ EnterApp(t)
      <3> DEFINE k == signIn[t].token
      <3>1. Entering(t) = {k} /\ k \in Token /\ jar'.refresh = k /\ flight' = flight
        BY <2>1, StageFields DEF EnterApp, Entering
      <3>2. Entering(t)' = {} /\ \A u \in Flights \ {t} : Entering(u)' = Entering(u)
        BY <2>1 DEF EnterApp, Entering, Sign, Settled, TypeOK
      <3>3. \A u \in Flights : Arriving(u)' = Arriving(u) /\ Sending(u)' = Sending(u)
        BY <3>1 DEF Arriving, Sending
      <3>4. QED
        BY <3>1, <3>2, <3>3 DEF AnswersFresh
    <2>2. CASE Receive(t)
      <3> DEFINE k == flight[t].token
      <3>1. Arriving(t) = {k} /\ k \in Token /\ jar'.refresh = k /\ signIn' = signIn
            /\ Sending(t) = {}
        BY <2>2, StageFields DEF Receive, Arriving, Sending
      <3>2. Arriving(t)' = {} /\ Sending(t)' = {}
            /\ \A u \in Flights \ {t} : Arriving(u)' = Arriving(u) /\ Sending(u)' = Sending(u)
        <4>1. flight' = [flight EXCEPT ![t] = Settled] /\ Settled.pc = "settled"
          BY <2>2 DEF Receive, Fly, Settled
        <4>2. QED
          BY <4>1, StageEffect
      <3>3. \A u \in Flights : Entering(u)' = Entering(u)
        BY <3>1 DEF Entering
      <3>4. QED
        BY <3>1, <3>2, <3>3 DEF AnswersFresh
    <2>3. QED
      BY <2>1, <2>2
  <1>2. UNCHANGED <<row, epoch>>
    BY DEF EnterApp, Receive
  <1>3. Known(k) /\ Fresh(k)
    BY <1>1 DEF RowsKnown, AnswersFresh
  <1>4. RowsKnown'
    BY <1>1, <1>2, <1>3 DEF RowsKnown, Known
  <1>5. AnswersFresh'
    BY <1>1, <1>2 DEF AnswersFresh, Fresh
  <1>6. CookieIsCurrent'
    BY <1>1, <1>2, <1>3 DEF CookieIsCurrent, Fresh
  <1>7. OneTokenPerLogin' /\ EarlierSessionsEnd'
    BY <1>2 DEF OneTokenPerLogin, EarlierSessionsEnd, IsLive
  <1>8. QED
    BY <1>4, <1>5, <1>6, <1>7

\* The token sent is the jar's, which no answer brings.
LEMMA TokenSent ==
    ASSUME SessionInv, TypeOK', NEW t \in Flights, SendRefresh(t)
    PROVE  SessionInv'
  <1> USE DEF SessionInv, server, SendRefresh
  <1>1. UNCHANGED <<row, epoch, jar, signIn, lost>>
    OBVIOUS
  <1>2. /\ Arriving(t)' = {} /\ Sending(t)' = {jar.refresh}
        /\ \A u \in Flights \ {t} : Arriving(u)' = Arriving(u) /\ Sending(u)' = Sending(u)
    <2> DEFINE stage == [pc |-> "sent", token |-> jar.refresh]
    <2>1. stage.pc = "sent" /\ stage.token = jar.refresh
      OBVIOUS
    <2>2. flight' = [flight EXCEPT ![t] = stage]
      BY DEF Fly
    <2> HIDE DEF stage
    <2>3. QED
      BY <2>1, <2>2, StageEffect
  <1>3. \A u \in Flights : Entering(u)' = Entering(u)
    BY <1>1 DEF Entering
  <1>4. RowsKnown'
    BY <1>1, <1>2, <1>3 DEF RowsKnown, Known
  <1>5. AnswersFresh'
    <2>1. \A u \in Flights : Arriving(u)' \subseteq Arriving(u)
      BY <1>2
    <2>2. ASSUME NEW u \in Flights, NEW k \in Arriving(u) \cup Entering(u)  PROVE Fresh(k)'
      BY <1>1, <1>2, <2>2 DEF AnswersFresh, Fresh
    <2>3. QED
      BY <1>3, <2>1, <2>2 DEF AnswersFresh
  <1>6. CookieIsCurrent'
    <2>1. flight[t].pc # "refreshed" /\ \A u \in Flights \ {t} : flight'[u] = flight[u]
      BY DEF Fly, TypeOK
    <2>2. QED
      BY <1>1, <2>1 DEF CookieIsCurrent
  <1>7. OneTokenPerLogin' /\ EarlierSessionsEnd'
    BY <1>1 DEF OneTokenPerLogin, EarlierSessionsEnd, IsLive
  <1>8. QED
    BY <1>4, <1>5, <1>6, <1>7

\* A new row, under a token that nothing referred to, which one answer brings.
LEMMA TokenIssued ==
    ASSUME SessionInv, NEW k \in Token, ~Known(k), row'[k] \in Row,
           row'[k].state = "live", row'[k].login = k \/ Known(row'[k].login),
           \A i \in Token : Known(i) => row'[i] # NoRow /\ row'[i].login = row[i].login,
           \A i \in Token \ {k} : row'[i] # NoRow => Known(i),
           jar' = jar, NEW t \in Flights,
           \A u \in Flights : \A i \in Arriving(u) \cup Entering(u) : row'[i] = row[i],
           \A u \in Flights : Sending(u)' \subseteq Sending(u),
           \A u \in Flights \ {t} : Arriving(u)' = Arriving(u) /\ Entering(u)' = Entering(u),
           \/ Arriving(t)' = {k} /\ Entering(t)' = Entering(t)
           \/ Arriving(t)' = Arriving(t) /\ Entering(t)' = {k}
    PROVE  RowsKnown' /\ AnswersFresh'
  <1> USE DEF SessionInv
  <1>1. \A u \in Flights : k \notin Arriving(u) /\ k \notin Entering(u) /\ k \notin Sending(u)
    BY DEF RowsKnown
  <1>2. \A u \in Flights : \A i \in Arriving(u) \cup Entering(u) \cup Sending(u) :
           i \in Token /\ Known(i)
    BY StageFields DEF RowsKnown
  <1>3. jar.refresh # 0 => jar.refresh \in Token /\ Known(jar.refresh)
    BY DEF TypeOK, RowsKnown
  <1>4. RowsKnown'
    <2>1. jar'.refresh # 0 => Known(jar.refresh)'
      BY <1>3 DEF Known
    <2>2. \A u \in Flights : \A i \in Arriving(u)' \cup Entering(u)' \cup Sending(u)' : row'[i] # NoRow
      BY <1>2, NoRowIsNone
    <2>3. \A i \in Token : row'[i] # NoRow => row'[row'[i].login] # NoRow
      <3>1. ASSUME NEW i \in Token \ {k}, Known(i)
            PROVE  row[i].login \in Token /\ Known(row[i].login)
        BY <3>1, RowFields DEF RowsKnown
      <3>2. row'[k].login \in Token
        BY DEF Row
      <3>3. row'[k] # NoRow
        BY NoRowIsNone
      <3>4. QED
        BY <3>1, <3>2, <3>3 DEF Known
    <2>4. QED
      BY <2>1, <2>2, <2>3 DEF RowsKnown, Known
  <1>5. AnswersFresh'
    <2>1. ASSUME NEW u \in Flights, NEW i \in Arriving(u) \cup Entering(u)  PROVE Fresh(i)'
      BY <1>2, <2>1 DEF AnswersFresh, Fresh
    <2>2. Fresh(k)'
      <3>1. jar.refresh # k
        BY <1>3 DEF Token
      <3>2. QED
        BY <1>1, <3>1 DEF Fresh
    <2>3. \A u \in Flights : \A i \in Arriving(u)' \cup Entering(u)' : Fresh(i)'
      BY <2>1, <2>2
    <2>4. \A u, v \in Flights :
             /\ Arriving(u)' \cap Entering(v)' = {}
             /\ u # v => Arriving(u)' \cap Arriving(v)' = {} /\ Entering(u)' \cap Entering(v)' = {}
      BY <1>1 DEF AnswersFresh
    <2>5. QED
      BY <2>3, <2>4 DEF AnswersFresh
  <1>6. QED
    BY <1>4, <1>5

LEMMA LoginIssues ==
    ASSUME SessionInv, TypeOK', NEW t \in Tabs, IssueTokens(t)
    PROVE  SessionInv'
  <1> USE DEF SessionInv
  <1>1. PICK k \in Token :
           /\ Unused(k)
           /\ row' = [row EXCEPT ![k] = [state |-> "live", login |-> k,
                                         epoch |-> signIn[t].epoch,
                                         late  |-> signIn[t].epoch # epoch]]
           /\ signIn' = [signIn EXCEPT ![t] = [pc |-> "logged_in", token |-> k]]
    BY DEF IssueTokens, Sign
  <1>2. /\ UNCHANGED <<epoch, jar, flight, lost>>
        /\ signIn[t].pc = "password_ok" /\ signIn[t].epoch \in 0 .. MaxEpoch
    BY StageFields DEF IssueTokens, Flights
  <1>3. /\ ~Known(k) /\ row'[k] # NoRow /\ row'[k] \in Row
        /\ row'[k].state = "live" /\ row'[k].login = k
        /\ row'[k].epoch = signIn[t].epoch
        /\ row'[k].late <=> signIn[t].epoch # epoch
        /\ \A i \in Token \ {k} : row'[i] = row[i]
    <2>1. /\ row'[k] = [state |-> "live", login |-> k, epoch |-> signIn[t].epoch,
                        late  |-> signIn[t].epoch # epoch]
          /\ \A i \in Token \ {k} : row'[i] = row[i]
      BY <1>1 DEF TypeOK
    <2>2. row'[k].state = "live" /\ row'[k].login = k /\ row'[k].epoch = signIn[t].epoch
      BY <2>1
    <2>3. row'[k].late <=> signIn[t].epoch # epoch
      <3>1. row'[k].late = [state |-> "live", login |-> k, epoch |-> signIn[t].epoch,
                            late  |-> signIn[t].epoch # epoch].late
        BY <2>1, Zenon
      <3>2. QED
        BY <3>1, Zenon
    <2>4. row'[k] # NoRow /\ row'[k] \in Row
      BY <2>2, NoRowIsNone DEF TypeOK
    <2>5. ~Known(k)
      BY <1>1 DEF Unused, Known
    <2>6. QED
      BY <2>1, <2>2, <2>3, <2>4, <2>5
  <1>4. Entering(t)' = {k} /\ \A u \in Flights \ {t} : Entering(u)' = Entering(u)
    BY <1>1 DEF Entering, TypeOK
  <1>5. \A u \in Flights : Arriving(u)' = Arriving(u) /\ Sending(u)' = Sending(u)
    BY <1>2 DEF Arriving, Sending
  <1>6. \A u \in Flights : \A i \in Arriving(u) \cup Entering(u) : i \in Token \ {k}
    BY <1>3, StageFields DEF RowsKnown
  <1>7. RowsKnown' /\ AnswersFresh'
    BY <1>2, <1>3, <1>4, <1>5, <1>6, TokenIssued DEF Known, Flights
  <1>8. CookieIsCurrent'
    <2>1. jar.refresh # k
      BY <1>3 DEF RowsKnown, Token
    <2>2. QED
      BY <1>2, <1>3, <2>1 DEF CookieIsCurrent, TypeOK
  <1>9. OneTokenPerLogin'
    <2>1. \A i \in Token \ {k} : row'[i].state = "live" => row[i].login # k
      BY <1>3, RowFields DEF RowsKnown
    <2>2. QED
      BY <1>3, <2>1 DEF OneTokenPerLogin, IsLive
  <1>10. EarlierSessionsEnd'
    <2>1. row'[k].epoch < epoch => row'[k].late
      BY <1>2, <1>3 DEF TypeOK
    <2>2. QED
      BY <1>2, <1>3, <2>1 DEF EarlierSessionsEnd, IsLive
  <1>11. QED
    BY <1>7, <1>8, <1>9, <1>10

\* The exchange: the old row is rotated, if it was live, and the new one is late if not.
LEMMA TokenExchanged ==
    ASSUME SessionInv, TypeOK', NEW t \in Flights, Rotate(t)
    PROVE  SessionInv'
  <1> USE DEF SessionInv
  <1> DEFINE old == flight[t].token
  <1>1. /\ flight[t].pc = "found" /\ Sending(t) = {old}
        /\ UNCHANGED <<epoch, jar, signIn, lost>>
    BY DEF Rotate, Sending
  <1>2. /\ old \in Token /\ row[old] \in Row
        /\ \E k \in Token \ {old} :
                /\ Unused(k)
                /\ flight' = [flight EXCEPT ![t] = [pc |-> "refreshed", token |-> k]]
                /\ row'[old] = [row[old] EXCEPT !.state = IF IsLive(old) THEN "rotated" ELSE @]
                /\ row'[k] = [row[old] EXCEPT !.state = "live", !.late = @ \/ ~IsLive(old)]
                /\ \A i \in Token \ {old, k} : row'[i] = row[i]
    BY RotateEffect
  <1>3. PICK k \in Token \ {old} :
                /\ Unused(k)
                /\ flight' = [flight EXCEPT ![t] = [pc |-> "refreshed", token |-> k]]
                /\ row'[old] = [row[old] EXCEPT !.state = IF IsLive(old) THEN "rotated" ELSE @]
                /\ row'[k] = [row[old] EXCEPT !.state = "live", !.late = @ \/ ~IsLive(old)]
                /\ \A i \in Token \ {old, k} : row'[i] = row[i]
    BY <1>2
  <1>4. /\ ~Known(k) /\ row'[k] # NoRow /\ row'[k] \in Row
        /\ row'[k].state = "live" /\ row'[k].login = row[old].login
        /\ row'[k].epoch = row[old].epoch
        /\ row'[k].late <=> (row[old].late \/ ~IsLive(old))
    <2>1. ~Known(k)
      BY <1>3 DEF Unused, Known
    <2>2. /\ row'[k].state = "live" /\ row'[k].login = row[old].login
          /\ row'[k].epoch = row[old].epoch
          /\ row'[k].late <=> (row[old].late \/ ~IsLive(old))
      BY <1>2, <1>3 DEF Row
    <2>3. row'[k] \in Row /\ row'[k] # NoRow
      BY <1>2, <1>3, <2>2, NoRowIsNone DEF Row, TypeOK
    <2>4. QED
      BY <2>1, <2>2, <2>3
  <1>5. /\ row'[old] # NoRow /\ row'[old].login = row[old].login
        /\ row'[old].state # "live"
        /\ Known(old)
    BY <1>2, <1>3, NoRowIsNone DEF Row, IsLive, Known
  <1>6. /\ Arriving(t)' = {k} /\ Sending(t)' = {}
        /\ \A u \in Flights \ {t} : Arriving(u)' = Arriving(u) /\ Sending(u)' = Sending(u)
        /\ flight'[t].pc = "refreshed"
    <2>1. flight'[t] = [pc |-> "refreshed", token |-> k] /\ \A u \in Flights \ {t} : flight'[u] = flight[u]
      BY <1>3 DEF TypeOK
    <2>2. QED
      BY <2>1 DEF Arriving, Sending
  <1>7. \A u \in Flights : Entering(u)' = Entering(u)
    BY <1>1 DEF Entering
  <1>8. ASSUME NEW u \in Flights, NEW i \in Arriving(u) \cup Entering(u)  PROVE i \in Token \ {k, old}
    BY <1>1, <1>4, <1>8, StageFields DEF RowsKnown, AnswersFresh, Fresh
  <1>9. RowsKnown' /\ AnswersFresh'
    <2>1. \A i \in Token : Known(i) => row'[i] # NoRow /\ row'[i].login = row[i].login
      BY <1>3, <1>4, <1>5 DEF Known
    <2>2. \A i \in Token \ {k} : row'[i] # NoRow => Known(i)
      BY <1>3, <1>5 DEF Known
    <2>3. Known(row'[k].login)
      BY <1>2, <1>4, <1>5 DEF RowsKnown
    <2>4. \A u \in Flights : \A i \in Arriving(u) \cup Entering(u) : row'[i] = row[i]
      BY <1>3, <1>8
    <2>5. \A u \in Flights : Sending(u)' \subseteq Sending(u)
      BY <1>6
    <2>6. \A u \in Flights \ {t} : Arriving(u)' = Arriving(u) /\ Entering(u)' = Entering(u)
      BY <1>6, <1>7
    <2>7. Arriving(t)' = {k} /\ Entering(t)' = Entering(t)
      BY <1>6, <1>7
    <2>8. QED
      BY <1>1, <1>4, <2>1, <2>2, <2>3, <2>4, <2>5, <2>6, <2>7, TokenIssued
  <1>10. CookieIsCurrent'
    BY <1>6 DEF CookieIsCurrent
  <1>11. OneTokenPerLogin'
    <2>1. ASSUME NEW i \in Token \ {k}, row'[i].state = "live"  PROVE i # old /\ row'[i] = row[i]
      BY <1>3, <1>5, <2>1
    <2>2. \A i \in Token \ {k} : /\ row'[i].state = "live" /\ ~row'[i].late /\ ~row'[k].late
                                 => row'[i].login # row'[k].login
      BY <1>2, <1>4, <2>1 DEF OneTokenPerLogin, IsLive
    <2>3. QED
      BY <2>1, <2>2 DEF OneTokenPerLogin, IsLive
  <1>12. EarlierSessionsEnd'
    <2>1. row[k].epoch = row[k].epoch /\ (row'[k].epoch < epoch => row'[k].late)
      BY <1>2, <1>4 DEF EarlierSessionsEnd
    <2>2. \A i \in Token \ {k} : row'[i].state = "live" => row'[i] = row[i]
      BY <1>3, <1>5
    <2>3. QED
      BY <1>1, <2>1, <2>2 DEF EarlierSessionsEnd, IsLive
  <1>13. QED
    BY <1>9, <1>10, <1>11, <1>12

-----------------------------------------------------------------------------
LEMMA SessionsHold == Spec => []SessionInv
  <1>1. Init => SessionInv
    <2> SUFFICES ASSUME Init  PROVE SessionInv
      OBVIOUS
    <2>1. TypeOK
      BY SessionBoundsAssumption, StageTypes DEF Init, TypeOK, ResetState
    <2>2. \A t \in Flights : Arriving(t) = {} /\ Entering(t) = {} /\ Sending(t) = {}
      BY DEF Init, Arriving, Entering, Sending, Settled
    <2>3. RowsKnown /\ AnswersFresh
      BY <2>2 DEF Init, RowsKnown, AnswersFresh, Known
    <2>4. CookieIsCurrent /\ OneTokenPerLogin /\ EarlierSessionsEnd
      BY NoRowIsNone DEF Init, CookieIsCurrent, OneTokenPerLogin, EarlierSessionsEnd, IsLive
    <2>5. QED
      BY <2>1, <2>3, <2>4 DEF SessionInv
  <1>2. SessionInv /\ [Next]_vars => SessionInv'
    <2> SUFFICES ASSUME SessionInv, [Next]_vars  PROVE SessionInv'
      OBVIOUS
    <2>1. TypeOK'
      BY TypesStep DEF SessionInv
    <2>2. ASSUME NEW t \in Flights, RefreshStep(t)  PROVE SessionInv'
      BY <2>1, <2>2, BrowserSubsides, JarTakes, TokenSent, TokenExchanged DEF RefreshStep
    <2>3. ASSUME NEW t \in Tabs, LoginStep(t) \/ Logout(t) \/ LogoutAll(t)  PROVE SessionInv'
      <3>1. t \in Flights
        BY DEF Flights
      <3>2. QED
        BY <2>1, <2>3, <3>1, EndsSubside, BrowserSubsides, JarTakes, LoginIssues DEF LoginStep
    <2>4. CASE /\ ~\E t \in Flights : RefreshStep(t)
               /\ ~\E t \in Tabs : LoginStep(t) \/ Logout(t) \/ LogoutAll(t)
      BY <2>1, <2>4, EndsSubside, BrowserSubsides DEF Next
    <2>5. QED
      BY <2>2, <2>3, <2>4
  <1>3. QED
    BY <1>1, <1>2, PTL DEF Spec

\* The rows, the cookies and what every tab and call has in flight have their types.
THEOREM SessionTypes == Spec => []TypeOK
  <1>1. SessionInv => TypeOK
    BY DEF SessionInv
  <1>2. QED
    BY <1>1, SessionsHold, PTL

\* However many tabs race to refresh, log in and log out, the jar holds an exchanged token
\* only while the answer with the newer one is under way, or after it was lost.
THEOREM JarIsCurrent == Spec => []CookieIsCurrent
  <1>1. SessionInv => CookieIsCurrent
    BY DEF SessionInv
  <1>2. QED
    BY <1>1, SessionsHold, PTL

\* A login has a second live token only through a refresh that found its token before
\* another exchanged it.
THEOREM LoginHasOneToken == Spec => []OneTokenPerLogin
  <1>1. SessionInv => OneTokenPerLogin
    BY DEF SessionInv
  <1>2. QED
    BY <1>1, SessionsHold, PTL

\* A password reset ends every session begun before it, but those that had passed their
\* check before it and wrote after it.
THEOREM ResetEndsSessions == Spec => []EarlierSessionsEnd
  <1>1. SessionInv => EarlierSessionsEnd
    BY DEF SessionInv
  <1>2. QED
    BY <1>1, SessionsHold, PTL

=============================================================================
