--------------------------- MODULE SessionProofs ---------------------------
(***************************************************************************)
(* Theorems of ClientSession, for any number of tabs and users, any        *)
(* accounts that an operator may give them, any lifetime of tokens and any *)
(* bound on the clock.                                                     *)
(***************************************************************************)
EXTENDS ClientSession, TLAPS

USE ClientAssumption, NoneAssumption

-----------------------------------------------------------------------------
(* Types.                                                                  *)

AccessTypeOK ==
  /\ accounts \in [Users -> Account]
  /\ now \in Nat
  /\ lastHeld \in [Users -> [Roles -> Nat]]

Typed == AccessTypeOK /\ TypeOK

LEMMA InitTyped == Init => Typed
BY AccessAssumption DEF Init, AccessInit, Typed, AccessTypeOK, TypeOK

LEMMA RouteRoles == \A route \in Routes : MinimumRole[route] \in Roles
BY DEF Routes, MinimumRole, Roles, roleRank

LEMMA RanksAreNumbers == roleRank \in [Roles -> 1 .. 4]
BY DEF Roles, roleRank

LEMMA HeldTyped ==
  ASSUME AccessTypeOK, NEW table, NEW time \in Nat
  PROVE  Held(table, time) \in [Users -> [Roles -> Nat]]
BY DEF AccessTypeOK, Held

LEMMA OperatorTyped ==
  ASSUME Typed, Operator
  PROVE  Typed'
<1>1. TypeOK'
  BY DEF Operator, clientVars, Typed, TypeOK
<1>2. CASE Tick
  BY <1>1, <1>2, HeldTyped DEF Tick, Typed, AccessTypeOK
<1>3. ASSUME NEW u \in Users, ChangeAccount(u) PROVE AccessTypeOK'
  BY <1>3, HeldTyped, AccessAssumption DEF ChangeAccount, Typed, AccessTypeOK
<1> QED
  BY <1>1, <1>2, <1>3 DEF Operator, Typed

\* What a guard makes of a page.
LEMMA GuardedPage ==
  ASSUME NEW s, NEW page \in {"work", "audit"}
  PROVE  /\ Guarded(s, page) \in {"login", "work", "audit"}
         /\ (Guarded(s, page) = "login") <=> (s = None)
         /\ (Guarded(s, page) = "audit") => HasMinimumRole(s, "reviewer")
BY DEF Guarded

LEMMA UserTyped ==
  ASSUME Typed, NEW t \in Tabs, User(t)
  PROVE  Typed'
<1> USE DEF Typed, TypeOK, SetSession, Show, SetAuth, SetApi
<1>0. accessVars' = accessVars => AccessTypeOK'
  BY DEF accessVars, AccessTypeOK
<1>1. ASSUME NEW page \in {"work", "audit"}, Open(t, page) PROVE Typed'
  <2>1. Guarded(stored, page) \in {"login", "work", "audit"}
    BY GuardedPage
  <2>2. CASE stored = None
    BY <1>0, <1>1, <2>1, <2>2 DEF Open
  <2>3. CASE stored # None
    <3>1. stored \in Session /\ StoredToken = stored.token /\ stored.token \in Token
      BY <2>3 DEF StoredToken, Session
    <3>2. [kind |-> "restore", token |-> StoredToken, cached |-> stored] \in AuthCall
      BY <3>1 DEF AuthCall
    <3> QED
      BY <1>0, <1>1, <2>1, <2>3, <3>2 DEF Open
  <2> QED
    BY <2>2, <2>3
<1>2. ASSUME NEW page \in {"work", "audit"}, Navigate(t, page) PROVE Typed'
  BY <1>0, <1>2, GuardedPage DEF Navigate
<1>3. ASSUME NEW u \in Users, Login(t, u) PROVE Typed'
  <2>1. [kind |-> "login", user |-> u] \in AuthCall
    BY DEF AuthCall
  <2> QED
    BY <1>0, <1>3, <2>1 DEF Login
<1>4. ASSUME NEW route \in PageRoutes, Call(t, route) PROVE Typed'
  <2>1. StoredToken \in Token \union {None}
    BY DEF StoredToken, Session
  <2>2. [kind |-> "request", minimum |-> MinimumRole[route], token |-> StoredToken] \in ApiCall
    BY <2>1, RouteRoles DEF ApiCall
  <2> QED
    BY <1>0, <1>4, <2>2 DEF Call
<1>5. CASE Logout(t)
  BY <1>0, <1>5 DEF Logout
<1>6. CASE Close(t)
  BY <1>0, <1>6 DEF Close
<1> QED
  BY <1>1, <1>2, <1>3, <1>4, <1>5, <1>6 DEF User

\* A login is answered with a token of the account's role.
LEMMA IssueIsToken ==
  ASSUME AccessTypeOK, NEW u \in Users
  PROVE  Issue(u) \in Token /\ Issue(u).user = u /\ Issue(u).role = accounts[u].role
BY AccessAssumption DEF AccessTypeOK, Issue, Token, Account

LEMMA AnswerTyped ==
  ASSUME Typed, NEW t \in Tabs, Answer(t)
  PROVE  Typed'
<1> USE DEF Typed, TypeOK, SetAuth, SetApi
<1>0. accessVars' = accessVars => AccessTypeOK'
  BY DEF accessVars, AccessTypeOK
<1>u. [kind |-> "unauthorized"] \in AuthCall /\ [kind |-> "failed"] \in AuthCall
  BY DEF AuthCall
<1>1. CASE AnswerLogin(t)
  <2> DEFINE u == auth[t].user
             next == [token |-> Issue(u), user |-> u, role |-> Issue(u).role]
  <2>1. auth[t] \in [kind: {"login"}, user: Users]
    BY <1>1 DEF AnswerLogin, InAuth, AuthCall
  <2>2. next \in Session
    BY <2>1, IssueIsToken DEF Session, Token
  <2>3. [kind |-> "granted", next |-> next] \in AuthCall
    BY <2>2 DEF AuthCall
  <2>4. \/ auth' = [auth EXCEPT ![t] = [kind |-> "granted", next |-> next]]
        \/ auth' = [auth EXCEPT ![t] = [kind |-> "unauthorized"]]
    BY <1>1 DEF AnswerLogin
  <2> HIDE DEF next
  <2> QED
    BY <1>0, <1>1, <1>u, <2>3, <2>4 DEF AnswerLogin
<1>2. CASE AnswerRestore(t)
  <2> DEFINE live == [kind |-> "live", cached |-> auth[t].cached,
                      user |-> auth[t].token.user, role |-> auth[t].token.role]
  <2>1. auth[t] \in [kind: {"restore"}, token: Token, cached: Session]
    BY <1>2 DEF AnswerRestore, InAuth, AuthCall
  <2>2. live \in AuthCall
    BY <2>1 DEF AuthCall, Token
  <2>3. \/ auth' = [auth EXCEPT ![t] = live]
        \/ auth' = [auth EXCEPT ![t] = [kind |-> "unauthorized"]]
    BY <1>2 DEF AnswerRestore
  <2> HIDE DEF live
  <2> QED
    BY <1>0, <1>2, <1>u, <2>2, <2>3 DEF AnswerRestore
<1>3. CASE FailAuth(t)
  BY <1>0, <1>3, <1>u DEF FailAuth
<1>4. CASE AnswerCall(t)
  <2>1. PICK kind \in {"served", "unauthorized", "failed"} : api' = [api EXCEPT ![t] = [kind |-> kind]]
    BY <1>4 DEF AnswerCall, Verdict
  <2>2. [kind |-> kind] \in ApiCall
    BY DEF ApiCall
  <2> QED
    BY <1>0, <1>4, <2>1, <2>2 DEF AnswerCall
<1> QED
  BY <1>1, <1>2, <1>3, <1>4 DEF Answer

LEMMA ReceiveTyped ==
  ASSUME Typed, NEW t \in Tabs, Receive(t)
  PROVE  Typed'
<1> USE DEF Typed, TypeOK, SetSession, Show, SetAuth, SetApi
<1>0. accessVars' = accessVars => AccessTypeOK'
  BY DEF accessVars, AccessTypeOK
<1>1. CASE ReceiveRestored(t)
  <2>1. auth[t] \in [kind: {"live"}, cached: Session, user: Users, role: Roles]
    BY <1>1 DEF ReceiveRestored, InAuth, AuthCall
  <2>2. Restored(t) \in Session
    BY <2>1 DEF Restored, Session
  <2> QED
    BY <1>0, <1>1, <2>2 DEF ReceiveRestored
<1>2. CASE ReceiveLogin(t)
  <2>1. auth[t] \in [kind: {"granted"}, next: Session]
    BY <1>2 DEF ReceiveLogin, InAuth, AuthCall
  <2> QED
    BY <1>0, <1>2, <2>1 DEF ReceiveLogin
<1>3. CASE RefuseRestore(t)
  BY <1>0, <1>3 DEF RefuseRestore
<1>4. CASE RefuseLogin(t)
  BY <1>0, <1>4 DEF RefuseLogin
<1>5. CASE ReceiveCall(t)
  BY <1>0, <1>5 DEF ReceiveCall
<1> QED
  BY <1>1, <1>2, <1>3, <1>4, <1>5 DEF Receive

LEMMA NextTyped == Typed /\ [Next]_vars => Typed'
<1> SUFFICES ASSUME Typed, [Next]_vars PROVE Typed'
  OBVIOUS
<1>1. CASE UNCHANGED vars
  BY <1>1 DEF vars, Typed, TypeOK, AccessTypeOK
<1> QED
  BY <1>1, OperatorTyped, UserTyped, AnswerTyped, ReceiveTyped DEF Next

\* Sessions, pages, requests and answers keep their types.
THEOREM TypeCorrect == Spec => []TypeOK
<1>1. Spec => []Typed
  BY InitTyped, NextTyped, PTL DEF Spec
<1> QED
  BY <1>1, PTL DEF Typed

-----------------------------------------------------------------------------
(* Sessions and pages.                                                     *)

FitsPage(s, page) ==
  /\ page \in {"work", "audit"} => s # None
  /\ page = "audit" => HasMinimumRole(s, "reviewer")
  /\ page = "login" => s = None

\* Beyond what is to be shown: a restore works on the session that its tab
\* shows all the while, so its answer repeats what the session says.
TabSound(t) ==
  /\ ClaimsOfItsToken(session[t])
  /\ FitsPage(session[t], view[t])
  /\ InAuth(t, {"restore"}) =>
       auth[t].cached = session[t] /\ auth[t].token = session[t].token
  /\ InAuth(t, {"live"}) =>
       /\ auth[t].cached = session[t]
       /\ auth[t].user = session[t].user /\ auth[t].role = session[t].role
  /\ InAuth(t, {"granted"}) => ClaimsOfItsToken(auth[t].next)

SessionsSound == ClaimsOfItsToken(stored) /\ \A t \in Tabs : TabSound(t)

\* A step of one tab leaves what the other tabs keep to themselves.
LEMMA OtherTabsKept ==
  ASSUME TypeOK, NEW t \in Tabs, NEW v \in Tabs, v # t,
         User(t) \/ Answer(t) \/ Receive(t)
  PROVE  /\ session'[v] = session[v] /\ view'[v] = view[v]
         /\ auth'[v] = auth[v] /\ api'[v] = api[v]
<1> USE DEF TypeOK, SetSession, Show, SetAuth, SetApi
<1>1. CASE User(t)
  BY <1>1 DEF User, Open, Navigate, Login, Call, Logout, Close
<1>2. CASE Answer(t)
  <2>1. CASE AnswerLogin(t) \/ AnswerRestore(t) \/ FailAuth(t)
    <3>1. \E a : auth' = [auth EXCEPT ![t] = a]
      BY <2>1 DEF AnswerLogin, AnswerRestore, FailAuth
    <3> QED
      BY <2>1, <3>1 DEF AnswerLogin, AnswerRestore, FailAuth
  <2>2. CASE AnswerCall(t)
    BY <2>2 DEF AnswerCall
  <2> QED
    BY <1>2, <2>1, <2>2 DEF Answer
<1>3. CASE Receive(t)
  BY <1>3 DEF Receive, ReceiveRestored, ReceiveLogin, RefuseRestore, RefuseLogin, ReceiveCall
<1> QED
  BY <1>1, <1>2, <1>3

LEMMA TabKeptIsSound ==
  ASSUME NEW v \in Tabs, TabSound(v),
         session'[v] = session[v], view'[v] = view[v], auth'[v] = auth[v]
  PROVE  TabSound(v)'
BY DEF TabSound, InAuth

LEMMA UserSound ==
  ASSUME Typed, SessionsSound, NEW t \in Tabs, User(t)
  PROVE  TabSound(t)' /\ ClaimsOfItsToken(stored)'
<1> USE DEF Typed, TypeOK, SetSession, Show, SetAuth, SetApi
<1>0. TabSound(t) /\ ClaimsOfItsToken(stored)
  BY DEF SessionsSound
<1>1. ASSUME NEW page \in {"work", "audit"}, Open(t, page)
      PROVE  TabSound(t)' /\ ClaimsOfItsToken(stored)'
  <2>1. /\ session'[t] = stored /\ stored' = stored
        /\ view'[t] = Guarded(stored, page)
    BY <1>1 DEF Open
  <2>2. FitsPage(stored, Guarded(stored, page))
    BY GuardedPage DEF FitsPage
  <2>3. CASE stored = None
    <3>1. auth'[t] = None
      BY <1>1, <2>3 DEF Open
    <3> QED
      BY <1>0, <2>1, <2>2, <3>1 DEF TabSound, InAuth, ClaimsOfItsToken
  <2>4. CASE stored # None
    <3>1. auth'[t] = [kind |-> "restore", token |-> stored.token, cached |-> stored]
      BY <1>1, <2>4 DEF Open, StoredToken
    <3> QED
      BY <1>0, <2>1, <2>2, <3>1 DEF TabSound, InAuth, ClaimsOfItsToken
  <2> QED
    BY <2>3, <2>4
<1>2. ASSUME NEW page \in {"work", "audit"}, Navigate(t, page)
      PROVE  TabSound(t)' /\ ClaimsOfItsToken(stored)'
  <2>1. FitsPage(session[t], Guarded(session[t], page))
    BY GuardedPage DEF FitsPage
  <2> QED
    BY <1>0, <1>2, <2>1 DEF Navigate, TabSound, InAuth
<1>3. ASSUME NEW u \in Users, Login(t, u)
      PROVE  TabSound(t)' /\ ClaimsOfItsToken(stored)'
  BY <1>0, <1>3 DEF Login, TabSound, InAuth
<1>4. ASSUME NEW route \in PageRoutes, Call(t, route)
      PROVE  TabSound(t)' /\ ClaimsOfItsToken(stored)'
  BY <1>0, <1>4, TabKeptIsSound DEF Call
<1>5. CASE Logout(t)
  BY <1>0, <1>5 DEF Logout, Loading, TabSound, InAuth, ClaimsOfItsToken, FitsPage
<1>6. CASE Close(t)
  BY <1>0, <1>6 DEF Close, TabSound, InAuth, ClaimsOfItsToken, FitsPage
<1> QED
  BY <1>1, <1>2, <1>3, <1>4, <1>5, <1>6 DEF User

LEMMA AnswerSound ==
  ASSUME Typed, SessionsSound, NEW t \in Tabs, Answer(t)
  PROVE  TabSound(t)' /\ ClaimsOfItsToken(stored)'
<1> USE DEF Typed, TypeOK, SetAuth, SetApi
<1>0. TabSound(t) /\ ClaimsOfItsToken(stored)
  BY DEF SessionsSound
<1>u. ASSUME NEW kind \in {"unauthorized", "failed"}, SetAuth(t, [kind |-> kind]),
             UNCHANGED <<stored, session, view>>
      PROVE  TabSound(t)' /\ ClaimsOfItsToken(stored)'
  BY <1>0, <1>u DEF TabSound, InAuth
<1>1. CASE AnswerLogin(t)
  <2> DEFINE u == auth[t].user
             next == [token |-> Issue(u), user |-> u, role |-> Issue(u).role]
  <2>1. ClaimsOfItsToken(next)
    BY DEF ClaimsOfItsToken, Issue
  <2>2. \/ SetAuth(t, [kind |-> "granted", next |-> next])
        \/ SetAuth(t, [kind |-> "unauthorized"])
    BY <1>1 DEF AnswerLogin
  <2> HIDE DEF next
  <2>3. CASE SetAuth(t, [kind |-> "granted", next |-> next])
    BY <1>0, <1>1, <2>1, <2>3 DEF AnswerLogin, TabSound, InAuth
  <2> QED
    BY <1>1, <1>u, <2>2, <2>3 DEF AnswerLogin
<1>2. CASE AnswerRestore(t)
  <2> DEFINE live == [kind |-> "live", cached |-> auth[t].cached,
                      user |-> auth[t].token.user, role |-> auth[t].token.role]
  <2>1. auth[t] \in [kind: {"restore"}, token: Token, cached: Session] /\ InAuth(t, {"restore"})
    BY <1>2 DEF AnswerRestore, InAuth, AuthCall
  <2>2. session[t] # None /\ auth[t].cached = session[t] /\ auth[t].token = session[t].token
    BY <1>0, <2>1 DEF TabSound
  <2>3. /\ live.cached = session[t]
        /\ live.user = session[t].user /\ live.role = session[t].role /\ live.kind = "live"
    BY <1>0, <2>2 DEF TabSound, ClaimsOfItsToken
  <2>4. SetAuth(t, live) \/ SetAuth(t, [kind |-> "unauthorized"])
    BY <1>2 DEF AnswerRestore
  <2> HIDE DEF live
  <2>5. CASE SetAuth(t, live)
    BY <1>0, <1>2, <2>3, <2>5 DEF AnswerRestore, TabSound, InAuth
  <2> QED
    BY <1>2, <1>u, <2>4, <2>5 DEF AnswerRestore
<1>3. CASE FailAuth(t)
  BY <1>3, <1>u DEF FailAuth
<1>4. CASE AnswerCall(t)
  BY <1>0, <1>4, TabKeptIsSound DEF AnswerCall
<1> QED
  BY <1>1, <1>2, <1>3, <1>4 DEF Answer

LEMMA ReceiveSound ==
  ASSUME Typed, SessionsSound, NEW t \in Tabs, Receive(t)
  PROVE  TabSound(t)' /\ ClaimsOfItsToken(stored)'
<1> USE DEF Typed, TypeOK, SetSession, Show, SetAuth, SetApi
<1>0. TabSound(t) /\ ClaimsOfItsToken(stored)
  BY DEF SessionsSound
<1>1. CASE ReceiveRestored(t)
  <2>1. auth[t] \in [kind: {"live"}, cached: Session, user: Users, role: Roles] /\ InAuth(t, {"live"})
    BY <1>1 DEF ReceiveRestored, InAuth, AuthCall
  <2>2. /\ auth[t].cached = session[t] /\ session[t] \in Session
        /\ auth[t].user = session[t].user /\ auth[t].role = session[t].role
    BY <1>0, <2>1 DEF TabSound
  <2>3. Restored(t) = session[t]
    BY <2>2 DEF Restored, Session
  <2> QED
    BY <1>0, <1>1, <2>3 DEF ReceiveRestored, TabSound, InAuth
<1>2. CASE ReceiveLogin(t)
  <2>1. auth[t] \in [kind: {"granted"}, next: Session] /\ InAuth(t, {"granted"})
    BY <1>2 DEF ReceiveLogin, InAuth, AuthCall
  <2>2. ClaimsOfItsToken(auth[t].next) /\ auth[t].next # None
    BY <1>0, <2>1 DEF TabSound
  <2> QED
    BY <1>2, <2>2 DEF ReceiveLogin, TabSound, InAuth, FitsPage
<1>3. CASE RefuseRestore(t)
  BY <1>0, <1>3 DEF RefuseRestore, TabSound, InAuth, FitsPage, ClaimsOfItsToken
<1>4. CASE RefuseLogin(t)
  BY <1>0, <1>4 DEF RefuseLogin, TabSound, InAuth, ClaimsOfItsToken
<1>5. CASE ReceiveCall(t)
  BY <1>0, <1>5, TabKeptIsSound DEF ReceiveCall, ClaimsOfItsToken
<1> QED
  BY <1>1, <1>2, <1>3, <1>4, <1>5 DEF Receive

LEMMA NextSound == Typed /\ SessionsSound /\ [Next]_vars => SessionsSound'
<1> SUFFICES ASSUME Typed, SessionsSound, [Next]_vars PROVE SessionsSound'
  OBVIOUS
<1>1. ASSUME NEW t \in Tabs, User(t) \/ Answer(t) \/ Receive(t) PROVE SessionsSound'
  <2>1. TabSound(t)' /\ ClaimsOfItsToken(stored)'
    BY <1>1, UserSound, AnswerSound, ReceiveSound
  <2>2. ASSUME NEW v \in Tabs, v # t PROVE TabSound(v)'
    BY <1>1, <2>2, OtherTabsKept, TabKeptIsSound DEF SessionsSound, Typed
  <2> QED
    BY <2>1, <2>2 DEF SessionsSound
<1>2. CASE Operator \/ UNCHANGED vars
  BY <1>2, TabKeptIsSound DEF Operator, clientVars, vars, SessionsSound
<1> QED
  BY <1>1, <1>2 DEF Next

LEMMA InitSound == Init => SessionsSound
BY DEF Init, SessionsSound, TabSound, InAuth, FitsPage, ClaimsOfItsToken

LEMMA AlwaysSound == Spec => [](Typed /\ SessionsSound)
<1>1. Init => Typed /\ SessionsSound
  BY InitTyped, InitSound
<1>2. Typed /\ SessionsSound /\ [Next]_vars => (Typed /\ SessionsSound)'
  BY NextTyped, NextSound
<1> QED
  BY <1>1, <1>2, PTL DEF Spec

\* Whatever tabs restore, log in and log out at the same time, a session
\* names the user and the role of its token.
THEOREM SessionsAreTheirTokens == Spec => []SessionsMatchTheirTokens
<1>1. Typed /\ SessionsSound => SessionsMatchTheirTokens
  BY DEF SessionsSound, TabSound, SessionsMatchTheirTokens
<1> QED
  BY <1>1, AlwaysSound, PTL

\* The page of a tab fits its session.
THEOREM PagesFitSessions == Spec => []PagesMatchTheSession
<1>1. Typed /\ SessionsSound => PagesMatchTheSession
  BY DEF SessionsSound, TabSound, FitsPage, PagesMatchTheSession
<1> QED
  BY <1>1, AlwaysSound, PTL

\* What a tab shows the buttons for, the server permits with its token.
THEOREM ButtonsArePermitted == Spec => OwnCallsPermitted
<1>1. ASSUME Typed, SessionsSound, NEW t \in Tabs, NEW route \in PageRoutes, Call(t, route),
             StoredToken = session[t].token
      PROVE  Permitted(session[t].token, MinimumRole[route])
  <2>1. TabSound(t) /\ view[t] \in {"work", "audit"}
    BY <1>1 DEF SessionsSound, Call
  <2>2. session[t] # None /\ session[t].role = session[t].token.role
    BY <2>1 DEF TabSound, FitsPage, ClaimsOfItsToken
  <2>3. HasMinimumRole(session[t], MinimumRole[route])
    <3>1. CASE view[t] = "audit"
      BY <1>1, <2>1, <3>1 DEF Call, TabSound, FitsPage, MinimumRole
    <3>2. CASE view[t] # "audit"
      BY <1>1, <3>2 DEF Call
    <3> QED
      BY <3>1, <3>2
  <2> QED
    BY <2>2, <2>3 DEF HasMinimumRole, Permitted
<1>2. Typed /\ SessionsSound /\ [Next]_vars
        => [\A t \in Tabs, route \in PageRoutes :
              Call(t, route) /\ StoredToken = session[t].token
                => Permitted(session[t].token, MinimumRole[route])]_vars
  BY <1>1
<1> QED
  BY <1>2, AlwaysSound, PTL DEF Spec, OwnCallsPermitted

-----------------------------------------------------------------------------
(* Tokens and the roles that users held.                                   *)

\* lastHeld is never ahead of the clock, and up to it for a role held now.
HistoryUpToDate ==
  \A u \in Users : \A r \in Roles :
    /\ lastHeld[u][r] <= now + 1
    /\ accounts[u] = [active |-> TRUE, role |-> r] => lastHeld[u][r] = now + 1

\* A token expires within Ttl of a moment at which its user held its role.
BackedBy(history, token) ==
  /\ history[token.user][token.role] > 0
  /\ token.expires + 1 <= history[token.user][token.role] + Ttl

Backed(token) == BackedBy(lastHeld, token)

TabBacked(t) ==
  /\ session[t] # None => Backed(session[t].token)
  /\ InAuth(t, {"granted"}) => Backed(auth[t].next.token)
  /\ InApi(t, {"request"}) /\ api[t].token # None => Backed(api[t].token)

TokensBacked ==
  /\ HistoryUpToDate
  /\ stored # None => Backed(stored.token)
  /\ \A t \in Tabs : TabBacked(t)

\* The history only grows.
LEMMA HistoryGrows ==
  ASSUME Typed, HistoryUpToDate, Operator
  PROVE  /\ HistoryUpToDate'
         /\ \A u \in Users : \A r \in Roles : lastHeld'[u][r] >= lastHeld[u][r]
<1> USE DEF Typed, AccessTypeOK, HistoryUpToDate
<1>1. CASE Tick
  BY <1>1 DEF Tick, Held
<1>2. ASSUME NEW u \in Users, ChangeAccount(u)
      PROVE  /\ HistoryUpToDate'
             /\ \A x \in Users : \A r \in Roles : lastHeld'[x][r] >= lastHeld[x][r]
  BY <1>2 DEF ChangeAccount, Held
<1> QED
  BY <1>1, <1>2 DEF Operator

LEMMA BackedStays ==
  ASSUME Typed, NEW token \in Token, Backed(token),
         \A u \in Users : \A r \in Roles :
           lastHeld'[u][r] >= lastHeld[u][r] /\ lastHeld'[u][r] \in Nat
  PROVE  BackedBy(lastHeld', token)
BY AccessAssumption DEF Typed, AccessTypeOK, Token, Backed, BackedBy

\* A login issues a token for a role that its user holds at that moment.
LEMMA IssuedIsBacked ==
  ASSUME Typed, HistoryUpToDate, NEW u \in Users, MayLogIn(u)
  PROVE  Backed(Issue(u))
<1>1. accounts[u] = [active |-> TRUE, role |-> accounts[u].role] /\ accounts[u].role \in Roles
  BY DEF Typed, AccessTypeOK, Account, MayLogIn
<1>2. lastHeld[u][accounts[u].role] = now + 1 /\ now \in Nat
  BY <1>1 DEF HistoryUpToDate, Typed, AccessTypeOK
<1> QED
  BY <1>2, AccessAssumption DEF Backed, BackedBy, Issue

LEMMA OperatorBacked ==
  ASSUME Typed, TokensBacked, Operator
  PROVE  TokensBacked'
<1>1. /\ HistoryUpToDate'
      /\ \A u \in Users : \A r \in Roles :
           lastHeld'[u][r] >= lastHeld[u][r] /\ lastHeld'[u][r] \in Nat
  BY HistoryGrows, OperatorTyped DEF TokensBacked, Typed, AccessTypeOK
<1>2. /\ stored' = stored /\ session' = session /\ auth' = auth /\ api' = api
  BY DEF Operator, clientVars
<1>3. stored # None => BackedBy(lastHeld', stored.token)
  <2>1. stored # None => stored.token \in Token
    BY DEF Typed, TypeOK, Session
  <2> QED
    BY <1>1, <2>1, BackedStays DEF TokensBacked
<1>4. ASSUME NEW t \in Tabs PROVE TabBacked(t)'
  <2>1. session[t] # None => session[t].token \in Token
    BY DEF Typed, TypeOK, Session
  <2>2. InAuth(t, {"granted"}) => auth[t].next.token \in Token
    BY DEF Typed, TypeOK, InAuth, AuthCall, Session
  <2>3. InApi(t, {"request"}) /\ api[t].token # None => api[t].token \in Token
    BY DEF Typed, TypeOK, InApi, ApiCall
  <2>4. TabBacked(t)
    BY DEF TokensBacked
  <2>5. session[t] # None => BackedBy(lastHeld', session[t].token)
    BY <1>1, <2>1, <2>4, BackedStays DEF TabBacked
  <2>6. InAuth(t, {"granted"}) => BackedBy(lastHeld', auth[t].next.token)
    BY <1>1, <2>2, <2>4, BackedStays DEF TabBacked
  <2>7. InApi(t, {"request"}) /\ api[t].token # None => BackedBy(lastHeld', api[t].token)
    BY <1>1, <2>3, <2>4, BackedStays DEF TabBacked
  <2> QED
    BY <1>2, <2>5, <2>6, <2>7 DEF TabBacked, InAuth, InApi, Backed
<1> QED
  BY <1>1, <1>2, <1>3, <1>4 DEF TokensBacked, Backed

\* A step of a tab leaves the accounts, the clock and the history alone.
LEMMA TabsLeaveAccounts ==
  ASSUME NEW t \in Tabs, User(t) \/ Answer(t) \/ Receive(t)
  PROVE  UNCHANGED accessVars
<1>1. CASE User(t)
  BY <1>1 DEF User, Open, Navigate, Login, Call, Logout, Close
<1>2. CASE Answer(t)
  BY <1>2 DEF Answer, AnswerLogin, AnswerRestore, FailAuth, AnswerCall
<1>3. CASE Receive(t)
  BY <1>3 DEF Receive, ReceiveRestored, ReceiveLogin, RefuseRestore, RefuseLogin, ReceiveCall
<1> QED
  BY <1>1, <1>2, <1>3

LEMMA UserBacked ==
  ASSUME Typed, TokensBacked, NEW t \in Tabs, User(t), UNCHANGED accessVars
  PROVE  TabBacked(t)' /\ (stored # None => Backed(stored.token))'
<1> USE DEF Typed, TypeOK, SetSession, Show, SetAuth, SetApi, accessVars
<1>0. TabBacked(t) /\ (stored # None => Backed(stored.token))
  BY DEF TokensBacked
<1> USE DEF TabBacked, Backed, InAuth, InApi
<1>1. ASSUME NEW page \in {"work", "audit"}, Open(t, page) PROVE TabBacked(t)' /\ stored' = stored
  <2>1. session'[t] = stored /\ stored' = stored /\ api'[t] = api[t]
    BY <1>1 DEF Open
  <2>2. ~InAuth(t, {"granted"})'
    BY <1>1 DEF Open
  <2> QED
    BY <1>0, <2>1, <2>2
<1>2. ASSUME NEW page \in {"work", "audit"}, Navigate(t, page) PROVE TabBacked(t)' /\ stored' = stored
  BY <1>0, <1>2 DEF Navigate
<1>3. ASSUME NEW u \in Users, Login(t, u) PROVE TabBacked(t)' /\ stored' = stored
  BY <1>0, <1>3 DEF Login
<1>4. ASSUME NEW route \in PageRoutes, Call(t, route) PROVE TabBacked(t)' /\ stored' = stored
  <2>1. /\ api'[t].token = StoredToken
        /\ session'[t] = session[t] /\ auth'[t] = auth[t] /\ stored' = stored
    BY <1>4 DEF Call
  <2> QED
    BY <1>0, <2>1 DEF StoredToken
<1>5. CASE Logout(t)
  BY <1>0, <1>5 DEF Logout
<1>6. CASE Close(t)
  BY <1>0, <1>6 DEF Close
<1> QED
  BY <1>0, <1>1, <1>2, <1>3, <1>4, <1>5, <1>6 DEF User

LEMMA AnswerBacked ==
  ASSUME Typed, TokensBacked, NEW t \in Tabs, Answer(t), UNCHANGED accessVars
  PROVE  TabBacked(t)' /\ (stored # None => Backed(stored.token))'
<1> USE DEF Typed, TypeOK, SetAuth, SetApi, accessVars
<1>0. TabBacked(t) /\ (stored # None => Backed(stored.token))
  BY DEF TokensBacked
<1>1. CASE AnswerLogin(t)
  <2> DEFINE u == auth[t].user
             next == [token |-> Issue(u), user |-> u, role |-> Issue(u).role]
  <2>1. auth[t] \in [kind: {"login"}, user: Users]
    BY <1>1 DEF AnswerLogin, InAuth, AuthCall
  <2>2. \/ MayLogIn(u) /\ SetAuth(t, [kind |-> "granted", next |-> next])
        \/ SetAuth(t, [kind |-> "unauthorized"])
    BY <1>1 DEF AnswerLogin
  <2>3. MayLogIn(u) => Backed(next.token)
    BY <2>1, IssuedIsBacked DEF TokensBacked
  <2> HIDE DEF next
  <2>4. session' = session /\ api' = api /\ stored' = stored
    BY <1>1 DEF AnswerLogin
  <2>5. InAuth(t, {"granted"})' => Backed(auth'[t].next.token)
    BY <2>2, <2>3 DEF InAuth
  <2> QED
    BY <1>0, <2>4, <2>5 DEF TabBacked, Backed, InAuth, InApi
<1>2. CASE AnswerRestore(t) \/ FailAuth(t)
  <2>1. session' = session /\ api' = api /\ stored' = stored
    BY <1>2 DEF AnswerRestore, FailAuth
  <2>2. ~InAuth(t, {"granted"})'
    BY <1>2 DEF AnswerRestore, FailAuth, InAuth
  <2> QED
    BY <1>0, <2>1, <2>2 DEF TabBacked, Backed, InAuth, InApi
<1>3. CASE AnswerCall(t)
  <2>1. ~InApi(t, {"request"})'
    BY <1>3 DEF AnswerCall, Verdict, InApi
  <2> QED
    BY <1>0, <1>3, <2>1 DEF AnswerCall, TabBacked, Backed, InAuth, InApi
<1> QED
  BY <1>1, <1>2, <1>3 DEF Answer

LEMMA ReceiveBacked ==
  ASSUME Typed, SessionsSound, TokensBacked, NEW t \in Tabs, Receive(t), UNCHANGED accessVars
  PROVE  TabBacked(t)' /\ (stored # None => Backed(stored.token))'
<1> USE DEF Typed, TypeOK, SetSession, Show, SetAuth, SetApi, accessVars
<1>0. TabBacked(t) /\ (stored # None => Backed(stored.token))
  BY DEF TokensBacked
<1>1. CASE ReceiveRestored(t)
  <2>1. auth[t] \in [kind: {"live"}, cached: Session, user: Users, role: Roles] /\ InAuth(t, {"live"})
    BY <1>1 DEF ReceiveRestored, InAuth, AuthCall
  <2>2. auth[t].cached = session[t] /\ session[t] \in Session
    BY <2>1 DEF SessionsSound, TabSound
  <2>3. Restored(t).token = session[t].token
    BY <2>2 DEF Restored, Session
  <2> QED
    BY <1>0, <1>1, <2>2, <2>3 DEF ReceiveRestored, TabBacked, Backed, InAuth, InApi
<1>2. CASE ReceiveLogin(t)
  <2>1. InAuth(t, {"granted"})
    BY <1>2 DEF ReceiveLogin
  <2> QED
    BY <1>0, <1>2, <2>1 DEF ReceiveLogin, TabBacked, Backed, InAuth, InApi
<1>3. CASE RefuseRestore(t)
  BY <1>0, <1>3 DEF RefuseRestore, TabBacked, Backed, InAuth, InApi
<1>4. CASE RefuseLogin(t)
  BY <1>0, <1>4 DEF RefuseLogin, TabBacked, Backed, InAuth, InApi
<1>5. CASE ReceiveCall(t)
  BY <1>0, <1>5 DEF ReceiveCall, TabBacked, Backed, InAuth, InApi
<1> QED
  BY <1>1, <1>2, <1>3, <1>4, <1>5 DEF Receive

LEMMA NextBacked == Typed /\ SessionsSound /\ TokensBacked /\ [Next]_vars => TokensBacked'
<1> SUFFICES ASSUME Typed, SessionsSound, TokensBacked, [Next]_vars PROVE TokensBacked'
  OBVIOUS
<1>1. ASSUME NEW t \in Tabs, User(t) \/ Answer(t) \/ Receive(t) PROVE TokensBacked'
  <2>1. UNCHANGED accessVars
    BY <1>1, TabsLeaveAccounts
  <2>2. TabBacked(t)' /\ (stored # None => Backed(stored.token))'
    BY <1>1, <2>1, UserBacked, AnswerBacked, ReceiveBacked
  <2>3. ASSUME NEW v \in Tabs, v # t PROVE TabBacked(v)'
    BY <1>1, <2>1, <2>3, OtherTabsKept
    DEF TokensBacked, Typed, TabBacked, Backed, InAuth, InApi, accessVars
  <2> QED
    BY <2>1, <2>2, <2>3 DEF TokensBacked, HistoryUpToDate, accessVars
<1>2. CASE UNCHANGED vars
  BY <1>2 DEF vars, TokensBacked, HistoryUpToDate, TabBacked, Backed, InAuth, InApi
<1> QED
  BY <1>1, <1>2, OperatorBacked DEF Next

LEMMA InitBacked == Init => TokensBacked
BY AccessAssumption
DEF Init, AccessInit, TokensBacked, HistoryUpToDate, TabBacked, InAuth, InApi

\* A page's call is served on a role that its user held within the last Ttl,
\* whatever operators do to the accounts and tabs to the stored session.
THEOREM ServedRolesAreRecent == Spec => ServedOnARecentRole
<1>1. ASSUME Typed, TokensBacked, [Next]_vars, NEW t \in Tabs,
             InApi(t, {"request"}), api'[t] = [kind |-> "served"]
      PROVE  LET token == api[t].token IN
             HeldRecently(token.user, token.role) /\ AtLeast(token.role, api[t].minimum)
  <2> DEFINE token == api[t].token
  <2>1. AnswerCall(t)
    <3>1. api[t] \in [kind: {"request"}, minimum: Roles, token: Token \union {None}]
      BY <1>1 DEF Typed, TypeOK, InApi, ApiCall
    <3>2. api'[t] # api[t] /\ api'[t] # None /\ api'[t].kind # "request"
      BY <1>1, <3>1 DEF ApiCall
    <3>3. PICK v \in Tabs : User(v) \/ Answer(v) \/ Receive(v)
      BY <1>1, <3>2 DEF Next, Operator, clientVars, vars
    <3>4. v = t
      BY <1>1, <3>2, <3>3, OtherTabsKept DEF Typed
    <3>5. ~User(t)
      <4>1. \A page : ~Open(t, page) /\ ~Navigate(t, page)
        BY <3>2 DEF Open, Navigate
      <4>2. \A u : ~Login(t, u)
        BY <3>2 DEF Login
      <4>3. \A route : ~Call(t, route)
        BY <1>1 DEF Call, InApi
      <4>4. ~Logout(t) /\ ~Close(t)
        BY <1>1, <3>2 DEF Logout, Close, SetApi, Typed, TypeOK
      <4> QED
        BY <4>1, <4>2, <4>3, <4>4 DEF User
    <3>6. ~Receive(t)
      <4>1. ~ReceiveCall(t)
        BY <3>1 DEF ReceiveCall, InApi
      <4>2. api' = api \/ ReceiveCall(t) \/ ~Receive(t)
        BY DEF Receive, ReceiveRestored, ReceiveLogin, RefuseRestore, RefuseLogin
      <4> QED
        BY <3>2, <4>1, <4>2
    <3>7. ~AnswerLogin(t) /\ ~AnswerRestore(t) /\ ~FailAuth(t)
      BY <3>2 DEF AnswerLogin, AnswerRestore, FailAuth
    <3> QED
      BY <3>3, <3>4, <3>5, <3>6, <3>7 DEF Answer
  <2>2. Verdict(token, api[t].minimum) = "served"
    BY <1>1, <2>1 DEF AnswerCall, SetApi, Typed, TypeOK
  <2>3. Authentic(token) /\ Permitted(token, api[t].minimum)
    BY <2>2 DEF Verdict
  <2>4. token \in Token /\ now < token.expires
    BY <2>3 DEF Authentic
  <2>5. Backed(token)
    BY <1>1, <2>4 DEF TokensBacked, TabBacked
  <2>6. /\ lastHeld[token.user][token.role] \in Nat
        /\ now \in Nat /\ token.expires \in Nat /\ Ttl \in Nat
    BY <1>1, <2>4, AccessAssumption DEF Typed, AccessTypeOK, Token
  <2>7. HeldRecently(token.user, token.role)
    BY <2>4, <2>5, <2>6 DEF Backed, BackedBy, HeldRecently
  <2> QED
    BY <2>3, <2>7 DEF Permitted
<1>2. Typed /\ TokensBacked /\ [Next]_vars
        => [\A t \in Tabs :
              InApi(t, {"request"}) /\ api'[t] = [kind |-> "served"] =>
                LET token == api[t].token IN
                /\ HeldRecently(token.user, token.role)
                /\ AtLeast(token.role, api[t].minimum)]_vars
  BY <1>1
<1>3. Spec => []TokensBacked
  BY InitBacked, NextBacked, AlwaysSound, PTL DEF Spec
<1> QED
  BY <1>2, <1>3, AlwaysSound, PTL DEF Spec, ServedOnARecentRole
=============================================================================
