--------------------------- MODULE ClientSession ---------------------------
(***************************************************************************)
(* The session of the browser (hooks/use-auth.ts, api/client.ts, the route *)
(* guards and app.component.ts) against AccessControl.  The session is     *)
(* kept twice: in localStorage, which all tabs share and from which each   *)
(* request takes its token, and in a signal of each tab, from which guards,*)
(* navigation and buttons take the role.                                   *)
(*                                                                         *)
(* Requests are answered late and in any order.  A tab has at most one     *)
(* login or restore under way (auth: a loading overlay hides everything    *)
(* else meanwhile), and one call of a page (api), which may outlast a      *)
(* logout and the next login.                                              *)
(***************************************************************************)
EXTENDS AccessControl

CONSTANTS
  Tabs,
  PageRoutes,  \* routes that the pages call: a sample of Routes
  None         \* no session, no token, no request

ASSUME ClientAssumption == PageRoutes \subseteq Routes /\ None \notin Token

VARIABLES
  stored,   \* the session in localStorage
  session,  \* AuthService.session of each tab
  view,     \* the page a tab shows: "closed", "login", "work" or "audit"
  auth,     \* the login or restore of a tab, loading as long as there is one
  api       \* the page's call of a tab

clientVars == <<stored, session, view, auth, api>>
vars == <<accounts, now, lastHeld, stored, session, view, auth, api>>

Session == [token: Token, user: Users, role: Roles]

Init ==
  /\ AccessInit
  /\ stored = None
  /\ session = [t \in Tabs |-> None]
  /\ view = [t \in Tabs |-> "closed"]
  /\ auth = [t \in Tabs |-> None]
  /\ api = [t \in Tabs |-> None]

SetSession(t, s) == session' = [session EXCEPT ![t] = s]
Show(t, page) == view' = [view EXCEPT ![t] = page]
SetAuth(t, call) == auth' = [auth EXCEPT ![t] = call]
SetApi(t, call) == api' = [api EXCEPT ![t] = call]

InAuth(t, kinds) == auth[t] # None /\ auth[t].kind \in kinds
InApi(t, kinds) == api[t] # None /\ api[t].kind \in kinds
Loading(t) == auth[t] # None

\* getToken.
StoredToken == IF stored = None THEN None ELSE stored.token

\* hasMinimumRole.
HasMinimumRole(s, minimum) == s # None /\ AtLeast(s.role, minimum)

\* Mutant: the guard asks for a session only.
GuardedByLogin(s, page) == IF s = None THEN "login" ELSE page

\* authGuard and reviewerGuard: where a tab with this session ends up that
\* asks for a page.
Guarded(s, page) ==
  IF s = None THEN "login"
  ELSE IF page = "audit" /\ ~HasMinimumRole(s, "reviewer") THEN "work" ELSE page

-----------------------------------------------------------------------------
(* What the user does.                                                     *)

\* A tab is opened, or loaded again: the signal takes the stored session,
\* and restore() asks the server for it.
Open(t, page) ==
  /\ view[t] = "closed"
  /\ SetSession(t, stored)
  /\ Show(t, Guarded(stored, page))
  /\ SetAuth(t, IF stored = None THEN None
                ELSE [kind |-> "restore", token |-> StoredToken, cached |-> stored])
  /\ UNCHANGED <<accessVars, stored, api>>

\* Closing a tab drops what it waits for.
Close(t) ==
  /\ view[t] # "closed"
  /\ Show(t, "closed")
  /\ SetSession(t, None)
  /\ SetAuth(t, None)
  /\ SetApi(t, None)
  /\ UNCHANGED <<accessVars, stored>>

Login(t, u) ==
  /\ view[t] = "login"
  /\ ~Loading(t)
  /\ SetAuth(t, [kind |-> "login", user |-> u])
  /\ UNCHANGED <<accessVars, stored, session, view, api>>

\* A call of the page that is still out is not cancelled.
Logout(t) ==
  /\ view[t] \in {"work", "audit"}
  /\ ~Loading(t)
  /\ stored' = None
  /\ SetSession(t, None)
  /\ Show(t, "login")
  /\ UNCHANGED <<accessVars, auth, api>>

\* The navigation, guarded.
Navigate(t, page) ==
  /\ view[t] \in {"work", "audit"}
  /\ ~Loading(t)
  /\ view[t] # page
  /\ Show(t, Guarded(session[t], page))
  /\ UNCHANGED <<accessVars, stored, session, auth, api>>

\* A page asks for its data, or a button is used that the role of the
\* signal lets it show.  Of the route, the request keeps the least role.
Call(t, route) ==
  /\ view[t] \in {"work", "audit"}
  /\ ~Loading(t)
  /\ api[t] = None
  /\ IF view[t] = "audit" THEN route = "audits"
     ELSE route # "audits" /\ HasMinimumRole(session[t], MinimumRole[route])
  /\ SetApi(t, [kind |-> "request", minimum |-> MinimumRole[route], token |-> StoredToken])
  /\ UNCHANGED <<accessVars, stored, session, view, auth>>

-----------------------------------------------------------------------------
(* What the server answers.                                                *)

\* A wrong password is refused like an inactive account.
AnswerLogin(t) ==
  /\ InAuth(t, {"login"})
  /\ LET u == auth[t].user  token == Issue(u) IN
     \/ /\ MayLogIn(u)
        /\ SetAuth(t, [kind |-> "granted",
                       next |-> [token |-> token, user |-> u, role |-> token.role]])
     \/ SetAuth(t, [kind |-> "unauthorized"])
  /\ UNCHANGED <<accessVars, stored, session, view, api>>

\* GET /session answers with the claims of the token.
AnswerRestore(t) ==
  /\ InAuth(t, {"restore"})
  /\ LET token == auth[t].token IN
     IF Verdict(token, MinimumRole["session"]) = "served"
     THEN SetAuth(t, [kind |-> "live", cached |-> auth[t].cached,
                      user |-> token.user, role |-> token.role])
     ELSE SetAuth(t, [kind |-> "unauthorized"])
  /\ UNCHANGED <<accessVars, stored, session, view, api>>

\* A network error, a timeout of the proxy, 429 or 500.
FailAuth(t) ==
  /\ InAuth(t, {"login", "restore"})
  /\ SetAuth(t, [kind |-> "failed"])
  /\ UNCHANGED <<accessVars, stored, session, view, api>>

\* 403 and the errors of the limiter and the services are alike to the client.
AnswerCall(t) ==
  /\ InApi(t, {"request"})
  /\ LET verdict == Verdict(api[t].token, api[t].minimum) IN
     \E kind \in {verdict, "failed"} \ {"forbidden"} : SetApi(t, [kind |-> kind])
  /\ UNCHANGED <<accessVars, stored, session, view, auth>>

-----------------------------------------------------------------------------
(* What the tab makes of the answers.                                      *)

\* Mutant: the rest of the session is what is stored by now.
RestoredFromStorage(t) ==
  IF stored = None THEN [auth[t].cached EXCEPT !.user = auth[t].user, !.role = auth[t].role]
  ELSE [stored EXCEPT !.user = auth[t].user, !.role = auth[t].role]

\* Mutant: the answer alone becomes the session.
RestoredWithoutToken(t) == [user |-> auth[t].user, role |-> auth[t].role]

\* { ...cached, ...live }.
Restored(t) == [auth[t].cached EXCEPT !.user = auth[t].user, !.role = auth[t].role]

ReceiveRestored(t) ==
  /\ InAuth(t, {"live"})
  /\ stored' = Restored(t)
  /\ SetSession(t, Restored(t))
  /\ SetAuth(t, None)
  /\ UNCHANGED <<accessVars, view, api>>

ReceiveLogin(t) ==
  /\ InAuth(t, {"granted"})
  /\ stored' = auth[t].next
  /\ SetSession(t, auth[t].next)
  /\ Show(t, "work")
  /\ SetAuth(t, None)
  /\ UNCHANGED <<accessVars, api>>

\* Mutant: the page stays where it is.
RefuseRestoreStaying(t) ==
  /\ InAuth(t, {"unauthorized", "failed"})
  /\ view[t] # "login"
  /\ stored' = None
  /\ SetSession(t, None)
  /\ SetAuth(t, None)
  /\ UNCHANGED <<accessVars, view, api>>

\* Mutant: only an answered refusal ends the loading.
RefuseRestoreAnswered(t) ==
  /\ InAuth(t, {"unauthorized"})
  /\ view[t] # "login"
  /\ stored' = None
  /\ SetSession(t, None)
  /\ Show(t, "login")
  /\ SetAuth(t, None)
  /\ UNCHANGED <<accessVars, api>>

\* Whatever keeps restore() from its answer logs out, and the application
\* moves to the login page.
RefuseRestore(t) ==
  /\ InAuth(t, {"unauthorized", "failed"})
  /\ view[t] # "login"
  /\ stored' = None
  /\ SetSession(t, None)
  /\ Show(t, "login")
  /\ SetAuth(t, None)
  /\ UNCHANGED <<accessVars, api>>

\* A refused login clears the stored session, another tab's too.
RefuseLogin(t) ==
  /\ InAuth(t, {"unauthorized", "failed"})
  /\ view[t] = "login"
  /\ stored' = IF auth[t].kind = "unauthorized" THEN None ELSE stored
  /\ SetAuth(t, None)
  /\ UNCHANGED <<accessVars, session, view, api>>

\* 401 clears the stored session, and the signal stays.
ReceiveCall(t) ==
  /\ InApi(t, {"served", "unauthorized", "failed"})
  /\ stored' = IF api[t].kind = "unauthorized" THEN None ELSE stored
  /\ SetApi(t, None)
  /\ UNCHANGED <<accessVars, session, view, auth>>

-----------------------------------------------------------------------------
User(t) ==
  \/ \E page \in {"work", "audit"} : Open(t, page) \/ Navigate(t, page)
  \/ \E u \in Users : Login(t, u)
  \/ \E route \in PageRoutes : Call(t, route)
  \/ Logout(t) \/ Close(t)

Answer(t) == AnswerLogin(t) \/ AnswerRestore(t) \/ FailAuth(t) \/ AnswerCall(t)

Receive(t) ==
  ReceiveRestored(t) \/ ReceiveLogin(t) \/ RefuseRestore(t) \/ RefuseLogin(t) \/ ReceiveCall(t)

Operator == (Tick \/ \E u \in Users : ChangeAccount(u)) /\ UNCHANGED clientVars

Next == Operator \/ \E t \in Tabs : User(t) \/ Answer(t) \/ Receive(t)

Spec == Init /\ [][Next]_vars

\* A request is answered or fails at last, and the tab takes the answer: it
\* runs the handler of one answer or another, as long as there is one.
FairSpec == Spec /\ \A t \in Tabs : WF_vars(Answer(t) \/ Receive(t))

-----------------------------------------------------------------------------
AuthCall ==
  [kind: {"login"}, user: Users]
  \union [kind: {"restore"}, token: Token, cached: Session]
  \union [kind: {"live"}, cached: Session, user: Users, role: Roles]
  \union [kind: {"granted"}, next: Session]
  \union [kind: {"unauthorized", "failed"}]

ApiCall ==
  [kind: {"request"}, minimum: Roles, token: Token \union {None}]
  \union [kind: {"served", "unauthorized", "failed"}]

TypeOK ==
  /\ stored \in Session \union {None}
  /\ session \in [Tabs -> Session \union {None}]
  /\ view \in [Tabs -> {"closed", "login", "work", "audit"}]
  /\ auth \in [Tabs -> AuthCall \union {None}]
  /\ api \in [Tabs -> ApiCall \union {None}]

ASSUME NoneAssumption == None \notin Session \union AuthCall \union ApiCall

\* The role and the name that the stored session and each tab's session
\* claim are those of its token, although a restore puts them together from
\* two sources and other tabs replace the stored session meanwhile.
ClaimsOfItsToken(s) == s # None => s.user = s.token.user /\ s.role = s.token.role
SessionsMatchTheirTokens ==
  ClaimsOfItsToken(stored) /\ \A t \in Tabs : ClaimsOfItsToken(session[t])

\* A tab that has finished loading shows the workbench only with a session,
\* the audit page only with a reviewer's, and the login page only without.
PagesMatchTheSession ==
  \A t \in Tabs : ~Loading(t) =>
    /\ view[t] \in {"work", "audit"} => session[t] # None
    /\ view[t] = "audit" => HasMinimumRole(session[t], "reviewer")
    /\ view[t] = "login" => session[t] = None

\* A page's call is served on a role that its user held within the last Ttl,
\* though accounts change and tokens stay with tabs and in storage.
ServedOnARecentRole ==
  [][\A t \in Tabs :
       InApi(t, {"request"}) /\ api'[t] = [kind |-> "served"] =>
         LET token == api[t].token IN
         /\ HeldRecently(token.user, token.role)
         /\ AtLeast(token.role, api[t].minimum)]_vars

\* Guards and buttons agree with the middleware: what a tab asks for with
\* the token of its own session, the routes permit, however the tab came by
\* that session and that page.
OwnCallsPermitted ==
  [][\A t \in Tabs, route \in PageRoutes :
       Call(t, route) /\ StoredToken = session[t].token
         => Permitted(session[t].token, MinimumRole[route])]_vars

\* The loading overlay of a tab does not stay.
LoadingEnds == \A t \in Tabs : Loading(t) ~> ~Loading(t)

\* The calls of a tab carry the token of the session that it shows.
CallsInStep ==
  [][\A t \in Tabs, route \in PageRoutes :
       Call(t, route) => StoredToken = session[t].token]_vars
=============================================================================
