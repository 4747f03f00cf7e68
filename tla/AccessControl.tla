--------------------------- MODULE AccessControl ---------------------------
(***************************************************************************)
(* The server's side of a session: accounts, the tokens that a login       *)
(* issues, and what a request with a token may do (service/security.go,    *)
(* middleware/auth.go, and the roles that the routes require).             *)
(*                                                                         *)
(* A token is self-contained: it carries the user and the role of the      *)
(* moment of the login, and the server looks at the account at no other    *)
(* time.  The program never changes an account; operators of the database  *)
(* do (the README asks them to remove the seeded ones).                    *)
(*                                                                         *)
(* Time passes in units much longer than a request takes.                  *)
(***************************************************************************)
EXTENDS Naturals

CONSTANTS
  Users,         \* user names
  SeedAccounts,  \* accounts that the database starts with
  AccountsOf,    \* accounts that an operator may give to each user
  Ttl,           \* TOKEN_TTL
  MaxTime        \* bound on the clock

VARIABLES
  accounts,  \* the users table
  now,       \* the clock
  lastHeld   \* history: 1 + the last time at which a user was active in a role

accessVars == <<accounts, now, lastHeld>>

roleRank == [viewer |-> 1, operator |-> 2, reviewer |-> 3, admin |-> 4]
Roles == DOMAIN roleRank
Account == [active: BOOLEAN, role: Roles]
Token == [user: Users, role: Roles, expires: Nat]

ASSUME AccessAssumption ==
  /\ AccountsOf \in [Users -> SUBSET Account]
  /\ SeedAccounts \in [Users -> Account]
  /\ Ttl \in Nat \ {0} /\ MaxTime \in Nat

\* The least role that a route asks for; session and list ask for any, and
\* the deletion of a record for the highest one (the pages do not call it).
MinimumRole ==
  [ session |-> "viewer", list |-> "viewer", create |-> "operator", update |-> "operator",
    submit |-> "operator", transition |-> "reviewer", audits |-> "reviewer", delete |-> "admin" ]

Routes == DOMAIN MinimumRole

AtLeast(role, minimum) == roleRank[role] >= roleRank[minimum]

\* history: roles that are held now are held until now.
Held(table, time) ==
  [u \in Users |-> [r \in Roles |->
     IF table[u] = [active |-> TRUE, role |-> r] THEN time + 1 ELSE lastHeld[u][r]]]

AccessInit ==
  /\ accounts = SeedAccounts
  /\ now = 0
  /\ lastHeld = [u \in Users |-> [r \in Roles |->
       IF SeedAccounts[u] = [active |-> TRUE, role |-> r] THEN 1 ELSE 0]]

-----------------------------------------------------------------------------
\* Mutant: the account is found whether it is active or not.
MayLogInInactive(u) == TRUE

\* FindUserByUsername filters on active.  Login tests it once more.
MayLogIn(u) == accounts[u].active

\* The claims of a new token.
Issue(u) == [user |-> u, role |-> accounts[u].role, expires |-> now + Ttl]

\* Mutant: the expiry claim is not looked at.
AuthenticAtAnyTime(token) == token \in Token

\* Authenticate: a token, signed (there are no others here), before its expiry.
Authentic(token) == token \in Token /\ now < token.expires

\* RequireMinimumRole, on the role that Authenticate took from the token.
Permitted(token, minimum) == AtLeast(token.role, minimum)

\* 200, 401 or 403: what the middleware makes of a request on a route that
\* asks for a least role.
Verdict(token, minimum) ==
  IF ~Authentic(token) THEN "unauthorized"
  ELSE IF ~Permitted(token, minimum) THEN "forbidden" ELSE "served"

-----------------------------------------------------------------------------
\* An operator of the database changes or deactivates an account.
ChangeAccount(u) ==
  /\ \E account \in AccountsOf[u] : accounts' = [accounts EXCEPT ![u] = account]
  /\ lastHeld' = Held(accounts', now)
  /\ UNCHANGED now

Tick ==
  /\ now < MaxTime
  /\ now' = now + 1
  /\ lastHeld' = Held(accounts, now')
  /\ UNCHANGED accounts

\* The user was active in the role within the last Ttl.
HeldRecently(u, role) == lastHeld[u][role] > 0 /\ lastHeld[u][role] - 1 + Ttl > now
=============================================================================
