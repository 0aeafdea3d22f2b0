------------------------------ MODULE Sessions ------------------------------
(* Accounts and refresh tokens: the handlers of AuthController over the      *)
(* users and refresh_tokens tables, one action per statement.  A statement   *)
(* is atomic, a handler is not, and none of them opens a transaction.        *)
EXTENDS Naturals

CONSTANTS
  Email, Browser,
  Request,                \* HTTP requests, each made once
  None,                   \* no request, email or browser
  NoToken,                \* no cookie, no token
  AccessTtl, RefreshTtl,  \* lifetimes of the two cookies, in seconds
  MaxTime                 \* bound on the clock

ASSUME SessionsAssumptions ==
  /\ None \notin Request
  /\ AccessTtl \in Nat \ {0}
  /\ RefreshTtl \in Nat \ {0}
  /\ MaxTime \in Nat
  /\ NoToken \notin [user : Request, iat : Nat]

VARIABLES
  clock,     \* the second that JWTs are stamped with
  users,     \* rows of users; an id is the request that created the row
  tokens,    \* rows of refresh_tokens, and the request that stored each
  jar,       \* the pair of cookies a browser holds
  request    \* progress and locals of the requests

sessionsVars == <<clock, users, tokens, jar, request>>

(* The claims that differ between two tokens.  The signature is              *)
(* deterministic and iat counts seconds, so two refresh tokens of one user   *)
(* and one second are the same string; its access token differs only in exp. *)
Jwt == [user : Request, iat : 0..MaxTime]

User == [id : Request, email : Email]

RefreshToken == [jwt : Jwt, revoked : BOOLEAN, by : Request]

MadeRequest(kind, b, e, t, at) ==
  [kind |-> kind, browser |-> b, email |-> e, token |-> t,
   user |-> None, signed |-> NoToken, issued |-> NoToken, at |-> at]

NewRequest == MadeRequest("none", None, None, NoToken, "unsent")

Running == {"findEmail", "createUser", "findUser", "findToken", "revoke",
            "issue", "store", "respond"}

Ended == {"done", "refused", "failed", "lost"}

RequestState ==
  [kind : {"none", "register", "login", "refresh", "logout"},
   browser : Browser \cup {None}, email : Email \cup {None},
   token : Jwt \cup {NoToken}, user : Request \cup {None},
   signed : Jwt \cup {NoToken}, issued : Jwt \cup {NoToken}, at : {"unsent"} \cup Running \cup Ended]

SessionsTypeOK ==
  /\ clock \in 0..MaxTime
  /\ users \in SUBSET User
  /\ tokens \in SUBSET RefreshToken
  /\ jar \in [Browser -> Jwt \cup {NoToken}]
  /\ request \in [Request -> RequestState]

SessionsInit ==
  /\ clock = 0
  /\ users = {}
  /\ tokens = {}
  /\ jar = [b \in Browser |-> NoToken]
  /\ request = [r \in Request |-> NewRequest]

Accounts(e) == {u \in users : u.email = e}

Stored(jwt) == {t \in tokens : t.jwt = jwt}

(* findActiveToken; only a stored token has a row. *)
Active(jwt) ==
  \E t \in Stored(jwt) : ~t.revoked /\ jwt.iat + RefreshTtl > clock
-----------------------------------------------------------------------------
(* The browser.  Cookies are set and cleared in pairs; each lapses after its *)
(* maxAge, and an access token is refused by then as well.                   *)

RefreshCookie(b) ==
  IF jar[b] # NoToken /\ jar[b].iat + RefreshTtl > clock THEN jar[b] ELSE NoToken

AccessCookieValid(b) == jar[b] # NoToken /\ jar[b].iat + AccessTtl > clock

Sent(r, req) ==
  /\ request[r] = NewRequest
  /\ request' = [request EXCEPT ![r] = req]
  /\ UNCHANGED <<clock, users, tokens, jar>>

SendRegister(r, b, e) ==
  Sent(r, MadeRequest("register", b, e, NoToken, "findEmail"))

SendLogin(r, b, e) ==
  Sent(r, MadeRequest("login", b, e, NoToken, "findUser"))

SendRefresh(r, b) ==
  Sent(r, MadeRequest("refresh", b, None, RefreshCookie(b), "findToken"))

(* Behind JwtAuthGuard, which looks at no table. *)
SendLogout(r, b) ==
  Sent(r, MadeRequest("logout", b, None, RefreshCookie(b),
                      IF AccessCookieValid(b) THEN "findToken" ELSE "refused"))

Tick ==
  /\ clock < MaxTime
  /\ clock' = clock + 1
  /\ UNCHANGED <<users, tokens, jar, request>>
-----------------------------------------------------------------------------
(* The handlers.  "refused" is a 401 or 409, "failed" a 500; neither answer  *)
(* touches a cookie.                                                         *)

Goto(r, at) == request' = [request EXCEPT ![r].at = at]

IssueFor(r, u) ==
  request' = [request EXCEPT ![r] = [@ EXCEPT !.at = "issue", !.user = u]]

(* register: the first look for the email. *)
FindEmail(r) ==
  /\ request[r].at = "findEmail"
  /\ Goto(r, IF Accounts(request[r].email) = {} THEN "createUser" ELSE "refused")
  /\ UNCHANGED <<clock, users, tokens, jar>>

(* Mutant: users without their unique index. *)
CreateUserUnindexed(r) ==
  /\ request[r].at = "createUser"
  /\ users' = users \cup {[id |-> r, email |-> request[r].email]}
  /\ IssueFor(r, r)
  /\ UNCHANGED <<clock, tokens, jar>>

(* register: the insert, which the unique index on the email may refuse;     *)
(* nothing turns that into a 409.                                            *)
CreateUser(r) ==
  /\ request[r].at = "createUser"
  /\ \/ /\ Accounts(request[r].email) = {}
        /\ users' = users \cup {[id |-> r, email |-> request[r].email]}
        /\ IssueFor(r, r)
     \/ /\ Accounts(request[r].email) # {}
        /\ Goto(r, "failed")
        /\ UNCHANGED users
  /\ UNCHANGED <<clock, tokens, jar>>

(* login: the user by email; the password may be wrong. *)
FindUser(r) ==
  /\ request[r].at = "findUser"
  /\ \/ Goto(r, "refused")
     \/ \E u \in Accounts(request[r].email) :
          IssueFor(r, u.id)
  /\ UNCHANGED <<clock, users, tokens, jar>>

(* Mutant: refresh goes on to the new pair and leaves the old token alone. *)
FindTokenToReplace(r) ==
  LET t == request[r].token IN
  /\ request[r].at = "findToken"
  /\ request' = [request EXCEPT ![r] =
       IF t = NoToken \/ ~Active(t) THEN [@ EXCEPT !.at = "refused"]
       ELSE [@ EXCEPT !.at = IF request[r].kind = "refresh" THEN "issue"
                                                           ELSE "revoke",
                      !.user = t.user]]
  /\ UNCHANGED <<clock, users, tokens, jar>>

(* refresh and logout: findActiveToken.  The user whom refresh looks up next *)
(* is there: nothing in the program deletes one.                             *)
FindToken(r) ==
  LET t == request[r].token IN
  /\ request[r].at = "findToken"
  /\ request' = [request EXCEPT ![r] =
       IF t # NoToken /\ Active(t) THEN [@ EXCEPT !.at = "revoke", !.user = t.user]
                                   ELSE [@ EXCEPT !.at = "refused"]]
  /\ UNCHANGED <<clock, users, tokens, jar>>

AfterRevoke(r) == IF request[r].kind = "refresh" THEN "issue" ELSE "respond"

(* Mutant: revokes by user, which ends the sessions of other browsers too. *)
RevokeAllOfUser(r) ==
  /\ request[r].at = "revoke"
  /\ tokens' = {[t EXCEPT !.revoked = @ \/ t.jwt.user = request[r].user] : t \in tokens}
  /\ Goto(r, AfterRevoke(r))
  /\ UNCHANGED <<clock, users, jar>>

RevokedIf(t, jwt) == [t EXCEPT !.revoked = @ \/ t.jwt = jwt]

(* revokeByRawToken; how many rows it changed is not looked at. *)
RevokeToken(r) ==
  /\ request[r].at = "revoke"
  /\ tokens' = {RevokedIf(t, request[r].token) : t \in tokens}
  /\ Goto(r, AfterRevoke(r))
  /\ UNCHANGED <<clock, users, jar>>

(* Mutant: iat is the second in which the token starts to be used, the next. *)
NewJwtAhead(r) == [user |-> request[r].user, iat |-> clock + 1]

NewJwt(r) == [user |-> request[r].user, iat |-> clock]

(* issueTokenPair: sign two tokens.  Other requests get in, and the clock    *)
(* may move on, before the hash of one of them is stored.                    *)
SignTokens(r) ==
  /\ request[r].at = "issue"
  /\ request' = [request EXCEPT ![r] = [@ EXCEPT !.at = "store", !.signed = NewJwt(r)]]
  /\ UNCHANGED <<clock, users, tokens, jar>>

StoreToken(r, rows) ==
  /\ tokens' = rows \cup {[jwt |-> request[r].signed, revoked |-> FALSE, by |-> r]}
  /\ request' = [request EXCEPT ![r] =
       [@ EXCEPT !.at = "respond", !.issued = request[r].signed]]

(* Mutant: refresh_tokens without the unique index on the hash. *)
IssueUnindexed(r) ==
  /\ request[r].at = "store"
  /\ StoreToken(r, tokens)
  /\ UNCHANGED <<clock, users, jar>>

(* Mutant: create is an upsert on the hash. *)
IssueWithUpsert(r) ==
  /\ request[r].at = "store"
  /\ StoreToken(r, tokens \ Stored(request[r].signed))
  /\ UNCHANGED <<clock, users, jar>>

(* issueTokenPair: store the hash of the refresh token; the unique index on  *)
(* the hash refuses a second token that was signed in the same second.       *)
IssueTokenPair(r) ==
  /\ request[r].at = "store"
  /\ \/ /\ Stored(request[r].signed) = {}
        /\ StoreToken(r, tokens)
     \/ /\ Stored(request[r].signed) # {}
        /\ Goto(r, "failed")
        /\ UNCHANGED tokens
  /\ UNCHANGED <<clock, users, jar>>

(* The answer reaches the browser: setAuthCookies, or after a logout         *)
(* clearAuthCookies.  Answers may arrive in any order.                       *)
Respond(r) ==
  /\ request[r].at = "respond"
  /\ jar' = [jar EXCEPT ![request[r].browser] = request[r].issued]
  /\ Goto(r, "done")
  /\ UNCHANGED <<clock, users, tokens>>

(* The server stops, the database is out of reach, or the answer is lost. *)
Abort(r) ==
  /\ request[r].at \in Running
  /\ Goto(r, "lost")
  /\ UNCHANGED <<clock, users, tokens, jar>>
-----------------------------------------------------------------------------
BrowserStep(r, b) ==
  \/ \E e \in Email : SendRegister(r, b, e) \/ SendLogin(r, b, e)
  \/ SendRefresh(r, b)
  \/ SendLogout(r, b)

HandlerStep(r) ==
  \/ FindEmail(r) \/ CreateUser(r) \/ FindUser(r) \/ FindToken(r)
  \/ RevokeToken(r) \/ SignTokens(r) \/ IssueTokenPair(r) \/ Respond(r)
  \/ Abort(r)

SessionsNext ==
  \/ Tick
  \/ \E r \in Request : HandlerStep(r) \/ \E b \in Browser : BrowserStep(r, b)

SessionsSpec == SessionsInit /\ [][SessionsNext]_sessionsVars
-----------------------------------------------------------------------------
(* Correctness.                                                              *)

Presents(r) == request[r].kind \in {"refresh", "logout"}

(* The requests that have got past their revoke, as far as that shows. *)
PastRevoke(r) ==
  Presents(r) /\ (request[r].at \in {"issue", "store", "respond", "done", "failed"} \/
                  request[r].issued # NoToken)

SpentRow(jwt) == \A t \in Stored(jwt) : t.revoked

(* However registrations overlap between the look for the email and the      *)
(* insert, no email gets a second account.                                   *)
OneAccountPerEmail == \A u, w \in users : u.email = w.email => u = w

(* No two requests are given the same refresh token, which would tie the     *)
(* session of one browser to the logout of another.                          *)
PairIsExclusive ==
  \A q, r \in Request :
    request[q].issued = request[r].issued /\ request[q].issued # NoToken => q = r

(* A token that refresh or logout has revoked never becomes usable again,    *)
(* although the same string can be signed again within its second.           *)
SpentStaysSpent == \A r \in Request : PastRevoke(r) => SpentRow(request[r].token)

(* Rotation leaves no second usable token behind, wherever the request that  *)
(* performs it stops: a stored successor implies a revoked predecessor.      *)
RotatedIsSpent ==
  \A t \in tokens :
    request[t.by].kind = "refresh" => SpentRow(request[t.by].token)

(* The token in a browser's cookie is on record, and it is revoked only      *)
(* because that very token was presented: sessions of one user in several    *)
(* browsers do not end each other.                                           *)
SessionsIndependent ==
  \A b \in Browser : jar[b] # NoToken =>
    /\ Stored(jar[b]) # {}
    /\ SpentRow(jar[b]) =>
         \E r \in Request : Presents(r) /\ request[r].token = jar[b]
=============================================================================
