--------------------------- MODULE SessionsProofs ---------------------------
(* Proofs about Sessions.  The invariant's parts are kept by one lemma for   *)
(* each kind of step.                                                        *)
EXTENDS Sessions, TLAPS

USE SessionsAssumptions

(* What makes the properties of Sessions inductive.                          *)

(* A row belongs to the request that stored it, and to no other string. *)
RowsIndexed ==
  /\ \A s, t \in tokens : s.jwt = t.jwt => s = t
  /\ \A t \in tokens : request[t.by].issued = t.jwt
  /\ \A r \in Request : request[r].issued # NoToken =>
       \E t \in tokens : t.jwt = request[r].issued /\ t.by = r

(* A request that findActiveToken let through presents a stored token. *)
PresentedIsStored ==
  \A r \in Request :
    Presents(r) /\ (request[r].at = "revoke" \/ PastRevoke(r)) =>
      request[r].token # NoToken /\ Stored(request[r].token) # {}

(* A request stores a token once, as its last statement. *)
IssuedOnce ==
  \A r \in Request :
    request[r].issued # NoToken => request[r].at \in {"respond", "done", "lost"}

(* The lookups by email are those of register and login, which have an       *)
(* email; the lookup by token is that of refresh and logout; what follows    *)
(* has a user, and signs for that user.                                      *)
StagesFit ==
  \A r \in Request :
    /\ request[r].at \in {"findEmail", "createUser", "findUser"} =>
         ~Presents(r) /\ request[r].email \in Email
    /\ request[r].at \in {"findToken", "revoke"} => Presents(r)
    /\ request[r].at \in {"revoke", "issue", "store"} => request[r].user \in Request
    /\ request[r].at = "store" =>
         request[r].signed \in Jwt /\ request[r].signed.user = request[r].user

CookiesStored == \A b \in Browser : jar[b] # NoToken => Stored(jar[b]) # {}

RevokedWasPresented ==
  \A t \in tokens : t.revoked =>
    \E r \in Request : Presents(r) /\ request[r].token = t.jwt

(* The inductive invariant: every safety property of the module follows. *)
SessionsInv ==
  /\ SessionsTypeOK
  /\ OneAccountPerEmail
  /\ RowsIndexed
  /\ PresentedIsStored
  /\ IssuedOnce
  /\ StagesFit
  /\ CookiesStored
  /\ RevokedWasPresented
  /\ SpentStaysSpent
-----------------------------------------------------------------------------
LEMMA SessionsInvInit == SessionsInit => SessionsInv
<1> SUFFICES ASSUME SessionsInit PROVE SessionsInv
  OBVIOUS
<1>1. SessionsTypeOK
  BY DEF SessionsInit, SessionsTypeOK, RequestState, NewRequest, MadeRequest
<1>2. OneAccountPerEmail /\ RowsIndexed /\ RevokedWasPresented /\ CookiesStored
  BY DEF SessionsInit, OneAccountPerEmail, RowsIndexed, RevokedWasPresented,
         CookiesStored, NewRequest, MadeRequest
<1>3. PresentedIsStored /\ IssuedOnce /\ StagesFit /\ SpentStaysSpent
  BY DEF SessionsInit, PresentedIsStored, IssuedOnce, StagesFit, SpentStaysSpent, Presents,
         PastRevoke, NewRequest, MadeRequest
<1> QED
  BY <1>1, <1>2, <1>3 DEF SessionsInv

(* The steps that leave the two tables' tokens and the cookies alone: those  *)
(* of a request that change neither what it presents nor what it was issued, *)
(* and take it past its revoke only when its token is stored.                *)
Progress(r) ==
  /\ UNCHANGED <<tokens, jar>>
  /\ \A q \in Request \ {r} : request'[q] = request[q]
  /\ \/ request[r].issued = NoToken /\ request'[r].issued = NoToken
     \/ /\ request'[r].issued = request[r].issued
        /\ request[r].at \in {"respond", "done", "lost"}
        /\ request'[r].at \in {"respond", "done", "lost"}
  /\ \/ request[r].kind = "none"
     \/ /\ request'[r].kind = request[r].kind
        /\ request'[r].token = request[r].token
  /\ PastRevoke(r)' => PastRevoke(r)
  /\ Presents(r)' /\ request'[r].at = "revoke" =>
       request'[r].token # NoToken /\ Stored(request'[r].token) # {}

LEMMA ProgressKeeps ==
  ASSUME SessionsInv, NEW r \in Request, Progress(r),
         SessionsTypeOK', OneAccountPerEmail', StagesFit'
  PROVE  SessionsInv'
<1>1. \A q \in Request : request'[q].issued = request[q].issued
  BY DEF Progress
<1>2. \A q \in Request :
        request[q].kind # "none" =>
          request'[q].kind = request[q].kind /\ request'[q].token = request[q].token
  BY DEF Progress
<1>3. \A q \in Request : PastRevoke(q)' => PastRevoke(q)
  BY DEF Progress, PastRevoke, Presents
<1>4. \A q \in Request : PastRevoke(q) => request'[q].token = request[q].token
  BY <1>2 DEF PastRevoke, Presents
<1>5. RowsIndexed'
  BY <1>1 DEF Progress, SessionsInv, RowsIndexed, SessionsTypeOK, RefreshToken
<1>6. PresentedIsStored'
  <2> SUFFICES ASSUME NEW q \in Request,
                      Presents(q)' /\ (request'[q].at = "revoke" \/ PastRevoke(q)')
               PROVE  /\ request'[q].token # NoToken
                      /\ \E t \in tokens' : t.jwt = request'[q].token
    BY DEF PresentedIsStored, Stored
  <2>1. CASE PastRevoke(q)'
    BY <1>3, <1>4, <2>1 DEF Progress, SessionsInv, PresentedIsStored, PastRevoke, Stored
  <2>2. CASE request'[q].at = "revoke" /\ q = r
    BY <2>2 DEF Progress, Stored
  <2>3. CASE request'[q].at = "revoke" /\ q # r
    BY <2>3 DEF Progress, SessionsInv, PresentedIsStored, Presents, Stored
  <2> QED
    BY <2>1, <2>2, <2>3
<1>7. IssuedOnce'
  BY DEF Progress, SessionsInv, IssuedOnce
<1>8. CookiesStored'
  BY DEF Progress, SessionsInv, CookiesStored, Stored
<1>9. RevokedWasPresented'
  BY <1>2 DEF Progress, SessionsInv, RevokedWasPresented, Presents
<1>10. SpentStaysSpent'
  BY <1>3, <1>4 DEF Progress, SessionsInv, SpentStaysSpent, SpentRow, Stored
<1> QED
  BY <1>5, <1>6, <1>7, <1>8, <1>9, <1>10 DEF SessionsInv

(* The step in which a request is sent. *)
FirstStage == {"findEmail", "findUser", "findToken", "refused"}

FirstStep(r) ==
  /\ request[r] = NewRequest
  /\ UNCHANGED <<clock, users, tokens, jar>>
  /\ request' = [request EXCEPT ![r] = request'[r]]
  /\ request'[r] \in RequestState
  /\ request'[r].issued = NoToken
  /\ request'[r].at \in FirstStage
  /\ request'[r].at \in {"findEmail", "findUser"} =>
       ~Presents(r)' /\ request'[r].email \in Email
  /\ request'[r].at = "findToken" => Presents(r)'

LEMMA SendKeeps ==
  ASSUME SessionsInv, NEW r \in Request, NEW b \in Browser, BrowserStep(r, b)
  PROVE  SessionsInv'
<1>1. FirstStep(r)
  <2>1. RefreshCookie(b) \in Jwt \cup {NoToken}
    BY DEF RefreshCookie, SessionsInv, SessionsTypeOK
  <2>2. ASSUME NEW kind \in {"register", "login", "refresh", "logout"},
               NEW e \in Email \cup {None}, NEW t \in Jwt \cup {NoToken},
               NEW at \in FirstStage, Sent(r, MadeRequest(kind, b, e, t, at)),
               at \in {"findEmail", "findUser"} =>
                 kind \in {"register", "login"} /\ e \in Email,
               at = "findToken" => kind \in {"refresh", "logout"}
        PROVE  FirstStep(r)
    <3>1. MadeRequest(kind, b, e, t, at) \in RequestState
      BY <2>2 DEF MadeRequest, RequestState, FirstStage, Running, Ended
    <3>2. request'[r] = MadeRequest(kind, b, e, t, at)
      BY <2>2 DEF Sent, SessionsInv, SessionsTypeOK
    <3> QED
      BY <2>2, <3>1, <3>2 DEF FirstStep, Sent, MadeRequest, Presents, SessionsInv, SessionsTypeOK
  <2>3. CASE \E e \in Email : SendRegister(r, b, e) \/ SendLogin(r, b, e)
    BY <2>2, <2>3 DEF SendRegister, SendLogin, FirstStage
  <2>4. CASE SendRefresh(r, b) \/ SendLogout(r, b)
    BY <2>1, <2>2, <2>4 DEF SendRefresh, SendLogout, FirstStage
  <2> QED
    BY <2>3, <2>4 DEF BrowserStep
<1>2. SessionsTypeOK' /\ OneAccountPerEmail'
  BY <1>1 DEF FirstStep, SessionsInv, SessionsTypeOK, OneAccountPerEmail
<1>3. StagesFit'
  BY <1>1 DEF FirstStep, FirstStage, SessionsInv, SessionsTypeOK, StagesFit, Presents
<1>4. Progress(r)
  BY <1>1 DEF FirstStep, FirstStage, Progress, SessionsInv, SessionsTypeOK, NewRequest, MadeRequest,
              PastRevoke, Presents
<1> QED
  BY <1>2, <1>3, <1>4, ProgressKeeps

LEMMA LookupKeeps ==
  ASSUME SessionsInv, NEW r \in Request,
         FindEmail(r) \/ CreateUser(r) \/ FindUser(r) \/ FindToken(r) \/ Abort(r)
  PROVE  SessionsInv'
<1>1. request[r] \in RequestState /\ request \in [Request -> RequestState]
  BY DEF SessionsInv, SessionsTypeOK
<1>2. CASE FindEmail(r)
  <2>1. request' \in [Request -> RequestState]
    BY <1>1, <1>2 DEF FindEmail, Goto, RequestState, Running, Ended
  <2>2. SessionsTypeOK' /\ OneAccountPerEmail'
    BY <1>2, <2>1 DEF FindEmail, SessionsInv, SessionsTypeOK, OneAccountPerEmail
  <2>3. StagesFit' /\ Progress(r)
    BY <1>1, <1>2 DEF FindEmail, Goto, Progress, SessionsInv, IssuedOnce, StagesFit,
                      PastRevoke, Presents, RequestState
  <2> QED
    BY <2>2, <2>3, ProgressKeeps
<1>3. ASSUME NEW u \in Request, IssueFor(r, u), UNCHANGED <<tokens, jar>>,
             request[r].at \in {"createUser", "findUser"}
      PROVE  request' \in [Request -> RequestState] /\ StagesFit' /\ Progress(r)
  <2>1. [request[r] EXCEPT !.at = "issue", !.user = u] \in RequestState
    BY <1>1 DEF RequestState, Running
  <2>2. /\ request' = [request EXCEPT ![r] = request'[r]]
        /\ request'[r] = [request[r] EXCEPT !.at = "issue", !.user = u]
    BY <1>1, <1>3 DEF IssueFor
  <2>3. StagesFit'
    <3>1. /\ request'[r].at = "issue" /\ request'[r].user = u
          /\ \A q \in Request \ {r} : request'[q] = request[q]
      BY <1>1, <2>2 DEF RequestState
    <3> QED
      BY <3>1 DEF SessionsInv, StagesFit, Presents
  <2>4. Progress(r)
    BY <1>1, <1>3, <2>1, <2>2
    DEF Progress, SessionsInv, IssuedOnce, StagesFit, PastRevoke, Presents, RequestState
  <2> QED
    BY <1>1, <2>1, <2>2, <2>3, <2>4
<1>4. ASSUME NEW at \in {"refused", "failed"}, Goto(r, at), UNCHANGED <<tokens, jar>>,
             request[r].at \in {"createUser", "findUser"}
      PROVE  request' \in [Request -> RequestState] /\ StagesFit' /\ Progress(r)
  <2>1. request' \in [Request -> RequestState]
    BY <1>1, <1>4 DEF Goto, RequestState, Ended
  <2>2. StagesFit' /\ Progress(r)
    BY <1>1, <1>4 DEF Goto, Progress, SessionsInv, IssuedOnce, StagesFit, PastRevoke,
                      Presents, RequestState
  <2> QED
    BY <2>1, <2>2
<1>7. CASE CreateUser(r)
  <2>1. request' \in [Request -> RequestState] /\ StagesFit' /\ Progress(r)
    BY <1>3, <1>4, <1>7 DEF CreateUser
  <2>2. users' \in SUBSET User
    BY <1>1, <1>7 DEF CreateUser, SessionsInv, SessionsTypeOK, StagesFit, User
  <2>3. SessionsTypeOK'
    BY <1>7, <2>1, <2>2 DEF CreateUser, SessionsInv, SessionsTypeOK
  <2>4. OneAccountPerEmail'
    BY <1>7 DEF CreateUser, SessionsInv, OneAccountPerEmail, Accounts
  <2> QED
    BY <2>1, <2>3, <2>4, ProgressKeeps
<1>8. CASE FindUser(r)
  <2>1. \A u \in users : u.id \in Request
    BY DEF SessionsInv, SessionsTypeOK, User
  <2>2. request' \in [Request -> RequestState] /\ StagesFit' /\ Progress(r)
    BY <1>3, <1>4, <1>8, <2>1 DEF FindUser, Accounts
  <2>3. SessionsTypeOK' /\ OneAccountPerEmail'
    BY <1>8, <2>2 DEF FindUser, SessionsInv, SessionsTypeOK, OneAccountPerEmail
  <2> QED
    BY <2>2, <2>3, ProgressKeeps
<1>5. CASE FindToken(r)
  <2>1. request' \in [Request -> RequestState]
    BY <1>1, <1>5 DEF FindToken, RequestState, Running, Ended, Jwt
  <2>2. SessionsTypeOK' /\ OneAccountPerEmail'
    BY <1>5, <2>1 DEF FindToken, SessionsInv, SessionsTypeOK, OneAccountPerEmail
  <2>3. StagesFit'
    BY <1>1, <1>5 DEF FindToken, SessionsInv, StagesFit, Presents, RequestState, Jwt
  <2>4. Progress(r)
    BY <1>1, <1>5 DEF FindToken, Progress, SessionsInv, IssuedOnce, PastRevoke, Presents,
                      RequestState, Active
  <2> QED
    BY <2>2, <2>3, <2>4, ProgressKeeps
<1>6. CASE Abort(r)
  <2>1. request' \in [Request -> RequestState]
    BY <1>1, <1>6 DEF Abort, Goto, RequestState, Running, Ended
  <2>2. SessionsTypeOK' /\ OneAccountPerEmail'
    BY <1>6, <2>1 DEF Abort, SessionsInv, SessionsTypeOK, OneAccountPerEmail
  <2>3. StagesFit' /\ Progress(r)
    BY <1>1, <1>6 DEF Abort, Goto, Progress, SessionsInv, IssuedOnce, StagesFit,
                      PastRevoke, Presents, RequestState
  <2> QED
    BY <2>2, <2>3, ProgressKeeps
<1> QED
  BY <1>2, <1>5, <1>6, <1>7, <1>8

LEMMA RevokeKeeps ==
  ASSUME SessionsInv, NEW r \in Request, RevokeToken(r)
  PROVE  SessionsInv'
<1> DEFINE Marked(t) == RevokedIf(t, request[r].token)
<1>1. /\ request[r] \in RequestState /\ request \in [Request -> RequestState]
      /\ tokens \in SUBSET RefreshToken
      /\ tokens' = {Marked(t) : t \in tokens}
      /\ UNCHANGED <<clock, users, jar>>
      /\ request[r].at = "revoke"
      /\ Presents(r)
  BY DEF SessionsInv, SessionsTypeOK, RevokeToken, StagesFit
<1>2. \A t \in tokens :
        /\ Marked(t) \in RefreshToken
        /\ Marked(t).jwt = t.jwt
        /\ Marked(t).by = t.by
        /\ Marked(t).revoked <=> t.revoked \/ t.jwt = request[r].token
  BY <1>1 DEF RefreshToken, RevokedIf
<1> HIDE DEF Marked
<1>3. /\ \A q \in Request \ {r} : request'[q] = request[q]
      /\ request'[r] \in RequestState
      /\ request' = [request EXCEPT ![r] = request'[r]]
      /\ request'[r].at = AfterRevoke(r)
      /\ request'[r].kind = request[r].kind
      /\ request'[r].token = request[r].token
      /\ request'[r].issued = request[r].issued
      /\ request'[r].email = request[r].email
      /\ request'[r].user = request[r].user
  BY <1>1 DEF RevokeToken, Goto, RequestState, AfterRevoke, Running
<1>4. \A q \in Request :
        /\ request'[q].kind = request[q].kind
        /\ request'[q].token = request[q].token
        /\ request'[q].issued = request[q].issued
  BY <1>3
<1>5. \A x : Stored(x)' = {} <=> Stored(x) = {}
  BY <1>1, <1>2 DEF Stored
<1>6. SessionsTypeOK' /\ OneAccountPerEmail'
  BY <1>1, <1>2, <1>3 DEF SessionsInv, SessionsTypeOK, OneAccountPerEmail
<1>7. RowsIndexed'
  <2>1. \A s, t \in tokens' : s.jwt = t.jwt => s = t
    BY <1>1, <1>2 DEF SessionsInv, RowsIndexed
  <2>2. \A t \in tokens' : request'[t.by].issued = t.jwt
    BY <1>1, <1>2, <1>4 DEF SessionsInv, RowsIndexed, RefreshToken
  <2>3. ASSUME NEW q \in Request, request'[q].issued # NoToken
        PROVE  \E t \in tokens' : t.jwt = request'[q].issued /\ t.by = q
    <3>1. PICK t \in tokens : t.jwt = request[q].issued /\ t.by = q
      BY <1>4, <2>3 DEF SessionsInv, RowsIndexed
    <3> QED
      BY <1>1, <1>2, <1>4, <3>1
  <2> QED
    BY <2>1, <2>2, <2>3 DEF RowsIndexed
<1>8. PresentedIsStored'
  <2>1. Presents(r) => request[r].token # NoToken /\ Stored(request[r].token) # {}
    BY <1>1 DEF SessionsInv, PresentedIsStored
  <2> QED
    BY <1>3, <1>4, <1>5, <2>1 DEF SessionsInv, PresentedIsStored, Presents, PastRevoke
<1>9. IssuedOnce' /\ StagesFit'
  BY <1>1, <1>3 DEF SessionsInv, IssuedOnce, StagesFit, AfterRevoke, Presents
<1>10. CookiesStored'
  BY <1>1, <1>5 DEF SessionsInv, CookiesStored
<1>11. RevokedWasPresented'
  BY <1>1, <1>2, <1>4 DEF SessionsInv, RevokedWasPresented, Presents
<1>12. SpentStaysSpent'
  <2>1. ASSUME NEW q \in Request, PastRevoke(q)', NEW t \in tokens,
               t.jwt = request[q].token
        PROVE  Marked(t).revoked
    <3>1. CASE q = r
      BY <1>2, <2>1, <3>1
    <3>2. CASE q # r
      BY <1>2, <1>3, <2>1, <3>2
      DEF SessionsInv, SpentStaysSpent, SpentRow, Stored, PastRevoke, Presents
    <3> QED
      BY <3>1, <3>2
  <2> QED
    BY <1>1, <1>2, <1>4, <2>1 DEF SpentStaysSpent, SpentRow, Stored
<1> QED
  BY <1>6, <1>7, <1>8, <1>9, <1>10, <1>11, <1>12 DEF SessionsInv

LEMMA SignKeeps ==
  ASSUME SessionsInv, NEW r \in Request, SignTokens(r)
  PROVE  SessionsInv'
<1> DEFINE new == NewJwt(r)
<1>1. /\ request[r] \in RequestState /\ request \in [Request -> RequestState]
      /\ request[r].at = "issue" /\ request[r].user \in Request
      /\ UNCHANGED <<clock, users, tokens, jar>>
      /\ request' = [request EXCEPT ![r] = [@ EXCEPT !.at = "store", !.signed = new]]
  BY DEF SessionsInv, SessionsTypeOK, StagesFit, SignTokens
<1>2. new \in Jwt /\ new.user = request[r].user
  BY <1>1 DEF NewJwt, Jwt, SessionsInv, SessionsTypeOK
<1> HIDE DEF new
<1>3. /\ \A q \in Request \ {r} : request'[q] = request[q]
      /\ request'[r].at = "store" /\ request'[r].signed = new
      /\ request'[r].kind = request[r].kind /\ request'[r].token = request[r].token
      /\ request'[r].user = request[r].user /\ request'[r].issued = request[r].issued
  BY <1>1 DEF RequestState
<1>4. request' \in [Request -> RequestState]
  <2>1. [request[r] EXCEPT !.at = "store", !.signed = new] \in RequestState
    BY <1>1, <1>2 DEF RequestState, Running
  <2> QED
    BY <1>1, <2>1
<1>5. SessionsTypeOK' /\ OneAccountPerEmail'
  BY <1>1, <1>4 DEF SessionsInv, SessionsTypeOK, OneAccountPerEmail
<1>6. StagesFit'
  BY <1>1, <1>2, <1>3 DEF SessionsInv, StagesFit, Presents
<1>7. Progress(r)
  BY <1>1, <1>3 DEF Progress, SessionsInv, IssuedOnce, PastRevoke, Presents
<1> QED
  BY <1>5, <1>6, <1>7, ProgressKeeps

LEMMA IssueKeeps ==
  ASSUME SessionsInv, NEW r \in Request, IssueTokenPair(r)
  PROVE  SessionsInv'
<1> DEFINE new == request[r].signed
           row == [jwt |-> new, revoked |-> FALSE, by |-> r]
<1>1. /\ request[r] \in RequestState /\ request \in [Request -> RequestState]
      /\ tokens \in SUBSET RefreshToken
      /\ request[r].at = "store"
      /\ request[r].issued = NoToken
      /\ UNCHANGED <<clock, users, jar>>
  BY DEF SessionsInv, SessionsTypeOK, IssueTokenPair, IssuedOnce
<1>2. CASE Stored(new) # {} /\ Goto(r, "failed") /\ UNCHANGED tokens
  <2>1. SessionsTypeOK' /\ OneAccountPerEmail'
    BY <1>1, <1>2 DEF Goto, RequestState, Ended, SessionsInv, SessionsTypeOK,
                      OneAccountPerEmail
  <2>2. StagesFit' /\ Progress(r)
    BY <1>1, <1>2 DEF Goto, Progress, SessionsInv, IssuedOnce, StagesFit, PastRevoke,
                      Presents, RequestState
  <2> QED
    BY <2>1, <2>2, ProgressKeeps
<1>3. CASE Stored(new) = {} /\ StoreToken(r, tokens)
  <2>1. /\ new \in Jwt /\ new # NoToken
        /\ row \in RefreshToken
        /\ row.jwt = new /\ row.by = r /\ row.revoked = FALSE
        /\ tokens' = tokens \cup {row}
    <3>1. new \in Jwt
      BY <1>1 DEF SessionsInv, StagesFit
    <3> QED
      BY <1>3, <3>1 DEF Jwt, RefreshToken, StoreToken
  <2> HIDE DEF new, row
  <2>2. /\ \A q \in Request \ {r} : request'[q] = request[q]
        /\ request'[r] \in RequestState
        /\ request' = [request EXCEPT ![r] = request'[r]]
        /\ request'[r].at = "respond"
        /\ request'[r].kind = request[r].kind
        /\ request'[r].token = request[r].token
        /\ request'[r].issued = new
    <3>1. request' = [request EXCEPT ![r] = [@ EXCEPT !.at = "respond", !.issued = new]]
      BY <1>3 DEF StoreToken, new
    <3>2. ASSUME NEW jwt \in Jwt
          PROVE  [request[r] EXCEPT !.at = "respond", !.issued = jwt] \in RequestState
      BY <1>1 DEF RequestState, Running
    <3>3. [request[r] EXCEPT !.at = "respond", !.issued = new] \in RequestState
      BY <2>1, <3>2
    <3> QED
      BY <1>1, <3>1, <3>3 DEF RequestState
  <2>3. \A q \in Request :
          request'[q].kind = request[q].kind /\ request'[q].token = request[q].token
    BY <2>2
  <2>4. \A q \in Request : PastRevoke(q)' => PastRevoke(q)
    BY <1>1, <2>2 DEF PastRevoke, Presents
  <2>5. \A x : Stored(x) # {} => Stored(x)' # {}
    BY <2>1 DEF Stored
  <2>6. SessionsTypeOK' /\ OneAccountPerEmail'
    BY <1>1, <2>1, <2>2 DEF SessionsInv, SessionsTypeOK, OneAccountPerEmail
  <2>7. RowsIndexed'
    <3>1. \A s, t \in tokens' : s.jwt = t.jwt => s = t
      BY <1>3, <2>1 DEF SessionsInv, RowsIndexed, Stored
    <3>2. ASSUME NEW t \in tokens PROVE request'[t.by].issued = t.jwt
      <4>1. /\ t.by \in Request /\ t.jwt \in Jwt
            /\ request[t.by].issued = t.jwt
        BY <1>1 DEF SessionsInv, RowsIndexed, RefreshToken
      <4>2. t.jwt # NoToken
        BY <4>1 DEF Jwt
      <4> QED
        BY <1>1, <2>2, <4>1, <4>2
    <3>3. \A q \in Request : request'[q].issued # NoToken =>
            \E t \in tokens' : t.jwt = request'[q].issued /\ t.by = q
      BY <2>1, <2>2 DEF SessionsInv, RowsIndexed
    <3> QED
      BY <2>1, <2>2, <3>1, <3>2, <3>3 DEF RowsIndexed
  <2>8. PresentedIsStored'
    BY <2>2, <2>3, <2>4, <2>5 DEF SessionsInv, PresentedIsStored, Presents
  <2>9. IssuedOnce' /\ StagesFit'
    BY <2>2, <2>3 DEF SessionsInv, IssuedOnce, StagesFit, Presents
  <2>10. CookiesStored'
    BY <1>1, <2>5 DEF SessionsInv, CookiesStored
  <2>11. RevokedWasPresented'
    BY <2>1, <2>3 DEF SessionsInv, RevokedWasPresented, Presents
  <2>12. SpentStaysSpent'
    <3>1. ASSUME NEW q \in Request, PastRevoke(q)
          PROVE  SpentRow(request[q].token) /\ request[q].token # new
      BY <1>3, <3>1 DEF SessionsInv, SpentStaysSpent, PresentedIsStored, PastRevoke
    <3> QED
      BY <2>1, <2>3, <2>4, <3>1 DEF SpentStaysSpent, SpentRow, Stored
  <2> QED
    BY <2>6, <2>7, <2>8, <2>9, <2>10, <2>11, <2>12 DEF SessionsInv
<1> QED
  BY <1>2, <1>3 DEF IssueTokenPair

LEMMA RespondKeeps ==
  ASSUME SessionsInv, NEW r \in Request, Respond(r)
  PROVE  SessionsInv'
<1>1. /\ request[r] \in RequestState /\ request \in [Request -> RequestState]
      /\ request[r].at = "respond"
      /\ UNCHANGED <<clock, users, tokens>>
      /\ jar' = [jar EXCEPT ![request[r].browser] = request[r].issued]
  BY DEF SessionsInv, SessionsTypeOK, Respond
<1>2. /\ request' \in [Request -> RequestState]
      /\ \A q \in Request : /\ request'[q].kind = request[q].kind
                             /\ request'[q].token = request[q].token
                             /\ request'[q].issued = request[q].issued
      /\ \A q \in Request \ {r} : request'[q] = request[q]
      /\ request'[r].at = "done"
  BY <1>1 DEF Respond, Goto, RequestState, Ended
<1>3. jar' \in [Browser -> Jwt \cup {NoToken}]
  BY <1>1 DEF SessionsInv, SessionsTypeOK, RequestState
<1>4. SessionsTypeOK' /\ OneAccountPerEmail'
  BY <1>1, <1>2, <1>3 DEF SessionsInv, SessionsTypeOK, OneAccountPerEmail
<1>5. \A q \in Request : PastRevoke(q)' => PastRevoke(q)
  BY <1>1, <1>2 DEF PastRevoke, Presents
<1>6. RowsIndexed'
  BY <1>1, <1>2 DEF SessionsInv, SessionsTypeOK, RefreshToken, RowsIndexed
<1>7. PresentedIsStored' /\ SpentStaysSpent'
  <2>1. PresentedIsStored'
    BY <1>1, <1>2, <1>5 DEF SessionsInv, PresentedIsStored, Presents, Stored
  <2>2. SpentStaysSpent'
    BY <1>1, <1>2, <1>5 DEF SessionsInv, SpentStaysSpent, SpentRow, Stored
  <2> QED
    BY <2>1, <2>2
<1>8. IssuedOnce' /\ StagesFit'
  BY <1>2 DEF SessionsInv, IssuedOnce, StagesFit, Presents
<1>9. CookiesStored'
  <2>1. request[r].issued # NoToken => Stored(request[r].issued) # {}
    BY DEF SessionsInv, RowsIndexed, Stored
  <2> QED
    BY <1>1, <2>1 DEF SessionsInv, SessionsTypeOK, CookiesStored, Stored
<1>10. RevokedWasPresented'
  BY <1>1, <1>2 DEF SessionsInv, RevokedWasPresented, Presents
<1> QED
  BY <1>4, <1>6, <1>7, <1>8, <1>9, <1>10 DEF SessionsInv

LEMMA UntouchedKeeps ==
  ASSUME SessionsInv, Tick \/ UNCHANGED sessionsVars
  PROVE  SessionsInv'
<1>1. UNCHANGED <<users, tokens, jar, request>> /\ clock' \in 0..MaxTime
  BY DEF Tick, sessionsVars, SessionsInv, SessionsTypeOK
<1>2. SessionsTypeOK' /\ OneAccountPerEmail' /\ RowsIndexed'
  BY <1>1 DEF SessionsInv, SessionsTypeOK, OneAccountPerEmail, RowsIndexed
<1>3. PresentedIsStored' /\ IssuedOnce' /\ StagesFit' /\ CookiesStored'
  BY <1>1 DEF SessionsInv, PresentedIsStored, IssuedOnce, StagesFit, CookiesStored,
              Stored, Presents, PastRevoke
<1>4. RevokedWasPresented' /\ SpentStaysSpent'
  BY <1>1 DEF SessionsInv, RevokedWasPresented, SpentStaysSpent, SpentRow, Stored,
              Presents, PastRevoke
<1> QED
  BY <1>2, <1>3, <1>4 DEF SessionsInv

(* The inductive invariant, for any number of requests, browsers and emails, *)
(* and any length of time.                                                   *)
THEOREM SessionsInvariant == SessionsSpec => []SessionsInv
<1>1. SessionsInv /\ [SessionsNext]_sessionsVars => SessionsInv'
  <2> SUFFICES ASSUME SessionsInv, [SessionsNext]_sessionsVars PROVE SessionsInv'
    OBVIOUS
  <2>1. ASSUME NEW r \in Request, HandlerStep(r) PROVE SessionsInv'
    BY <2>1, LookupKeeps, RevokeKeeps, SignKeeps, IssueKeeps, RespondKeeps DEF HandlerStep
  <2>2. ASSUME NEW r \in Request, NEW b \in Browser, BrowserStep(r, b)
        PROVE  SessionsInv'
    BY <2>2, SendKeeps
  <2> QED
    BY <2>1, <2>2, UntouchedKeeps DEF SessionsNext
<1> QED
  BY <1>1, SessionsInvInit, PTL DEF SessionsSpec

(* Users, tokens, cookies and requests keep their types in every run.        *)
THEOREM SessionsTypeCorrect == SessionsSpec => []SessionsTypeOK
<1>1. SessionsInv => SessionsTypeOK
  BY DEF SessionsInv
<1> QED
  BY <1>1, SessionsInvariant, PTL

(* Overlapping registrations never give one email two accounts. *)
THEOREM AccountsAreUnique == SessionsSpec => []OneAccountPerEmail
<1>1. SessionsInv => OneAccountPerEmail
  BY DEF SessionsInv
<1> QED
  BY <1>1, SessionsInvariant, PTL

(* No refresh token is handed out twice. *)
THEOREM PairsAreExclusive == SessionsSpec => []PairIsExclusive
<1>1. SessionsInv => PairIsExclusive
  <2> SUFFICES ASSUME SessionsInv, NEW q \in Request, NEW r \in Request,
                      request[q].issued = request[r].issued, request[q].issued # NoToken
               PROVE  q = r
    BY DEF PairIsExclusive
  <2>1. PICK s \in tokens : s.jwt = request[q].issued /\ s.by = q
    BY DEF SessionsInv, RowsIndexed
  <2>2. PICK t \in tokens : t.jwt = request[r].issued /\ t.by = r
    BY DEF SessionsInv, RowsIndexed
  <2> QED
    BY <2>1, <2>2 DEF SessionsInv, RowsIndexed
<1> QED
  BY <1>1, SessionsInvariant, PTL

(* What refresh or logout revoked is never usable again. *)
THEOREM SpentForGood == SessionsSpec => []SpentStaysSpent
<1>1. SessionsInv => SpentStaysSpent
  BY DEF SessionsInv
<1> QED
  BY <1>1, SessionsInvariant, PTL

(* A stored successor implies a revoked predecessor. *)
THEOREM RotationRevokes == SessionsSpec => []RotatedIsSpent
<1>1. SessionsInv => RotatedIsSpent
  <2> SUFFICES ASSUME SessionsInv, NEW t \in tokens, request[t.by].kind = "refresh"
               PROVE  SpentRow(request[t.by].token)
    BY DEF RotatedIsSpent
  <2>1. t.by \in Request /\ t.jwt \in Jwt /\ request[t.by].issued = t.jwt
    BY DEF SessionsInv, SessionsTypeOK, RowsIndexed, RefreshToken
  <2>2. t.jwt # NoToken
    BY <2>1 DEF Jwt
  <2> QED
    BY <2>1, <2>2 DEF SessionsInv, SpentStaysSpent, PastRevoke, Presents
<1> QED
  BY <1>1, SessionsInvariant, PTL

(* One browser's session is ended by nobody else. *)
THEOREM SessionsStayApart == SessionsSpec => []SessionsIndependent
<1>1. SessionsInv => SessionsIndependent
  <2> SUFFICES ASSUME SessionsInv, NEW b \in Browser, jar[b] # NoToken
               PROVE  /\ Stored(jar[b]) # {}
                      /\ SpentRow(jar[b]) =>
                           \E r \in Request : Presents(r) /\ request[r].token = jar[b]
    BY DEF SessionsIndependent
  <2>1. PICK t \in tokens : t.jwt = jar[b]
    BY DEF SessionsInv, CookiesStored, Stored
  <2> QED
    BY <2>1 DEF SessionsInv, RevokedWasPresented, SpentRow, Stored
<1> QED
  BY <1>1, SessionsInvariant, PTL
-----------------------------------------------------------------------------
(* Whose session a browser holds.                                            *)

(* The browser has signed in to the account, or registered it, itself. *)
SignedIn(b, id) ==
  \E r \in Request, u \in users :
    /\ request[r].browser = b
    /\ request[r].kind \in {"register", "login"}
    /\ u.id = id /\ u.email = request[r].email

(* All that a request or a cookie says about a user is about an account that *)
(* the browser has signed in to.                                             *)
OwnIdentity ==
  /\ \A r \in Request :
       /\ request[r].user # None => SignedIn(request[r].browser, request[r].user)
       /\ request[r].token # NoToken =>
            SignedIn(request[r].browser, request[r].token.user)
       /\ request[r].issued # NoToken =>
            request[r].user # None /\ request[r].issued.user = request[r].user
       /\ request[r].kind = "none" => request[r].at = "unsent"
  /\ \A b \in Browser : jar[b] # NoToken => SignedIn(b, jar[b].user)

(* A request keeps who made it and for whom; rows of users stay. *)
SameRequest(r) ==
  /\ request'[r].kind = request[r].kind
  /\ request'[r].browser = request[r].browser
  /\ request'[r].email = request[r].email
  /\ request'[r].token = request[r].token

LEMMA HandlersKeep ==
  ASSUME SessionsInv, NEW q \in Request, HandlerStep(q)
  PROVE  users \subseteq users' /\ \A r \in Request : SameRequest(r)
<1>0. request \in [Request -> RequestState]
  BY DEF SessionsInv, SessionsTypeOK
<1>1. users \subseteq users'
  BY DEF HandlerStep, FindEmail, CreateUser, FindUser, FindToken, RevokeToken,
         SignTokens, IssueTokenPair, Respond, Abort
<1>2. ASSUME NEW at, request' = [request EXCEPT ![q].at = at]
      PROVE  \A r \in Request : SameRequest(r)
  BY <1>0, <1>2 DEF SameRequest, RequestState
<1>3. ASSUME NEW u, request' = [request EXCEPT ![q] = [@ EXCEPT !.at = "issue", !.user = u]]
      PROVE  \A r \in Request : SameRequest(r)
  BY <1>0, <1>3 DEF SameRequest, RequestState
<1>4. CASE FindToken(q)
  BY <1>0, <1>4 DEF FindToken, SameRequest, RequestState
<1>8. CASE SignTokens(q)
  BY <1>0, <1>8 DEF SignTokens, SameRequest, RequestState
<1>5. ASSUME StoreToken(q, tokens)
      PROVE  \A r \in Request : SameRequest(r)
  BY <1>0, <1>5 DEF StoreToken, SameRequest, RequestState
<1>6. CASE FindEmail(q) \/ RevokeToken(q) \/ Respond(q) \/ Abort(q)
  <2>1. PICK at : request' = [request EXCEPT ![q].at = at]
    BY <1>6 DEF FindEmail, RevokeToken, Respond, Abort, Goto
  <2> QED
    BY <1>1, <1>2, <2>1
<1>7. CASE CreateUser(q) \/ FindUser(q) \/ IssueTokenPair(q)
  <2>1. \/ StoreToken(q, tokens)
        \/ \E at : request' = [request EXCEPT ![q].at = at]
        \/ \E u : request' = [request EXCEPT ![q] = [@ EXCEPT !.at = "issue", !.user = u]]
    BY <1>7 DEF CreateUser, FindUser, IssueTokenPair, Goto, IssueFor
  <2> QED
    BY <1>1, <1>2, <1>3, <1>5, <2>1
<1> QED
  BY <1>1, <1>4, <1>6, <1>7, <1>8 DEF HandlerStep

LEMMA RequestsAreFixed ==
  ASSUME SessionsInv, [SessionsNext]_sessionsVars
  PROVE  /\ users \subseteq users'
         /\ \A r \in Request : request[r].kind # "none" => SameRequest(r)
<1>1. request \in [Request -> RequestState]
  BY DEF SessionsInv, SessionsTypeOK
<1>2. ASSUME NEW q \in Request, HandlerStep(q)
      PROVE  users \subseteq users' /\ \A r \in Request : SameRequest(r)
  BY <1>2, HandlersKeep
<1>3. ASSUME NEW q \in Request, NEW b \in Browser, BrowserStep(q, b)
      PROVE  /\ users' = users /\ request[q].kind = "none"
             /\ \A r \in Request \ {q} : request'[r] = request[r]
  <2>1. PICK x : Sent(q, x)
    BY <1>3 DEF BrowserStep, SendRegister, SendLogin, SendRefresh, SendLogout
  <2> QED
    BY <1>1, <2>1 DEF Sent, NewRequest, MadeRequest
<1>4. CASE Tick \/ UNCHANGED sessionsVars
  BY <1>4 DEF Tick, sessionsVars, SameRequest
<1> QED
  BY <1>2, <1>3, <1>4 DEF SessionsNext, SameRequest

LEMMA SignedInStays ==
  ASSUME SessionsInv, [SessionsNext]_sessionsVars, NEW b, NEW id, SignedIn(b, id)
  PROVE  SignedIn(b, id)'
<1>1. PICK r \in Request, u \in users :
        /\ request[r].browser = b
        /\ request[r].kind \in {"register", "login"}
        /\ u.id = id /\ u.email = request[r].email
  BY DEF SignedIn
<1>2. /\ u \in users'
      /\ request'[r].kind = request[r].kind
      /\ request'[r].browser = request[r].browser
      /\ request'[r].email = request[r].email
  BY <1>1, RequestsAreFixed DEF SameRequest
<1> QED
  BY <1>1, <1>2 DEF SignedIn

(* What a handler's step does to the user and the token of its request.      *)
LEMMA HandlerOutcome ==
  ASSUME SessionsInv, NEW q \in Request, HandlerStep(q)
  PROVE  \/ /\ request'[q].user = request[q].user
            /\ request'[q].issued = request[q].issued
         \/ /\ request[q].at \in {"createUser", "findUser"}
            /\ request'[q].issued = request[q].issued
            /\ \E u \in users' : u.email = request[q].email /\ request'[q].user = u.id
         \/ /\ request[q].at = "findToken" /\ request[q].token # NoToken
            /\ request'[q].issued = request[q].issued
            /\ request'[q].user = request[q].token.user
         \/ /\ request[q].at = "store"
            /\ request'[q].user = request[q].user
            /\ request'[q].issued = request[q].signed
<1>0. request[q] \in RequestState /\ request \in [Request -> RequestState]
  BY DEF SessionsInv, SessionsTypeOK
<1>1. ASSUME NEW at, request' = [request EXCEPT ![q].at = at]
      PROVE  /\ request'[q].user = request[q].user
             /\ request'[q].issued = request[q].issued
  BY <1>0, <1>1 DEF RequestState
<1>2. ASSUME NEW u, request' = [request EXCEPT ![q] = [@ EXCEPT !.at = "issue", !.user = u]]
      PROVE  request'[q].user = u /\ request'[q].issued = request[q].issued
  BY <1>0, <1>2 DEF RequestState
<1>3. CASE FindEmail(q) \/ RevokeToken(q) \/ Respond(q) \/ Abort(q)
  <2>1. PICK at : request' = [request EXCEPT ![q].at = at]
    BY <1>3 DEF FindEmail, RevokeToken, Respond, Abort, Goto
  <2> QED
    BY <1>1, <2>1
<1>4. CASE CreateUser(q)
  <2>1. CASE request' = [request EXCEPT ![q].at = "failed"]
    BY <1>1, <2>1
  <2>2. CASE /\ users' = users \cup {[id |-> q, email |-> request[q].email]}
             /\ request' = [request EXCEPT ![q] = [@ EXCEPT !.at = "issue", !.user = q]]
    <3> DEFINE u == [id |-> q, email |-> request[q].email]
    <3>1. u \in users' /\ u.id = q /\ u.email = request[q].email
      BY <2>2
    <3>2. request'[q].user = q /\ request'[q].issued = request[q].issued
      BY <1>2, <2>2
    <3> QED
      BY <1>4, <3>1, <3>2 DEF CreateUser
  <2> QED
    BY <1>4, <2>1, <2>2 DEF CreateUser, Goto, IssueFor
<1>5. CASE FindUser(q)
  <2>1. CASE request' = [request EXCEPT ![q].at = "refused"]
    BY <1>1, <2>1
  <2>2. ASSUME NEW u \in Accounts(request[q].email),
               request' = [request EXCEPT ![q] = [@ EXCEPT !.at = "issue", !.user = u.id]]
        PROVE  /\ u \in users' /\ u.email = request[q].email
               /\ request'[q].user = u.id /\ request'[q].issued = request[q].issued
    <3>1. users' = users
      BY <1>5 DEF FindUser
    <3> QED
      BY <1>2, <2>2, <3>1 DEF Accounts
  <2> QED
    BY <1>5, <2>1, <2>2 DEF FindUser, Goto, IssueFor
<1>6. CASE FindToken(q)
  BY <1>0, <1>6 DEF FindToken, RequestState
<1>7. CASE IssueTokenPair(q)
  <2>1. CASE request' = [request EXCEPT ![q].at = "failed"]
    BY <1>1, <2>1
  <2>2. ASSUME NEW jwt,
               request' = [request EXCEPT ![q] = [@ EXCEPT !.at = "respond", !.issued = jwt]]
        PROVE  request'[q].user = request[q].user /\ request'[q].issued = jwt
    BY <1>0, <2>2 DEF RequestState
  <2> QED
    BY <1>7, <2>1, <2>2 DEF IssueTokenPair, StoreToken, Goto
<1>8. CASE SignTokens(q)
  BY <1>0, <1>8 DEF SignTokens, RequestState
<1> QED
  BY <1>3, <1>4, <1>5, <1>6, <1>7, <1>8 DEF HandlerStep

LEMMA OwnIdentityStep ==
  ASSUME SessionsInv, OwnIdentity, [SessionsNext]_sessionsVars
  PROVE  OwnIdentity'
<1>0. /\ request \in [Request -> RequestState] /\ jar \in [Browser -> Jwt \cup {NoToken}]
      /\ users \subseteq User /\ StagesFit
  BY DEF SessionsInv, SessionsTypeOK
<1>1. CASE UNCHANGED <<users, jar, request>>
  BY <1>1 DEF OwnIdentity, SignedIn
<1>2. ASSUME NEW q \in Request, NEW b \in Browser, BrowserStep(q, b)
      PROVE  OwnIdentity'
  <2>1. PICK kind, e, t, at : /\ Sent(q, MadeRequest(kind, b, e, t, at))
                              /\ t \in {NoToken, RefreshCookie(b)} /\ kind # "none"
    BY <1>2 DEF BrowserStep, SendRegister, SendLogin, SendRefresh, SendLogout
  <2>2. /\ request' = [request EXCEPT ![q] = MadeRequest(kind, b, e, t, at)]
        /\ UNCHANGED <<users, jar>>
        /\ t \in {NoToken, jar[b]}
    BY <2>1 DEF Sent, RefreshCookie
  <2>3. /\ request'[q].user = None /\ request'[q].issued = NoToken
        /\ request'[q].token = t /\ request'[q].browser = b
        /\ request'[q].kind # "none"
    BY <1>0, <2>1, <2>2 DEF MadeRequest
  <2>4. \A r \in Request \ {q} : request'[r] = request[r]
    BY <1>0, <2>2
  <2>5. \A c, id : SignedIn(c, id) => SignedIn(c, id)'
    BY SignedInStays
  <2>6. t # NoToken => SignedIn(b, t.user)
    BY <2>2 DEF OwnIdentity
  <2>7. \A r \in Request \ {q} :
          /\ request'[r].user # None => SignedIn(request'[r].browser, request'[r].user)
          /\ request'[r].token # NoToken =>
               SignedIn(request'[r].browser, request'[r].token.user)
          /\ request'[r].issued # NoToken =>
               request'[r].user # None /\ request'[r].issued.user = request'[r].user
          /\ request'[r].kind = "none" => request'[r].at = "unsent"
    BY <2>4 DEF OwnIdentity
  <2>8. \A c \in Browser : jar'[c] # NoToken => SignedIn(c, jar'[c].user)
    BY <2>2 DEF OwnIdentity
  <2> QED
    BY <2>3, <2>5, <2>6, <2>7, <2>8 DEF OwnIdentity
<1>3. ASSUME NEW q \in Request, HandlerStep(q)
      PROVE  OwnIdentity'
  <2>1. \A r \in Request : SameRequest(r)
    BY <1>3, HandlersKeep
  <2>2. \A c, id : SignedIn(c, id) => SignedIn(c, id)'
    BY <1>3, SignedInStays DEF SessionsNext
  <2>3. \A r \in Request \ {q} : request'[r] = request[r]
    BY <1>0, <1>3
    DEF HandlerStep, FindEmail, CreateUser, FindUser, FindToken, RevokeToken,
        SignTokens, IssueTokenPair, StoreToken, Respond, Abort, Goto, IssueFor
  <2>4. request[q].at \in Running /\ request[q].kind # "none"
    BY <1>3
    DEF HandlerStep, FindEmail, CreateUser, FindUser, FindToken, RevokeToken,
        SignTokens, IssueTokenPair, Respond, Abort, Running, OwnIdentity
  <2>5. \/ request'[q].user = request[q].user
        \/ SignedIn(request[q].browser, request[q].user)'
    <3>1. CASE /\ request[q].at \in {"createUser", "findUser"}
               /\ \E u \in users' : u.email = request[q].email /\ request'[q].user = u.id
      <4>1. request[q].kind \in {"register", "login"}
        BY <1>0, <2>4, <3>1 DEF StagesFit, Presents, RequestState
      <4> QED
        BY <2>1, <3>1, <4>1 DEF SignedIn, SameRequest
    <3>2. CASE request[q].token # NoToken /\ request'[q].user = request[q].token.user
      <4>1. SignedIn(request[q].browser, request[q].token.user)'
        BY <2>1, <2>2, <3>2 DEF OwnIdentity, SameRequest
      <4> QED
        BY <2>1, <3>2, <4>1 DEF SameRequest, SignedIn
    <3> QED
      BY <1>3, <3>1, <3>2, HandlerOutcome
  <2>6. \/ request'[q].issued = request[q].issued /\ request'[q].user = request[q].user
        \/ request'[q].issued = NoToken
        \/ /\ request'[q].user = request[q].user /\ request[q].user # None
           /\ request'[q].issued.user = request[q].user
    <3>1. request[q].at \in {"createUser", "findUser", "findToken"} =>
            request[q].issued = NoToken
      BY DEF SessionsInv, IssuedOnce
    <3>2. request[q].at = "store" =>
            request[q].user \in Request /\ request[q].signed.user = request[q].user
      BY <1>0 DEF StagesFit
    <3> QED
      BY <1>3, <3>1, <3>2, HandlerOutcome
  <2>7. ASSUME NEW b \in Browser, jar'[b] # NoToken
        PROVE  SignedIn(b, jar[b].user)'
    <3>1. CASE jar'[b] = jar[b]
      BY <2>2, <2>7, <3>1 DEF OwnIdentity
    <3>2. CASE jar'[b] # jar[b]
      <4>1. Respond(q)
        BY <1>3, <3>2
        DEF HandlerStep, FindEmail, CreateUser, FindUser, FindToken, RevokeToken,
            SignTokens, IssueTokenPair, Abort
      <4>2. b = request[q].browser /\ jar'[b] = request[q].issued
        BY <1>0, <3>2, <4>1 DEF Respond
      <4>3. SignedIn(b, request[q].user) /\ request[q].issued.user = request[q].user
        BY <2>7, <4>2 DEF OwnIdentity
      <4> QED
        BY <2>2, <4>2, <4>3
    <3> QED
      BY <3>1, <3>2
  <2>8. ASSUME NEW r \in Request \ {q}
        PROVE  /\ request'[r].user # None => SignedIn(request[r].browser, request[r].user)'
               /\ request'[r].issued # NoToken =>
                    request'[r].user # None /\ request'[r].issued.user = request'[r].user
               /\ request'[r].kind = "none" => request'[r].at = "unsent"
    BY <2>2, <2>3 DEF OwnIdentity
  <2>9. ASSUME NEW r \in Request
        PROVE  request'[r].token # NoToken =>
                 SignedIn(request[r].browser, request[r].token.user)'
    BY <2>1, <2>2 DEF OwnIdentity, SameRequest
  <2>10. /\ request'[q].user # None => SignedIn(request[q].browser, request[q].user)'
         /\ request'[q].issued # NoToken =>
              request'[q].user # None /\ request'[q].issued.user = request'[q].user
         /\ request'[q].kind # "none"
    BY <2>1, <2>2, <2>4, <2>5, <2>6 DEF OwnIdentity, SameRequest
  <2> QED
    BY <2>7, <2>8, <2>9, <2>10 DEF OwnIdentity
<1>4. CASE Tick
  BY <1>1, <1>4 DEF Tick
<1> QED
  BY <1>1, <1>2, <1>3, <1>4 DEF SessionsNext, sessionsVars

(* A browser is never given the session of an account that it has not signed *)
(* in to or registered itself, over any chain of refreshes, overlapping      *)
(* requests, lost answers and answers out of order.                          *)
THEOREM SessionsAreOwn ==
  SessionsSpec => []\A b \in Browser : jar[b] # NoToken => SignedIn(b, jar[b].user)
<1>1. SessionsInit => OwnIdentity
  BY DEF SessionsInit, OwnIdentity, NewRequest, MadeRequest
<1>2. SessionsInv /\ OwnIdentity /\ [SessionsNext]_sessionsVars => OwnIdentity'
  BY OwnIdentityStep
<1>3. OwnIdentity => \A b \in Browser : jar[b] # NoToken => SignedIn(b, jar[b].user)
  BY DEF OwnIdentity
<1> QED
  BY <1>1, <1>2, <1>3, SessionsInvariant, PTL DEF SessionsSpec
=============================================================================
