----------------------------- MODULE SignInProofs -----------------------------
(***************************************************************************)
(* What a sign-in session promises, for any number of logins, requests,    *)
(* ticks, refreshes, callbacks and deaths: one line of credentials, and no  *)
(* way back from a logout.  The invariant is SesInv: the rows are typed,    *)
(* a login that became a session did so once (SignsInOnce, Begun), an       *)
(* ended session leaves nothing spendable (Lines), and a logout that was    *)
(* accepted came after the provider's session began (LoggedOut).            *)
(***************************************************************************)
EXTENDS SignInSessions, FiniteSetTheorems, TLAPS

SigningIn == {"exchange", "establish"}
Asking == {"ask", "refused", "spend", "doomed"}

Attempts == [at : {"none", "open", "consumed"}, until : Nat]
Sessions == [there : BOOLEAN, revoked : BOOLEAN, idle : Nat, absolute : Nat, token : Nat,
             named : BOOLEAN]
Credentials == [gen : Nat, until : Nat]
Providers == [on : BOOLEAN, ended : Int, token : Nat, says : SUBSET {"sid", "sub"}]
Handlings == [at : {"idle"} \cup SigningIn \cup Asking, of : Logins \cup {NoLogin}, gen : Nat,
              moment : Nat, token : Nat, named : BOOLEAN]

\* The types of the rows, of the provider's sessions and of the handlers.
SesTypeOK ==
    /\ now \in Nat
    /\ attempt \in [Logins -> Attempts]
    /\ session \in [Logins -> Sessions]
    /\ access \in [Logins -> SUBSET Credentials]
    /\ unspent \in [Logins -> SUBSET Nat]
    /\ issued \in [Logins -> Nat]
    /\ idp \in [Logins -> Providers]
    /\ established \in [Logins -> Nat]
    /\ request \in [Requests -> Handlings]

\* A handler works on a login; one that signs in has claimed the login's only
\* attempt, alone, and its session is not there yet; one that refreshes found it.
HandlersKnow ==
    \A q \in Requests :
        /\ ~Is(q, "idle") => request[q].of \in Logins
        /\ request[q].at \in SigningIn =>
              attempt[request[q].of].at = "consumed" /\ ~session[request[q].of].there
        /\ request[q].at \in Asking => session[request[q].of].there
SignsInOnce ==
    \A p, q \in Requests :
        /\ request[p].at \in SigningIn /\ request[q].at \in SigningIn
        /\ request[p].of = request[q].of
        => p = q
\* Before a login becomes a session there is nothing of it.
Begun ==
    \A l \in Logins :
        /\ session[l].there => attempt[l].at = "consumed" /\ established[l] = 1
        /\ ~session[l].there => /\ ~session[l].revoked /\ established[l] = 0
                                /\ access[l] = {} /\ unspent[l] = {} /\ issued[l] = 0

AtMostOne(S) == \A x, y \in S : x = y
\* One refresh token, one access token, and none when the session is over.
Lines ==
    \A l \in Logins :
        /\ AtMostOne(unspent[l]) /\ AtMostOne(access[l])
        /\ session[l].revoked => unspent[l] = {} /\ access[l] = {}

\* Only a session the provider opened is logged out there, once, and a logout the
\* service has seen left nothing that shares a name with it, nor anybody at its login.
LoggedOut ==
    /\ seen \subseteq sent /\ sent \subseteq Logins
    /\ \A l \in Logins : idp[l].on => attempt[l].at = "consumed"
    /\ \A l \in sent : idp[l].on /\ idp[l].ended >= 0
    /\ \A l \in seen \ late : ~UnderWay(l) /\ (CommonName(l) => ~Live(l))

SesInv == SesTypeOK /\ HandlersKnow /\ SignsInOnce /\ Begun /\ Lines /\ LoggedOut

-----------------------------------------------------------------------------
(* What most steps do.                                                          *)

\* No login begins, and none of those that began is undone.
LoginsStay ==
    \A l \in Logins :
        /\ session'[l].there = session[l].there /\ established'[l] = established[l]
        /\ session'[l].named = session[l].named
        /\ session[l].revoked => session'[l].revoked
        /\ attempt[l].at = "consumed" => attempt'[l].at = "consumed"
\* No credential is issued, and an ended session loses all of its own.
LinesEnd ==
    \A l \in Logins :
        /\ access'[l] \subseteq access[l] /\ unspent'[l] \subseteq unspent[l]
        /\ issued'[l] = issued[l]
        /\ session'[l].revoked /\ ~session[l].revoked =>
              session[l].there /\ access'[l] = {} /\ unspent'[l] = {}
\* A handler stays, ends, goes on with its login, or works for a session that is there.
HandlersMove ==
    \A p \in Requests :
        \/ request'[p] = request[p]
        \/ request'[p].at = "idle"
        \/ /\ request'[p].at \in Asking /\ request'[p].of \in Logins
           /\ session[request'[p].of].there
        \/ /\ request'[p].at \in SigningIn /\ request[p].at \in SigningIn
           /\ request'[p].of = request[p].of
\* The provider's sessions go on, and no logout is accepted.
LogoutsStay ==
    /\ seen' = seen /\ late' = late /\ sent \subseteq sent'
    /\ \A l \in sent' : l \in Logins /\ idp'[l].on /\ idp'[l].ended >= 0
    /\ \A l \in sent : idp'[l].says = idp[l].says
    /\ \A l \in Logins : idp'[l].on => idp[l].on \/ attempt[l].at = "consumed"

\* Handlers that move so know what they knew.
LEMMA HandlersKept ==
    ASSUME SesInv, SesTypeOK', LoginsStay, HandlersMove
    PROVE  /\ HandlersKnow' /\ SignsInOnce'
           /\ \A l \in Logins : UnderWay(l)' => UnderWay(l)
<1> USE DEF SesInv, SigningIn, Asking
<1>1. ASSUME NEW p \in Requests, request'[p].at \in SigningIn
      PROVE  request[p].at \in SigningIn /\ request'[p].of = request[p].of
  BY <1>1 DEF HandlersMove
<1>2. HandlersKnow'
  <2> SUFFICES ASSUME NEW p \in Requests
               PROVE  /\ request'[p].at # "idle" => request'[p].of \in Logins
                      /\ request'[p].at \in SigningIn =>
                            /\ attempt'[request'[p].of].at = "consumed"
                            /\ ~session'[request'[p].of].there
                      /\ request'[p].at \in Asking => session'[request'[p].of].there
    BY DEF HandlersKnow, Is
  <2>1. /\ ~Is(p, "idle") => request[p].of \in Logins
        /\ request[p].at \in SigningIn =>
              attempt[request[p].of].at = "consumed" /\ ~session[request[p].of].there
        /\ request[p].at \in Asking => session[request[p].of].there
    BY DEF HandlersKnow
  <2>2. request'[p].at # "idle" => request'[p].of \in Logins
    BY <2>1 DEF HandlersMove, Is
  <2>3. CASE request'[p].at \in SigningIn
    <3>1. request[p].at \in SigningIn /\ request'[p].of = request[p].of
      BY <1>1, <2>3
    <3>2. request[p].of \in Logins
      BY <2>1, <3>1 DEF Is
    <3> QED BY <2>1, <2>3, <3>1, <3>2 DEF LoginsStay
  <2>4. CASE request'[p].at \in Asking
    <3>1. request'[p].of \in Logins
      BY <2>2, <2>4
    <3>2. session[request'[p].of].there
      BY <2>1, <2>4 DEF HandlersMove
    <3> QED BY <2>4, <3>1, <3>2 DEF LoginsStay
  <2> QED BY <2>2, <2>3, <2>4
<1>3. SignsInOnce'
  <2> SUFFICES ASSUME NEW p \in Requests, NEW q \in Requests,
                      request'[p].at \in SigningIn, request'[q].at \in SigningIn,
                      request'[p].of = request'[q].of
               PROVE  p = q
    BY DEF SignsInOnce
  <2>1. request[p].at \in SigningIn /\ request'[p].of = request[p].of
    BY <1>1
  <2>2. request[q].at \in SigningIn /\ request'[q].of = request[q].of
    BY <1>1
  <2> QED BY <2>1, <2>2 DEF SignsInOnce
<1>4. ASSUME NEW l \in Logins, UnderWay(l)'
      PROVE  UnderWay(l)
  <2>1. PICK p \in Requests : request'[p].of = l /\ request'[p].at \in SigningIn
    BY <1>4 DEF UnderWay
  <2>2. request[p].at \in SigningIn /\ request'[p].of = request[p].of
    BY <1>1, <2>1
  <2> QED BY <2>1, <2>2 DEF UnderWay
<1> QED BY <1>2, <1>3, <1>4

\* Logouts stand where no session comes back and nobody begins to sign in.
LEMMA LogoutsKept ==
    ASSUME SesInv, SesTypeOK', LoginsStay, LogoutsStay,
           \A l \in Logins : UnderWay(l)' => UnderWay(l)
    PROVE  LoggedOut'
<1> USE DEF SesInv
<1>1. seen' \subseteq sent' /\ sent' \subseteq Logins
  BY DEF LoggedOut, LogoutsStay
<1>2. ASSUME NEW l \in Logins, idp'[l].on
      PROVE  attempt'[l].at = "consumed"
  BY <1>2 DEF LoggedOut, LogoutsStay, LoginsStay
<1>3. ASSUME NEW l \in sent'
      PROVE  idp'[l].on /\ idp'[l].ended >= 0
  BY <1>3 DEF LogoutsStay
<1>4. ASSUME NEW l \in seen' \ late'
      PROVE  ~UnderWay(l)' /\ (CommonName(l)' => ~Live(l)')
  <2>1. l \in seen \ late /\ l \in sent /\ l \in Logins
    BY <1>4 DEF LogoutsStay, LoggedOut
  <2>2. ~UnderWay(l) /\ (CommonName(l) => ~Live(l))
    BY <2>1 DEF LoggedOut
  <2>3. Live(l)' => Live(l)
    BY <2>1 DEF Live, LoginsStay
  <2>4. CommonName(l)' => CommonName(l)
    BY <2>1 DEF CommonName, LoginsStay, LogoutsStay
  <2> QED BY <2>1, <2>2, <2>3, <2>4
<1> QED BY <1>1, <1>2, <1>3, <1>4 DEF LoggedOut

\* Credentials that only end leave the lines as they were.
LEMMA LinesKept ==
    ASSUME SesInv, SesTypeOK', LoginsStay, LinesEnd
    PROVE  Begun' /\ Lines'
<1> USE DEF SesInv
<1>1. ASSUME NEW l \in Logins
      PROVE  /\ session'[l].there => attempt'[l].at = "consumed" /\ established'[l] = 1
             /\ ~session'[l].there => /\ ~session'[l].revoked /\ established'[l] = 0
                                      /\ access'[l] = {} /\ unspent'[l] = {} /\ issued'[l] = 0
  <2>1. /\ session[l].there => attempt[l].at = "consumed" /\ established[l] = 1
        /\ ~session[l].there => /\ ~session[l].revoked /\ established[l] = 0
                                /\ access[l] = {} /\ unspent[l] = {} /\ issued[l] = 0
    BY DEF Begun
  <2>2. session'[l].there = session[l].there /\ established'[l] = established[l]
    BY DEF LoginsStay
  <2>3. CASE session[l].there
    BY <2>1, <2>2, <2>3 DEF LoginsStay
  <2>4. CASE ~session[l].there
    BY <2>1, <2>2, <2>4 DEF LinesEnd
  <2> QED BY <2>3, <2>4
<1>2. ASSUME NEW l \in Logins
      PROVE  /\ AtMostOne(unspent'[l]) /\ AtMostOne(access'[l])
             /\ session'[l].revoked => unspent'[l] = {} /\ access'[l] = {}
  <2>1. /\ AtMostOne(unspent[l]) /\ AtMostOne(access[l])
        /\ session[l].revoked => unspent[l] = {} /\ access[l] = {}
    BY DEF Lines
  <2>2. access'[l] \subseteq access[l] /\ unspent'[l] \subseteq unspent[l]
    BY DEF LinesEnd
  <2>3. AtMostOne(unspent'[l]) /\ AtMostOne(access'[l])
    BY <2>1, <2>2 DEF AtMostOne
  <2>4. session'[l].revoked => unspent'[l] = {} /\ access'[l] = {}
    BY <2>1, <2>2 DEF LinesEnd
  <2> QED BY <2>3, <2>4
<1>3. Begun'
  BY <1>1 DEF Begun
<1>4. Lines'
  BY <1>2 DEF Lines, AtMostOne
<1> QED BY <1>3, <1>4

\* All of it together.
LEMMA AllKept ==
    ASSUME SesInv, SesTypeOK', LoginsStay, LinesEnd, HandlersMove, LogoutsStay
    PROVE  SesInv'
<1>1. HandlersKnow' /\ SignsInOnce' /\ \A l \in Logins : UnderWay(l)' => UnderWay(l)
  BY HandlersKept
<1>2. LoggedOut'
  BY <1>1, LogoutsKept
<1>3. Begun' /\ Lines'
  BY LinesKept
<1> QED BY <1>1, <1>2, <1>3 DEF SesInv

-----------------------------------------------------------------------------
(* The helpers of the actions.                                                  *)

\* The earlier of two moments is one.
LEMMA EarlierIsNat ==
    ASSUME NEW a \in Nat, NEW b \in Nat
    PROVE  Earlier(a, b) \in Nat
BY DEF Earlier

\* A handler that ends is typed.
LEMMA IdleTyped ==
    IdleRequest \in Handlings /\ IdleRequest.at = "idle"
BY DEF IdleRequest, Handling, Handlings

\* What a handler read of its login is typed.
LEMMA RowsTyped ==
    ASSUME SesTypeOK, NEW q \in Requests
    PROVE  /\ request[q] \in Handlings
           /\ request[q].of \in Logins \cup {NoLogin} /\ request[q].gen \in Nat
           /\ request[q].moment \in Nat /\ request[q].token \in Nat
           /\ request[q].named \in BOOLEAN
BY DEF SesTypeOK, Handlings

\* What becomes of a handler touches no other.
LEMMA BecomesTyped ==
    ASSUME SesTypeOK, NEW q \in Requests, NEW r \in Handlings, Becomes(q, r)
    PROVE  /\ request' \in [Requests -> Handlings] /\ request'[q] = r
           /\ \A p \in Requests : p # q => request'[p] = request[p]
BY DEF SesTypeOK, Becomes

\* A handler that ends moves as HandlersMove says.
LEMMA EndsMove ==
    ASSUME SesTypeOK, NEW q \in Requests, Becomes(q, IdleRequest)
    PROVE  request' \in [Requests -> Handlings] /\ HandlersMove
<1>1. IdleRequest \in Handlings /\ IdleRequest.at = "idle"
  BY IdleTyped
<1>2. /\ request' \in [Requests -> Handlings] /\ request'[q] = IdleRequest
      /\ \A p \in Requests : p # q => request'[p] = request[p]
  BY <1>1, BecomesTyped
<1> QED BY <1>1, <1>2 DEF HandlersMove
\* A handler left alone moves so as well.
LEMMA AloneMove ==
    ASSUME SesTypeOK, UNCHANGED request
    PROVE  request' \in [Requests -> Handlings] /\ HandlersMove
BY DEF SesTypeOK, HandlersMove

\* A revocation ends sessions, and nothing else; it is for sessions that are there.
LEMMA RevokeEnds ==
    ASSUME SesTypeOK, NEW ls, \A l \in Logins : l \in ls => session[l].there,
           Revoke(ls), UNCHANGED <<attempt, established>>
    PROVE  /\ session' \in [Logins -> Sessions] /\ access' \in [Logins -> SUBSET Credentials]
           /\ unspent' \in [Logins -> SUBSET Nat] /\ issued' \in [Logins -> Nat]
           /\ LoginsStay /\ LinesEnd
           /\ \A l \in Logins : l \in ls => session'[l].revoked
<1>1. ASSUME NEW l \in Logins
      PROVE  /\ [session[l] EXCEPT !.revoked = TRUE] \in Sessions
             /\ [session[l] EXCEPT !.revoked = TRUE].there = session[l].there
             /\ [session[l] EXCEPT !.revoked = TRUE].named = session[l].named
             /\ [session[l] EXCEPT !.revoked = TRUE].revoked
  <2>1. session[l] \in Sessions
    BY DEF SesTypeOK
  <2> QED BY <2>1 DEF Sessions
<1>2. ASSUME NEW l \in Logins
      PROVE  /\ session'[l] \in Sessions /\ session'[l].there = session[l].there
             /\ session'[l].named = session[l].named
             /\ l \in ls => session'[l].revoked
             /\ l \notin ls => session'[l] = session[l]
  BY <1>1 DEF Revoke, SesTypeOK
<1>3. session' \in [Logins -> Sessions]
  BY <1>2 DEF Revoke
<1>4. ASSUME NEW l \in Logins
      PROVE  /\ access'[l] = IF l \in ls THEN {} ELSE access[l]
             /\ unspent'[l] = IF l \in ls THEN {} ELSE unspent[l]
  BY DEF Revoke
<1>5. access' \in [Logins -> SUBSET Credentials]
  BY DEF Revoke, SesTypeOK
<1>6. unspent' \in [Logins -> SUBSET Nat] /\ issued' \in [Logins -> Nat]
  BY DEF Revoke, SesTypeOK
<1>7. LoginsStay
  BY <1>2 DEF LoginsStay
<1>8. LinesEnd
  BY <1>2, <1>4 DEF LinesEnd, Revoke
<1> QED BY <1>2, <1>3, <1>5, <1>6, <1>7, <1>8

\* Where no row of a session changes, nothing of it does.
LEMMA RowsRest ==
    ASSUME SesTypeOK, UNCHANGED <<rows, established>>,
           \A l \in Logins : attempt[l].at = "consumed" => attempt'[l].at = "consumed"
    PROVE  /\ session' \in [Logins -> Sessions] /\ access' \in [Logins -> SUBSET Credentials]
           /\ unspent' \in [Logins -> SUBSET Nat] /\ issued' \in [Logins -> Nat]
           /\ established' \in [Logins -> Nat]
           /\ LoginsStay /\ LinesEnd
BY DEF SesTypeOK, rows, LoginsStay, LinesEnd

\* Where no row of the provider or of its logouts changes, logouts stay.
LEMMA LogoutsRest ==
    ASSUME SesInv, UNCHANGED <<idp, sent, seen, late>>
    PROVE  idp' \in [Logins -> Providers] /\ LogoutsStay
BY DEF SesInv, SesTypeOK, LoggedOut, LogoutsStay

\* A handler that is not idle works on a login.
LEMMA WorksOnLogin ==
    ASSUME SesInv, NEW q \in Requests, ~Is(q, "idle")
    PROVE  request[q].of \in Logins
BY DEF SesInv, HandlersKnow

-----------------------------------------------------------------------------
(* Signing in.                                                                  *)

\* An attempt moves on, and no other.
LEMMA AttemptMoves ==
    ASSUME SesTypeOK, NEW l \in Logins, attempt[l].at # "consumed", StartAuthorization(l)
    PROVE  /\ attempt' \in [Logins -> Attempts]
           /\ \A k \in Logins : attempt[k].at = "consumed" => attempt'[k].at = "consumed"
<1>1. now + LoginWindow \in Nat
  BY SessionsAssumption DEF SesTypeOK
<1>2. [at |-> "open", until |-> now + LoginWindow] \in Attempts
  BY <1>1 DEF Attempts
<1> QED BY <1>2 DEF SesTypeOK, StartAuthorization

\* A claimed attempt is consumed, whatever it was.
LEMMA AttemptEnds ==
    ASSUME SesTypeOK, NEW l \in Logins, attempt' = [attempt EXCEPT ![l].at = "consumed"]
    PROVE  /\ attempt' \in [Logins -> Attempts] /\ attempt'[l].at = "consumed"
           /\ \A k \in Logins : attempt[k].at = "consumed" => attempt'[k].at = "consumed"
<1>1. attempt[l] \in Attempts
  BY DEF SesTypeOK
<1>2. [attempt[l] EXCEPT !.at = "consumed"] \in Attempts
  BY <1>1 DEF Attempts
<1>3. attempt'[l] = [attempt[l] EXCEPT !.at = "consumed"]
  BY DEF SesTypeOK
<1>4. attempt'[l].at = "consumed"
  BY <1>1, <1>3 DEF Attempts
<1>5. \A k \in Logins : k # l => attempt'[k] = attempt[k]
  BY DEF SesTypeOK
<1>6. attempt' \in [Logins -> Attempts]
  BY <1>2 DEF SesTypeOK
<1> QED BY <1>4, <1>5, <1>6

\* A login begins with its attempt.
LEMMA BeginLoginKeeps ==
    ASSUME SesInv, NEW l \in Logins, BeginLogin(l)
    PROVE  SesInv'
<1>0. SesTypeOK
  BY DEF SesInv
<1>1. /\ attempt' \in [Logins -> Attempts]
      /\ \A k \in Logins : attempt[k].at = "consumed" => attempt'[k].at = "consumed"
  BY <1>0, AttemptMoves DEF BeginLogin
<1>2. /\ session' \in [Logins -> Sessions] /\ access' \in [Logins -> SUBSET Credentials]
      /\ unspent' \in [Logins -> SUBSET Nat] /\ issued' \in [Logins -> Nat]
      /\ established' \in [Logins -> Nat]
      /\ LoginsStay /\ LinesEnd
  BY <1>0, <1>1, RowsRest DEF BeginLogin
<1>3. idp' \in [Logins -> Providers] /\ LogoutsStay
  BY LogoutsRest DEF BeginLogin, OnlyRequest
<1>4. request' \in [Requests -> Handlings] /\ HandlersMove
  BY <1>0, AloneMove DEF BeginLogin
<1>5. SesTypeOK'
  BY <1>0, <1>1, <1>2, <1>3, <1>4 DEF SesTypeOK, BeginLogin, OnlyRequest
<1> QED BY <1>2, <1>3, <1>4, <1>5, AllKept

\* One callback gets the attempt; it is the only one of its login ever to.
LEMMA ClaimAuthorizationKeeps ==
    ASSUME SesInv, NEW l \in Logins, NEW q \in Requests, NEW own \in BOOLEAN,
           ClaimAuthorization(q, l, own)
    PROVE  SesInv'
<1>0. SesTypeOK
  BY DEF SesInv
<1>1. LogoutsStay /\ idp' \in [Logins -> Providers]
  BY LogoutsRest DEF ClaimAuthorization
<1>2. CASE ~MayClaim(l, own)
  <2>1. UNCHANGED <<attempt, request, rows, established, now>>
    BY <1>2 DEF ClaimAuthorization
  <2>2. /\ session' \in [Logins -> Sessions] /\ access' \in [Logins -> SUBSET Credentials]
        /\ unspent' \in [Logins -> SUBSET Nat] /\ issued' \in [Logins -> Nat]
        /\ established' \in [Logins -> Nat]
        /\ LoginsStay /\ LinesEnd
    BY <1>0, <2>1, RowsRest
  <2>3. request' \in [Requests -> Handlings] /\ HandlersMove
    BY <1>0, <2>1, AloneMove
  <2>4. SesTypeOK'
    BY <1>0, <1>1, <2>1, <2>2, <2>3 DEF SesTypeOK
  <2> QED BY <1>1, <2>2, <2>3, <2>4, AllKept
<1>3. CASE MayClaim(l, own)
  <2>1. /\ attempt' = [attempt EXCEPT ![l].at = "consumed"]
        /\ UNCHANGED <<rows, established, now>>
        /\ attempt[l].at = "open"
        /\ Becomes(q, IdleRequest) \/ Becomes(q, Handling("exchange", l, 0, now, 0))
    BY <1>3 DEF ClaimAuthorization, MayClaim
  <2>2. /\ attempt' \in [Logins -> Attempts] /\ attempt'[l].at = "consumed"
        /\ \A k \in Logins : attempt[k].at = "consumed" => attempt'[k].at = "consumed"
    BY <1>0, <2>1, AttemptEnds
  <2>3. /\ session' \in [Logins -> Sessions] /\ access' \in [Logins -> SUBSET Credentials]
        /\ unspent' \in [Logins -> SUBSET Nat] /\ issued' \in [Logins -> Nat]
        /\ established' \in [Logins -> Nat]
        /\ LoginsStay /\ LinesEnd
    BY <1>0, <2>1, <2>2, RowsRest
  <2>4. CASE Becomes(q, IdleRequest)
    <3>1. request' \in [Requests -> Handlings] /\ HandlersMove
      BY <1>0, <2>4, EndsMove
    <3>2. SesTypeOK'
      BY <1>0, <1>1, <2>1, <2>2, <2>3, <3>1 DEF SesTypeOK
    <3> QED BY <1>1, <2>3, <3>1, <3>2, AllKept
  <2>5. CASE Becomes(q, Handling("exchange", l, 0, now, 0))
    <3>1. PICK r : r = Handling("exchange", l, 0, now, 0)
      OBVIOUS
    <3>2. r \in Handlings /\ r.at = "exchange" /\ r.of = l
      BY <1>0, <3>1 DEF SesTypeOK, Handling, Handlings, SigningIn
    <3>3. /\ request' \in [Requests -> Handlings] /\ request'[q] = r
          /\ \A p \in Requests : p # q => request'[p] = request[p]
      BY <1>0, <2>5, <3>1, <3>2, BecomesTyped
    <3>4. SesTypeOK'
      BY <1>0, <1>1, <2>1, <2>2, <2>3, <3>3 DEF SesTypeOK
    <3>5. Begun' /\ Lines'
      BY <2>3, <3>4, LinesKept
    <3>6. ~session[l].there /\ ~idp[l].on
      BY <2>1 DEF SesInv, Begun, LoggedOut
    <3>7. ASSUME NEW p \in Requests, request[p].at \in SigningIn
          PROVE  request[p].of # l
      BY <2>1, <3>7 DEF SesInv, HandlersKnow
    <3>8. HandlersKnow'
      <4> SUFFICES ASSUME NEW p \in Requests
                   PROVE  /\ request'[p].at # "idle" => request'[p].of \in Logins
                          /\ request'[p].at \in SigningIn =>
                                /\ attempt'[request'[p].of].at = "consumed"
                                /\ ~session'[request'[p].of].there
                          /\ request'[p].at \in Asking => session'[request'[p].of].there
        BY DEF HandlersKnow, Is
      <4>1. CASE p = q
        BY <2>2, <2>3, <3>2, <3>3, <3>6, <4>1 DEF LoginsStay, Asking
      <4>2. CASE p # q
        <5>1. request'[p] = request[p]
          BY <3>3, <4>2
        <5>2. /\ request[p].at # "idle" => request[p].of \in Logins
              /\ request[p].at \in SigningIn =>
                    attempt[request[p].of].at = "consumed" /\ ~session[request[p].of].there
              /\ request[p].at \in Asking => session[request[p].of].there
          BY DEF SesInv, HandlersKnow, Is
        <5>3. "idle" \notin SigningIn /\ "idle" \notin Asking
          BY DEF SigningIn, Asking
        <5> QED BY <5>1, <5>2, <5>3, <2>3 DEF LoginsStay
      <4> QED BY <4>1, <4>2
    <3>9. SignsInOnce'
      <4> SUFFICES ASSUME NEW p \in Requests, NEW o \in Requests,
                          request'[p].at \in SigningIn, request'[o].at \in SigningIn,
                          request'[p].of = request'[o].of
                   PROVE  p = o
        BY DEF SignsInOnce
      <4>1. CASE p = q /\ o # q
        BY <3>2, <3>3, <3>7, <4>1
      <4>2. CASE o = q /\ p # q
        BY <3>2, <3>3, <3>7, <4>2
      <4>3. CASE p # q /\ o # q
        BY <3>3, <4>3 DEF SesInv, SignsInOnce
      <4> QED BY <4>1, <4>2, <4>3
    <3>10. LoggedOut'
      <4>1. seen' \subseteq sent' /\ sent' \subseteq Logins
        BY DEF SesInv, LoggedOut, ClaimAuthorization
      <4>2. \A k \in Logins : idp'[k].on => attempt'[k].at = "consumed"
        BY <2>2 DEF SesInv, LoggedOut, ClaimAuthorization
      <4>3. \A k \in sent' : idp'[k].on /\ idp'[k].ended >= 0
        BY DEF SesInv, LoggedOut, ClaimAuthorization
      <4>4. ASSUME NEW k \in seen' \ late'
            PROVE  ~UnderWay(k)' /\ (CommonName(k)' => ~Live(k)')
        <5>1. /\ k \in seen \ late /\ k \in Logins /\ idp[k].on /\ ~UnderWay(k)
              /\ CommonName(k) => ~Live(k)
          BY <4>4 DEF SesInv, LoggedOut, ClaimAuthorization
        <5>2. k # l
          BY <3>6, <5>1
        <5>3. CommonName(k)' => ~Live(k)'
          BY <2>1, <5>1 DEF Live, CommonName, rows, ClaimAuthorization
        <5>4. ~UnderWay(k)'
          BY <3>2, <3>3, <5>1, <5>2 DEF UnderWay
        <5> QED BY <5>3, <5>4
      <4> QED BY <4>1, <4>2, <4>3, <4>4 DEF LoggedOut
    <3> QED BY <3>4, <3>5, <3>8, <3>9, <3>10 DEF SesInv
  <2> QED BY <2>1, <2>4, <2>5
<1> QED BY <1>2, <1>3

\* The provider's answer opens its session, and the login goes on.
LEMMA ExchangeCodeKeeps ==
    ASSUME SesInv, NEW q \in Requests, ExchangeCode(q)
    PROVE  SesInv'
<1>0. SesTypeOK
  BY DEF SesInv
<1>1. PICK offline \in {0, 1}, named \in BOOLEAN :
          /\ idp' = [idp EXCEPT ![request[q].of].on = TRUE, ![request[q].of].token = offline]
          /\ Becomes(q, [at |-> "establish", of |-> request[q].of, gen |-> 0,
                         moment |-> request[q].moment, token |-> offline, named |-> named])
  BY DEF ExchangeCode
<1>2. request[q].at = "exchange" /\ request[q].of \in Logins
  BY WorksOnLogin DEF ExchangeCode, Is
<1>3. attempt[request[q].of].at = "consumed"
  BY <1>2 DEF SesInv, HandlersKnow, SigningIn
<1>4. UNCHANGED <<now, attempt, rows, sent, seen, late, established>>
  BY DEF ExchangeCode
<1>5. PICK was : was = idp[request[q].of]
  OBVIOUS
<1>6. PICK o : o = [on |-> TRUE, ended |-> was.ended, token |-> offline, says |-> was.says]
  OBVIOUS
<1>7. /\ idp' \in [Logins -> Providers]
      /\ \A l \in Logins : l # request[q].of => idp'[l] = idp[l]
      /\ idp'[request[q].of].on
      /\ \A l \in Logins : idp'[l].says = idp[l].says /\ idp'[l].ended = idp[l].ended
  <2>1. was \in Providers
    BY <1>0, <1>2, <1>5 DEF SesTypeOK
  <2>2. o \in Providers /\ o.on /\ o.says = was.says /\ o.ended = was.ended
    BY <1>6, <2>1 DEF Providers
  <2>3. idp'[request[q].of] = [[was EXCEPT !.on = TRUE] EXCEPT !.token = offline]
    BY <1>0, <1>1, <1>2, <1>5 DEF SesTypeOK
  <2>4. idp'[request[q].of] = o
    BY <1>6, <2>1, <2>3 DEF Providers
  <2>5. \A l \in Logins : l # request[q].of => idp'[l] = idp[l]
    BY <1>0, <1>1, <1>2 DEF SesTypeOK
  <2>6. idp' \in [Logins -> Providers]
    <3>1. \A l \in Logins : idp'[l] \in Providers
      BY <1>0, <2>2, <2>4, <2>5 DEF SesTypeOK
    <3>2. idp' = [l \in Logins |-> idp'[l]]
      BY <1>0, <1>1 DEF SesTypeOK
    <3> QED BY <3>1, <3>2
  <2> QED BY <1>5, <2>2, <2>4, <2>5, <2>6
<1>8. PICK r : r = [at |-> "establish", of |-> request[q].of, gen |-> 0,
                    moment |-> request[q].moment, token |-> offline, named |-> named]
  OBVIOUS
<1>9. request[q].moment \in Nat
  BY <1>0, RowsTyped
<1>10. r \in Handlings /\ r.at = "establish" /\ r.of = request[q].of
  BY <1>2, <1>8, <1>9 DEF Handlings, SigningIn
<1>11. /\ request' \in [Requests -> Handlings] /\ request'[q] = r
       /\ \A p \in Requests : p # q => request'[p] = request[p]
  BY <1>0, <1>1, <1>8, <1>10, BecomesTyped
<1>12. HandlersMove
  BY <1>2, <1>10, <1>11 DEF HandlersMove, SigningIn
<1>13. /\ session' \in [Logins -> Sessions] /\ access' \in [Logins -> SUBSET Credentials]
       /\ unspent' \in [Logins -> SUBSET Nat] /\ issued' \in [Logins -> Nat]
       /\ established' \in [Logins -> Nat]
       /\ LoginsStay /\ LinesEnd
  BY <1>0, <1>4, RowsRest
<1>14. LogoutsStay
  <2>1. \A l \in sent' : l \in Logins /\ idp'[l].on /\ idp'[l].ended >= 0
    BY <1>4, <1>7 DEF SesInv, LoggedOut
  <2>2. \A l \in sent : idp'[l].says = idp[l].says
    BY <1>7 DEF SesInv, LoggedOut
  <2>3. \A l \in Logins : idp'[l].on => idp[l].on \/ attempt[l].at = "consumed"
    BY <1>3, <1>7
  <2> QED BY <1>4, <2>1, <2>2, <2>3 DEF LogoutsStay
<1>15. SesTypeOK'
  BY <1>0, <1>4, <1>7, <1>11, <1>13 DEF SesTypeOK
<1> QED BY <1>12, <1>13, <1>14, <1>15, AllKept

\* A handler that ends without a word changes nothing.
LEMMA GivesUpKeeps ==
    ASSUME SesInv, NEW q \in Requests, Becomes(q, IdleRequest),
           UNCHANGED <<now, attempt, rows, established, idp, sent, seen, late>>
    PROVE  SesInv'
<1>0. SesTypeOK
  BY DEF SesInv
<1>1. request' \in [Requests -> Handlings] /\ HandlersMove
  BY <1>0, EndsMove
<1>2. /\ session' \in [Logins -> Sessions] /\ access' \in [Logins -> SUBSET Credentials]
      /\ unspent' \in [Logins -> SUBSET Nat] /\ issued' \in [Logins -> Nat]
      /\ established' \in [Logins -> Nat]
      /\ LoginsStay /\ LinesEnd
  BY <1>0, RowsRest
<1>3. idp' \in [Logins -> Providers] /\ LogoutsStay
  BY LogoutsRest
<1>4. SesTypeOK'
  BY <1>0, <1>1, <1>2, <1>3 DEF SesTypeOK
<1> QED BY <1>1, <1>2, <1>3, <1>4, AllKept

\* The row a login that ends well writes.
LEMMA NewSessionTyped ==
    ASSUME NEW r \in Handlings
    PROVE  /\ NewSession(r) \in Sessions /\ NewSession(r).there /\ ~NewSession(r).revoked
           /\ Earlier(r.moment + AccessTime, Lasts(r)) \in Nat
<1>1. r.moment \in Nat /\ r.token \in Nat /\ r.named \in BOOLEAN
  BY DEF Handlings
<1>2. IdleTime \in Nat /\ AbsoluteTime \in Nat /\ ShortTime \in Nat /\ AccessTime \in Nat
  BY SessionsAssumption
<1>3. Lasts(r) \in Nat
  BY <1>1, <1>2 DEF Lasts, Earlier
<1>4. r.moment + IdleTime \in Nat /\ r.moment + AccessTime \in Nat
  BY <1>1, <1>2
<1>5. Earlier(r.moment + AccessTime, Lasts(r)) \in Nat
  BY <1>3, <1>4 DEF Earlier
<1> QED BY <1>1, <1>3, <1>4, <1>5 DEF NewSession, Sessions

\* A login becomes a session once: no other handler of it signs in.
LEMMA EstablishKeeps ==
    ASSUME SesInv, NEW q \in Requests, Establish(q)
    PROVE  SesInv'
<1>0. SesTypeOK
  BY DEF SesInv
<1>1. PICK l : l = request[q].of
  OBVIOUS
<1>2. request[q].at = "establish" /\ l \in Logins /\ request[q] \in Handlings
  BY <1>0, <1>1, WorksOnLogin, RowsTyped DEF Establish, Is
<1>3. PICK until : until = Earlier(request[q].moment + AccessTime, Lasts(request[q]))
  OBVIOUS
<1>4. PICK new : new = NewSession(request[q])
  OBVIOUS
<1>5. new \in Sessions /\ new.there /\ ~new.revoked /\ until \in Nat
  BY <1>2, <1>3, <1>4, NewSessionTyped
<1>6. /\ session' = [session EXCEPT ![l] = new]
      /\ access' = [access EXCEPT ![l] = access[l] \cup {[gen |-> 1, until |-> until]}]
      /\ unspent' = [unspent EXCEPT ![l] = unspent[l] \cup {1}]
      /\ issued' = [issued EXCEPT ![l] = 1]
      /\ established' = [established EXCEPT ![l] = established[l] + 1]
      /\ Becomes(q, IdleRequest)
  BY <1>1, <1>3, <1>4 DEF Establish
<1>7. UNCHANGED <<now, attempt, idp, sent, seen, late>>
  BY DEF Establish, OnlyRequest
<1>8. /\ ~session[l].there /\ attempt[l].at = "consumed" /\ established[l] = 0
      /\ access[l] = {} /\ unspent[l] = {}
  BY <1>1, <1>2 DEF SesInv, HandlersKnow, Begun, SigningIn
<1>9. PICK token : token = [gen |-> 1, until |-> until]
  OBVIOUS
<1>10. token \in Credentials
  BY <1>5, <1>9 DEF Credentials
<1>11. /\ session'[l] = new /\ established'[l] = 1 /\ access'[l] = {token} /\ unspent'[l] = {1}
       /\ \A k \in Logins : k # l => /\ session'[k] = session[k] /\ established'[k] = established[k]
                                     /\ access'[k] = access[k] /\ unspent'[k] = unspent[k]
                                     /\ issued'[k] = issued[k]
  BY <1>0, <1>2, <1>6, <1>8, <1>9 DEF SesTypeOK
<1>12. request' \in [Requests -> Handlings] /\ HandlersMove
  BY <1>0, <1>6, EndsMove
<1>13. SesTypeOK'
  <2>1. session' \in [Logins -> Sessions] /\ issued' \in [Logins -> Nat]
    BY <1>0, <1>2, <1>5, <1>6 DEF SesTypeOK
  <2>2. access' \in [Logins -> SUBSET Credentials]
    BY <1>0, <1>2, <1>6, <1>9, <1>10 DEF SesTypeOK
  <2>3. unspent' \in [Logins -> SUBSET Nat]
    BY <1>0, <1>2, <1>6 DEF SesTypeOK
  <2>4. established' \in [Logins -> Nat]
    BY <1>0, <1>2, <1>6 DEF SesTypeOK
  <2> QED BY <1>0, <1>7, <1>12, <2>1, <2>2, <2>3, <2>4 DEF SesTypeOK
<1>14. /\ request'[q] = IdleRequest /\ IdleRequest.at = "idle"
       /\ \A p \in Requests : p # q => request'[p] = request[p]
  BY <1>0, <1>6, IdleTyped, BecomesTyped
<1>15. ASSUME NEW p \in Requests, p # q, request[p].at \in SigningIn
       PROVE  request[p].of # l
  BY <1>1, <1>2, <1>15 DEF SesInv, SignsInOnce, SigningIn
<1>16. HandlersKnow'
  <2> SUFFICES ASSUME NEW p \in Requests
               PROVE  /\ request'[p].at # "idle" => request'[p].of \in Logins
                      /\ request'[p].at \in SigningIn =>
                            /\ attempt'[request'[p].of].at = "consumed"
                            /\ ~session'[request'[p].of].there
                      /\ request'[p].at \in Asking => session'[request'[p].of].there
    BY DEF HandlersKnow, Is
  <2>1. CASE p = q
    BY <1>14, <2>1 DEF SigningIn, Asking
  <2>2. CASE p # q
    <3>1. request'[p] = request[p]
      BY <1>14, <2>2
    <3>2. /\ request[p].at # "idle" => request[p].of \in Logins
          /\ request[p].at \in SigningIn =>
                attempt[request[p].of].at = "consumed" /\ ~session[request[p].of].there
          /\ request[p].at \in Asking => session[request[p].of].there
      BY DEF SesInv, HandlersKnow, Is
    <3>3. "idle" \notin SigningIn /\ "idle" \notin Asking
      BY DEF SigningIn, Asking
    <3>4. CASE request[p].at \in SigningIn
      BY <1>7, <1>11, <1>15, <2>2, <3>1, <3>2, <3>3, <3>4 DEF SigningIn, Asking
    <3>5. CASE request[p].at \in Asking
      BY <1>5, <1>11, <3>1, <3>2, <3>3, <3>5 DEF SigningIn, Asking
    <3> QED BY <3>1, <3>2, <3>4, <3>5
  <2> QED BY <2>1, <2>2
<1>17. SignsInOnce'
  BY <1>14 DEF SesInv, SignsInOnce, SigningIn
<1>18. Begun'
  BY <1>5, <1>7, <1>8, <1>11 DEF SesInv, Begun
<1>19. Lines'
  <2>1. ASSUME NEW k \in Logins
        PROVE  /\ AtMostOne(unspent'[k]) /\ AtMostOne(access'[k])
               /\ session'[k].revoked => unspent'[k] = {} /\ access'[k] = {}
    <3>1. CASE k = l
      BY <1>5, <1>11, <3>1 DEF AtMostOne
    <3>2. CASE k # l
      BY <1>11, <3>2 DEF SesInv, Lines
    <3> QED BY <3>1, <3>2
  <2> QED BY <2>1 DEF Lines, AtMostOne
<1>20. LoggedOut'
  <2>1. ASSUME NEW k \in seen' \ late'
        PROVE  ~UnderWay(k)' /\ (CommonName(k)' => ~Live(k)')
    <3>1. /\ k \in seen \ late /\ k \in Logins /\ ~UnderWay(k)
          /\ CommonName(k) => ~Live(k)
      BY <1>7, <2>1 DEF SesInv, LoggedOut
    <3>2. k # l
      BY <1>1, <1>2, <3>1 DEF UnderWay
    <3>3. CommonName(k)' => ~Live(k)'
      BY <1>7, <1>11, <3>1, <3>2 DEF Live, CommonName
    <3>4. ~UnderWay(k)'
      BY <1>14, <3>1 DEF UnderWay
    <3> QED BY <3>3, <3>4
  <2> QED BY <1>7, <2>1 DEF SesInv, LoggedOut
<1> QED BY <1>13, <1>16, <1>17, <1>18, <1>19, <1>20 DEF SesInv

-----------------------------------------------------------------------------
(* Refreshes.                                                                   *)

\* A handler set to work on a session that is there moves as HandlersMove says.
LEMMA RefreshMoves ==
    ASSUME SesTypeOK, NEW q \in Requests, NEW r \in Handlings, Becomes(q, r),
           r.at \in Asking, r.of \in Logins, session[r.of].there
    PROVE  request' \in [Requests -> Handlings] /\ HandlersMove
<1>1. /\ request' \in [Requests -> Handlings] /\ request'[q] = r
      /\ \A p \in Requests : p # q => request'[p] = request[p]
  BY BecomesTyped
<1> QED BY <1>1 DEF HandlersMove

\* Whoever presents a token has it from a session that is there.
LEMMA PresentRefreshKeeps ==
    ASSUME SesInv, NEW q \in Requests, NEW l \in Logins, NEW g \in 1 .. issued[l],
           PresentRefresh(q, l, g)
    PROVE  SesInv'
<1>0. SesTypeOK
  BY DEF SesInv
<1>1. PICK at : at = IF AsksProvider(l, g) THEN "ask" ELSE "spend"
  OBVIOUS
<1>2. PICK r : r = Handling(at, l, g, now, session[l].token)
  OBVIOUS
<1>3. Becomes(q, r) /\ UNCHANGED <<attempt, rows, established>>
  BY <1>1, <1>2 DEF PresentRefresh
<1>4. UNCHANGED <<now, idp, sent, seen, late>>
  BY DEF PresentRefresh, OnlyRequest
<1>5. at \in Asking
  BY <1>1 DEF Asking
<1>6. issued[l] \in Nat /\ now \in Nat /\ session[l] \in Sessions
  BY <1>0 DEF SesTypeOK
<1>7. g \in Nat /\ issued[l] # 0
  BY <1>6
<1>8. session[l].token \in Nat
  BY <1>6 DEF Sessions
<1>9. session[l].there
  BY <1>7 DEF SesInv, Begun
<1>10. r \in Handlings /\ r.at = at /\ r.of = l
  BY <1>2, <1>5, <1>6, <1>7, <1>8 DEF Handling, Handlings, Asking
<1>11. request' \in [Requests -> Handlings] /\ HandlersMove
  BY <1>0, <1>3, <1>5, <1>9, <1>10, RefreshMoves
<1>12. /\ session' \in [Logins -> Sessions] /\ access' \in [Logins -> SUBSET Credentials]
       /\ unspent' \in [Logins -> SUBSET Nat] /\ issued' \in [Logins -> Nat]
       /\ established' \in [Logins -> Nat]
       /\ LoginsStay /\ LinesEnd
  BY <1>0, <1>3, RowsRest
<1>13. idp' \in [Logins -> Providers] /\ LogoutsStay
  BY <1>4, LogoutsRest
<1>14. SesTypeOK'
  BY <1>0, <1>3, <1>4, <1>11, <1>12, <1>13 DEF SesTypeOK
<1> QED BY <1>11, <1>12, <1>13, <1>14, AllKept

\* The step of a handler that ends the sessions ls and goes.
LEMMA RevokesAndGoes ==
    ASSUME SesInv, NEW ls, \A l \in Logins : l \in ls => session[l].there,
           Revoke(ls), UNCHANGED <<now, attempt, established, idp, sent, seen, late>>,
           request' \in [Requests -> Handlings], HandlersMove
    PROVE  SesInv'
<1>0. SesTypeOK
  BY DEF SesInv
<1>1. /\ session' \in [Logins -> Sessions] /\ access' \in [Logins -> SUBSET Credentials]
      /\ unspent' \in [Logins -> SUBSET Nat] /\ issued' \in [Logins -> Nat]
      /\ LoginsStay /\ LinesEnd
  BY <1>0, RevokeEnds
<1>2. idp' \in [Logins -> Providers] /\ LogoutsStay
  BY LogoutsRest
<1>3. SesTypeOK'
  BY <1>0, <1>1, <1>2 DEF SesTypeOK
<1> QED BY <1>1, <1>2, <1>3, AllKept

\* The provider's answer ends the session or sends the handler on.
LEMMA RevalidateKeeps ==
    ASSUME SesInv, NEW q \in Requests, Revalidate(q)
    PROVE  SesInv'
<1>0. SesTypeOK
  BY DEF SesInv
<1>1. PICK l : l = request[q].of
  OBVIOUS
<1>2. request[q].at = "ask" /\ l \in Logins
  BY <1>1, WorksOnLogin DEF Revalidate, Is
<1>3. session[l].there
  BY <1>1, <1>2 DEF SesInv, HandlersKnow, Asking
<1>4. UNCHANGED <<now, attempt, sent, seen, late, established>>
  BY DEF Revalidate
<1>5. CASE RefusedAtProvider(q)
  <2>1. PICK r : r = [request[q] EXCEPT !.at = "refused"]
    OBVIOUS
  <2>2. Becomes(q, r) /\ UNCHANGED idp /\ UNCHANGED rows
    BY <1>1, <1>5, <2>1 DEF Revalidate
  <2>3. request[q] \in Handlings
    BY <1>0, RowsTyped
  <2>4. r \in Handlings /\ r.at = "refused" /\ r.of = l
    BY <1>1, <1>2, <2>1, <2>3 DEF Handlings, Asking
  <2>5. r.at \in Asking
    BY <2>4 DEF Asking
  <2>6. request' \in [Requests -> Handlings] /\ HandlersMove
    BY <1>0, <1>2, <1>3, <2>2, <2>4, <2>5, RefreshMoves
  <2>7. /\ session' \in [Logins -> Sessions] /\ access' \in [Logins -> SUBSET Credentials]
        /\ unspent' \in [Logins -> SUBSET Nat] /\ issued' \in [Logins -> Nat]
        /\ established' \in [Logins -> Nat]
        /\ LoginsStay /\ LinesEnd
    BY <1>0, <1>4, <2>2, RowsRest
  <2>8. idp' \in [Logins -> Providers] /\ LogoutsStay
    BY <1>4, <2>2, LogoutsRest
  <2>9. SesTypeOK'
    BY <1>0, <1>4, <2>6, <2>7, <2>8 DEF SesTypeOK
  <2> QED BY <2>6, <2>7, <2>8, <2>9, AllKept
<1>6. CASE ~RefusedAtProvider(q)
  <2>1. PICK r : r = Handling("spend", l, request[q].gen, request[q].moment, idp[l].token + 1)
    OBVIOUS
  <2>2. /\ idp' = [idp EXCEPT ![l].token = @ + 1] /\ Becomes(q, r) /\ UNCHANGED rows
    BY <1>1, <1>6, <2>1 DEF Revalidate
  <2>3. /\ idp[l] \in Providers
        /\ request[q].gen \in Nat /\ request[q].moment \in Nat
    BY <1>0, <1>2, RowsTyped DEF SesTypeOK
  <2>0. idp[l].token \in Nat
    BY <2>3 DEF Providers
  <2>4. PICK o : o = [idp[l] EXCEPT !.token = idp[l].token + 1]
    OBVIOUS
  <2>5. o \in Providers /\ o.on = idp[l].on /\ o.says = idp[l].says /\ o.ended = idp[l].ended
    BY <2>3, <2>4, <2>0 DEF Providers
  <2>6. idp' = [idp EXCEPT ![l] = o]
    BY <2>2, <2>4
  <2>7. /\ idp' \in [Logins -> Providers]
        /\ \A k \in Logins : /\ idp'[k].on = idp[k].on /\ idp'[k].says = idp[k].says
                             /\ idp'[k].ended = idp[k].ended
    BY <1>0, <1>2, <2>5, <2>6 DEF SesTypeOK
  <2>8. idp[l].token + 1 \in Nat
    BY <2>0
  <2>9. r \in Handlings /\ r.at = "spend" /\ r.of = l
    BY <1>2, <2>1, <2>3, <2>8 DEF Handling, Handlings, Asking
  <2>10. r.at \in Asking
    BY <2>9 DEF Asking
  <2>11. request' \in [Requests -> Handlings] /\ HandlersMove
    BY <1>0, <1>2, <1>3, <2>2, <2>9, <2>10, RefreshMoves
  <2>12. /\ session' \in [Logins -> Sessions] /\ access' \in [Logins -> SUBSET Credentials]
         /\ unspent' \in [Logins -> SUBSET Nat] /\ issued' \in [Logins -> Nat]
         /\ established' \in [Logins -> Nat]
         /\ LoginsStay /\ LinesEnd
    BY <1>0, <1>4, <2>2, RowsRest
  <2>13. LogoutsStay
    BY <1>4, <2>7 DEF SesInv, LoggedOut, LogoutsStay
  <2>14. SesTypeOK'
    BY <1>0, <1>4, <2>7, <2>11, <2>12 DEF SesTypeOK
  <2> QED BY <2>11, <2>12, <2>13, <2>14, AllKept
<1> QED BY <1>5, <1>6

\* A refreshed session has the clocks it may have, and no other life.
LEMMA RefreshedTyped ==
    ASSUME NEW s \in Sessions, NEW r \in Handlings
    PROVE  /\ Refreshed(s, r) \in Sessions
           /\ Refreshed(s, r).there = s.there /\ Refreshed(s, r).revoked = s.revoked
           /\ Refreshed(s, r).named = s.named
<1>1. /\ r.moment \in Nat /\ r.token \in Nat
      /\ s.there \in BOOLEAN /\ s.revoked \in BOOLEAN /\ s.absolute \in Nat /\ s.named \in BOOLEAN
  BY DEF Handlings, Sessions
<1>2. r.moment + IdleTime \in Nat
  BY <1>1, SessionsAssumption
<1>3. Earlier(r.moment + IdleTime, s.absolute) \in Nat
  BY <1>1, <1>2, EarlierIsNat
<1>4. (IF s.token = 0 THEN 0 ELSE r.token) \in Nat
  BY <1>1
<1> QED BY <1>1, <1>3, <1>4 DEF Refreshed, Sessions

\* The token that is spent was the only one, and so is the one that follows it.
LEMMA RefreshWinsKeeps ==
    ASSUME SesInv, NEW q \in Requests, SpendRefresh(q), Claims(q) /\ StillGood(q)
    PROVE  SesInv'
<1>0. SesTypeOK
  BY DEF SesInv
<1>1. PICK l : l = request[q].of
  OBVIOUS
<1>2. request[q].at = "spend" /\ l \in Logins /\ request[q] \in Handlings
  BY <1>0, <1>1, WorksOnLogin, RowsTyped DEF SpendRefresh, Is
<1>3. request[q].gen \in unspent[l] /\ session[l].there /\ ~session[l].revoked
  BY <1>1 DEF Claims, StillGood, AliveAt
<1>4. PICK new : new = issued[l] + 1
  OBVIOUS
<1>5. PICK left : left = unspent[l] \ {request[q].gen}
  OBVIOUS
<1>6. PICK token : token = [gen |-> new, until |-> Until(l, request[q].moment)]
  OBVIOUS
<1>7. PICK s : s = Refreshed(session[l], request[q])
  OBVIOUS
<1>8. /\ issued' = [issued EXCEPT ![l] = new]
      /\ unspent' = [unspent EXCEPT ![l] = left \cup {new}]
      /\ access' = [access EXCEPT ![l] = {token}]
      /\ session' = [session EXCEPT ![l] = s]
      /\ Becomes(q, IdleRequest)
  BY <1>1, <1>4, <1>5, <1>6, <1>7 DEF SpendRefresh, Keeping
<1>9. UNCHANGED <<attempt, established, now, idp, sent, seen, late>>
  BY DEF SpendRefresh, OnlyRequest
<1>10. session[l] \in Sessions /\ issued[l] \in Nat /\ new \in Nat
  BY <1>0, <1>2, <1>4 DEF SesTypeOK
<1>11. /\ s \in Sessions /\ s.there /\ ~s.revoked
       /\ s.there = session[l].there /\ s.revoked = session[l].revoked
       /\ s.named = session[l].named
  BY <1>2, <1>3, <1>7, <1>10, RefreshedTyped
<1>12. left = {}
  BY <1>2, <1>3, <1>5 DEF SesInv, Lines, AtMostOne
<1>13. token \in Credentials
  <2>1. session[l].absolute \in Nat /\ request[q].moment \in Nat
    BY <1>2, <1>10 DEF Sessions, Handlings
  <2>2. request[q].moment + AccessTime \in Nat
    BY <2>1, SessionsAssumption
  <2>3. Until(l, request[q].moment) \in Nat
    BY <2>1, <2>2, EarlierIsNat DEF Until
  <2> QED BY <1>6, <1>10, <2>3 DEF Credentials
<1>14. /\ session'[l] = s /\ unspent'[l] = {new} /\ access'[l] = {token}
       /\ \A k \in Logins : k # l => /\ session'[k] = session[k] /\ access'[k] = access[k]
                                     /\ unspent'[k] = unspent[k] /\ issued'[k] = issued[k]
  BY <1>0, <1>2, <1>8, <1>12 DEF SesTypeOK
<1>15. request' \in [Requests -> Handlings] /\ HandlersMove
  BY <1>0, <1>8, EndsMove
<1>16. SesTypeOK'
  <2>1. session' \in [Logins -> Sessions] /\ issued' \in [Logins -> Nat]
    BY <1>0, <1>2, <1>8, <1>10, <1>11 DEF SesTypeOK
  <2>2. access' \in [Logins -> SUBSET Credentials]
    BY <1>0, <1>2, <1>8, <1>13 DEF SesTypeOK
  <2>3. unspent' \in [Logins -> SUBSET Nat]
    BY <1>0, <1>2, <1>8, <1>10, <1>12 DEF SesTypeOK
  <2> QED BY <1>0, <1>9, <1>15, <2>1, <2>2, <2>3 DEF SesTypeOK
<1>17. LoginsStay
  BY <1>3, <1>9, <1>11, <1>14 DEF LoginsStay
<1>18. LogoutsStay
  BY <1>9, LogoutsRest
<1>19. /\ HandlersKnow' /\ SignsInOnce' /\ \A k \in Logins : UnderWay(k)' => UnderWay(k)
  BY <1>15, <1>16, <1>17, HandlersKept
<1>20. LoggedOut'
  BY <1>16, <1>17, <1>18, <1>19, LogoutsKept
<1>21. Begun'
  BY <1>3, <1>9, <1>11, <1>14 DEF SesInv, Begun
<1>22. Lines'
  <2>1. ASSUME NEW k \in Logins
        PROVE  /\ AtMostOne(unspent'[k]) /\ AtMostOne(access'[k])
               /\ session'[k].revoked => unspent'[k] = {} /\ access'[k] = {}
    <3>1. CASE k = l
      BY <1>11, <1>14, <3>1 DEF AtMostOne
    <3>2. CASE k # l
      BY <1>14, <3>2 DEF SesInv, Lines
    <3> QED BY <3>1, <3>2
  <2> QED BY <2>1 DEF Lines, AtMostOne
<1> QED BY <1>16, <1>19, <1>20, <1>21, <1>22 DEF SesInv

\* A token refused is gone all the same, and the session is to pay for it.
LEMMA RefreshLosesKeeps ==
    ASSUME SesInv, NEW q \in Requests, SpendRefresh(q), ~(Claims(q) /\ StillGood(q))
    PROVE  SesInv'
<1>0. SesTypeOK
  BY DEF SesInv
<1>1. PICK l : l = request[q].of
  OBVIOUS
<1>2. request[q].at = "spend" /\ l \in Logins /\ request[q] \in Handlings
  BY <1>0, <1>1, WorksOnLogin, RowsTyped DEF SpendRefresh, Is
<1>3. PICK left : left = unspent[l] \ {request[q].gen}
  OBVIOUS
<1>4. PICK r : r = [request[q] EXCEPT !.at = "doomed"]
  OBVIOUS
<1>5. /\ unspent' = [unspent EXCEPT ![l] = left] /\ Becomes(q, r)
      /\ UNCHANGED <<session, access, issued>>
  BY <1>1, <1>3, <1>4 DEF SpendRefresh
<1>6. UNCHANGED <<attempt, established, now, idp, sent, seen, late>>
  BY DEF SpendRefresh, OnlyRequest
<1>7. session[l].there
  BY <1>1, <1>2 DEF SesInv, HandlersKnow, Asking
<1>8. r \in Handlings /\ r.at = "doomed" /\ r.of = l
  BY <1>1, <1>2, <1>4 DEF Handlings, Asking
<1>9. r.at \in Asking
  BY <1>8 DEF Asking
<1>10. request' \in [Requests -> Handlings] /\ HandlersMove
  BY <1>0, <1>2, <1>5, <1>7, <1>8, <1>9, RefreshMoves
<1>11. unspent' \in [Logins -> SUBSET Nat] /\ \A k \in Logins : unspent'[k] \subseteq unspent[k]
  BY <1>0, <1>2, <1>3, <1>5 DEF SesTypeOK
<1>12. idp' \in [Logins -> Providers] /\ LogoutsStay
  BY <1>6, LogoutsRest
<1>13. SesTypeOK'
  BY <1>0, <1>5, <1>6, <1>10, <1>11, <1>12 DEF SesTypeOK
<1>14. LoginsStay
  BY <1>5, <1>6 DEF LoginsStay
<1>15. LinesEnd
  BY <1>5, <1>11 DEF LinesEnd
<1> QED BY <1>10, <1>12, <1>13, <1>14, <1>15, AllKept

\* The session of a token that came back ends.
LEMMA RevokeDoomedKeeps ==
    ASSUME SesInv, NEW q \in Requests, RevokeDoomed(q)
    PROVE  SesInv'
<1>0. SesTypeOK
  BY DEF SesInv
<1>1. PICK ls : ls = Price(q)
  OBVIOUS
<1>2. Revoke(ls) /\ Becomes(q, IdleRequest) /\ request[q].at = "doomed"
  BY <1>1 DEF RevokeDoomed, Is
<1>3. \A l \in Logins : l \in ls => session[l].there
  BY <1>1, <1>2 DEF SesInv, HandlersKnow, Asking, Price
<1>4. request' \in [Requests -> Handlings] /\ HandlersMove
  BY <1>0, <1>2, EndsMove
<1>5. UNCHANGED <<now, attempt, established, idp, sent, seen, late>>
  BY DEF RevokeDoomed, OnlyRequest
<1> QED BY <1>2, <1>3, <1>4, <1>5, RevokesAndGoes

\* The session the provider refused ends.
LEMMA WithdrawKeeps ==
    ASSUME SesInv, NEW q \in Requests, Withdraw(q)
    PROVE  SesInv'
<1>0. SesTypeOK
  BY DEF SesInv
<1>1. PICK ls : ls = {request[q].of}
  OBVIOUS
<1>2. Revoke(ls) /\ Becomes(q, IdleRequest) /\ request[q].at = "refused"
  BY <1>1 DEF Withdraw, Is
<1>3. \A l \in Logins : l \in ls => session[l].there
  BY <1>1, <1>2 DEF SesInv, HandlersKnow, Asking
<1>4. request' \in [Requests -> Handlings] /\ HandlersMove
  BY <1>0, <1>2, EndsMove
<1>5. UNCHANGED <<now, attempt, established, idp, sent, seen, late>>
  BY DEF Withdraw, OnlyRequest
<1> QED BY <1>2, <1>3, <1>4, <1>5, RevokesAndGoes

-----------------------------------------------------------------------------
(* Use, and the ends of a session.                                              *)

\* Use pushes a clock of a session, and nothing else.
LEMMA AuthenticateKeeps ==
    ASSUME SesInv, NEW l \in Logins, NEW token \in access[l], Authenticate(l, token)
    PROVE  SesInv'
<1>0. SesTypeOK
  BY DEF SesInv
<1>1. PICK target : target = Earlier(now + IdleTime, session[l].absolute)
  OBVIOUS
<1>2. PICK idle : idle = IF target > session[l].idle THEN target ELSE session[l].idle
  OBVIOUS
<1>3. session[l] \in Sessions /\ now \in Nat
  BY <1>0 DEF SesTypeOK
<1>4. session[l].idle \in Nat /\ session[l].absolute \in Nat
  BY <1>3 DEF Sessions
<1>5. now + IdleTime \in Nat
  BY <1>3, SessionsAssumption
<1>6. target \in Nat
  BY <1>1, <1>4, <1>5, EarlierIsNat
<1>7. idle \in Nat
  BY <1>2, <1>4, <1>6
<1>8. PICK s : s = [session[l] EXCEPT !.idle = idle]
  OBVIOUS
<1>9. /\ s \in Sessions /\ s.there = session[l].there /\ s.revoked = session[l].revoked
      /\ s.named = session[l].named
  BY <1>3, <1>7, <1>8 DEF Sessions
<1>10. session' = [session EXCEPT ![l] = s]
  BY <1>1, <1>2, <1>8 DEF Authenticate, NoteUsed
<1>11. /\ session' \in [Logins -> Sessions]
       /\ \A k \in Logins : /\ session'[k].there = session[k].there
                            /\ session'[k].revoked = session[k].revoked
                            /\ session'[k].named = session[k].named
  BY <1>0, <1>9, <1>10 DEF SesTypeOK
<1>12. /\ UNCHANGED <<attempt, access, unspent, issued, established, request>>
       /\ UNCHANGED <<now, idp, sent, seen, late>>
  BY DEF Authenticate, OnlyRequest
<1>13. LoginsStay /\ LinesEnd
  BY <1>11, <1>12 DEF LoginsStay, LinesEnd
<1>14. request' \in [Requests -> Handlings] /\ HandlersMove
  BY <1>0, <1>12, AloneMove
<1>15. LogoutsStay
  BY <1>12, LogoutsRest
<1>16. SesTypeOK'
  BY <1>0, <1>11, <1>12, <1>14 DEF SesTypeOK
<1> QED BY <1>13, <1>14, <1>15, <1>16, AllKept

\* Whoever ends sessions ends some that are there.
LEMMA EndKeeps ==
    ASSUME SesInv, NEW ls, \A l \in Logins : l \in ls => Live(l), Revoke(ls),
           UNCHANGED <<attempt, established, request>>, OnlyRequest
    PROVE  SesInv'
<1>0. SesTypeOK
  BY DEF SesInv
<1>1. \A l \in Logins : l \in ls => session[l].there
  BY DEF Live
<1>2. request' \in [Requests -> Handlings] /\ HandlersMove
  BY <1>0, AloneMove
<1>3. UNCHANGED <<now, idp, sent, seen, late>>
  BY DEF OnlyRequest
<1> QED BY <1>1, <1>2, <1>3, RevokesAndGoes

\* A step that leaves logins, rows and handlers alone.
LEMMA RestKeeps ==
    ASSUME SesInv, UNCHANGED <<attempt, rows, established, seen, late>>, now' \in Nat,
           request' \in [Requests -> Handlings], HandlersMove,
           idp' \in [Logins -> Providers], LogoutsStay
    PROVE  SesInv'
<1>0. SesTypeOK
  BY DEF SesInv
<1>1. /\ session' \in [Logins -> Sessions] /\ access' \in [Logins -> SUBSET Credentials]
      /\ unspent' \in [Logins -> SUBSET Nat] /\ issued' \in [Logins -> Nat]
      /\ established' \in [Logins -> Nat]
      /\ LoginsStay /\ LinesEnd
  BY <1>0, RowsRest
<1>2. SesTypeOK'
  BY <1>0, <1>1 DEF SesTypeOK
<1> QED BY <1>1, <1>2, AllKept

\* The provider's word is about a session it opened.
LEMMA ProviderEndsKeeps ==
    ASSUME SesInv, NEW l \in Logins, ProviderEnds(l)
    PROVE  SesInv'
<1>0. SesTypeOK
  BY DEF SesInv
<1>1. PICK says \in Claimed : idp' = [idp EXCEPT ![l].ended = now, ![l].says = says]
  BY DEF ProviderEnds
<1>2. sent' = sent \cup {l} /\ idp[l].on /\ idp[l].ended < 0
  BY DEF ProviderEnds
<1>3. idp[l] \in Providers /\ now \in Nat /\ says \in SUBSET {"sid", "sub"}
  BY <1>0 DEF SesTypeOK, Claimed
<1>4. PICK o : o = [on |-> idp[l].on, ended |-> now, token |-> idp[l].token, says |-> says]
  OBVIOUS
<1>5. /\ idp' \in [Logins -> Providers] /\ idp'[l].on /\ idp'[l].ended >= 0
      /\ \A k \in Logins : k # l => idp'[k] = idp[k]
  <2>1. o \in Providers /\ o.on = idp[l].on /\ o.ended = now
    BY <1>3, <1>4 DEF Providers
  <2>2. idp'[l] = [[idp[l] EXCEPT !.ended = now] EXCEPT !.says = says]
    BY <1>0, <1>1 DEF SesTypeOK
  <2>3. idp'[l] = o
    BY <1>3, <1>4, <2>2 DEF Providers
  <2>4. \A k \in Logins : k # l => idp'[k] = idp[k]
    BY <1>0, <1>1 DEF SesTypeOK
  <2>5. idp' \in [Logins -> Providers]
    <3>1. \A k \in Logins : idp'[k] \in Providers
      BY <1>0, <2>1, <2>3, <2>4 DEF SesTypeOK
    <3>2. idp' = [k \in Logins |-> idp'[k]]
      BY <1>0, <1>1 DEF SesTypeOK
    <3> QED BY <3>1, <3>2
  <2>6. o.ended >= 0
    BY <1>3, <2>1
  <2> QED BY <1>2, <2>1, <2>3, <2>4, <2>5, <2>6
<1>6. UNCHANGED <<now, attempt, rows, seen, late, established, request>>
  BY DEF ProviderEnds
<1>7. LogoutsStay
  <2>1. l \notin sent
    BY <1>0, <1>2 DEF SesInv, SesTypeOK, LoggedOut, Providers
  <2>2. \A k \in sent' : k \in Logins /\ idp'[k].on /\ idp'[k].ended >= 0
    BY <1>2, <1>5 DEF SesInv, LoggedOut
  <2>3. \A k \in sent : idp'[k].says = idp[k].says
    BY <1>5, <2>1 DEF SesInv, LoggedOut
  <2>4. \A k \in Logins : idp'[k].on => idp[k].on \/ attempt[k].at = "consumed"
    BY <1>2, <1>5
  <2> QED BY <1>2, <1>6, <2>2, <2>3, <2>4 DEF LogoutsStay
<1>8. request' \in [Requests -> Handlings] /\ HandlersMove
  BY <1>0, <1>6, AloneMove
<1>9. now' \in Nat
  BY <1>3, <1>6
<1> QED BY <1>5, <1>6, <1>7, <1>8, <1>9, RestKeeps

\* What a logout names is live, and the login it shares a name with is among it.
LEMMA TargetsLive ==
    ASSUME NEW l \in Logins
    PROVE  /\ \A k \in Logins : k \in Targets(l) => Live(k)
           /\ Live(l) /\ CommonName(l) => l \in Targets(l)
<1>1. \A k \in Logins : k \in Targets(l) => Live(k)
  BY DEF Targets, BySid, BySubject, Named, LiveSessions
<1>2. ASSUME Live(l), CommonName(l), ~("sid" \in idp[l].says /\ session[l].named)
      PROVE  l \in BySubject(l) /\ BySid(l) = {}
  BY <1>2 DEF BySid, BySubject, Named, LiveSessions, CommonName
<1>3. ASSUME Live(l), "sid" \in idp[l].says, session[l].named
      PROVE  BySid(l) = {l}
  BY <1>3 DEF BySid, Named
<1> QED BY <1>1, <1>2, <1>3 DEF Targets

\* A logout ends what it names, and was too late only for a login under way.
LEMMA BackchannelLogoutKeeps ==
    ASSUME SesInv, NEW l \in Logins, BackchannelLogout(l)
    PROVE  SesInv'
<1>0. SesTypeOK
  BY DEF SesInv
<1>1. PICK ls : ls = Targets(l)
  OBVIOUS
<1>2. /\ l \in sent /\ seen' = seen \cup {l} /\ Revoke(ls)
      /\ late' = IF UnderWay(l) THEN late \cup {l} ELSE late
  BY <1>1 DEF BackchannelLogout, VerifyLogoutToken, RememberLogoutToken
<1>3. UNCHANGED <<now, attempt, idp, sent, established, request>>
  BY DEF BackchannelLogout
<1>4. (\A k \in Logins : k \in ls => Live(k)) /\ (Live(l) /\ CommonName(l) => l \in ls)
  BY <1>1, TargetsLive
<1>5. \A k \in Logins : k \in ls => session[k].there
  BY <1>4 DEF Live
<1>6. /\ session' \in [Logins -> Sessions] /\ access' \in [Logins -> SUBSET Credentials]
      /\ unspent' \in [Logins -> SUBSET Nat] /\ issued' \in [Logins -> Nat]
      /\ LoginsStay /\ LinesEnd
      /\ \A k \in Logins : k \in ls => session'[k].revoked
  BY <1>0, <1>2, <1>3, <1>5, RevokeEnds
<1>7. request' \in [Requests -> Handlings] /\ HandlersMove
  BY <1>0, <1>3, AloneMove
<1>8. SesTypeOK'
  BY <1>0, <1>3, <1>6, <1>7 DEF SesTypeOK
<1>9. /\ HandlersKnow' /\ SignsInOnce' /\ \A k \in Logins : UnderWay(k)' => UnderWay(k)
  BY <1>6, <1>7, <1>8, HandlersKept
<1>10. Begun' /\ Lines'
  BY <1>6, <1>8, LinesKept
<1>11. \A k \in Logins : Live(k)' => Live(k)
  BY <1>6 DEF Live, LoginsStay
<1>12. \A k \in Logins : CommonName(k)' => CommonName(k)
  BY <1>3, <1>6 DEF CommonName, LoginsStay
<1>13. CommonName(l)' => ~Live(l)'
  BY <1>4, <1>6, <1>11, <1>12 DEF Live
<1>14. LoggedOut'
  <2>1. seen' \subseteq sent' /\ sent' \subseteq Logins
    BY <1>2, <1>3 DEF SesInv, LoggedOut
  <2>2. ASSUME NEW k \in seen' \ late'
        PROVE  ~UnderWay(k)' /\ (CommonName(k)' => ~Live(k)')
    <3>1. CASE k = l
      <4>1. ~UnderWay(l)
        BY <1>2, <2>2, <3>1
      <4> QED BY <1>9, <1>13, <3>1, <4>1
    <3>2. CASE k # l
      <4>1. k \in seen \ late /\ k \in Logins
        BY <1>2, <2>1, <2>2, <3>2
      <4>2. ~UnderWay(k) /\ (CommonName(k) => ~Live(k))
        BY <4>1 DEF SesInv, LoggedOut
      <4> QED BY <1>9, <1>11, <1>12, <4>1, <4>2
    <3> QED BY <3>1, <3>2
  <2> QED BY <1>3, <2>1, <2>2 DEF SesInv, LoggedOut
<1> QED BY <1>8, <1>9, <1>10, <1>14 DEF SesInv

\* The front channel ends one session that is live.
LEMMA FrontchannelLogoutKeeps ==
    ASSUME SesInv, NEW l \in Logins, FrontchannelLogout(l)
    PROVE  SesInv'
<1>1. PICK ls : ls = Named(l)
  OBVIOUS
<1>2. \A k \in Logins : k \in ls => Live(k)
  BY <1>1 DEF Named
<1>3. Revoke(ls) /\ UNCHANGED <<attempt, established, request>> /\ OnlyRequest
  BY <1>1 DEF FrontchannelLogout
<1> QED BY <1>2, <1>3, EndKeeps

\* A user ends one session.
LEMMA EndSessionKeeps ==
    ASSUME SesInv, NEW l \in Logins, EndSession(l)
    PROVE  SesInv'
<1>1. PICK ls : ls = {l}
  OBVIOUS
<1>2. \A k \in Logins : k \in ls => Live(k)
  BY <1>1 DEF EndSession
<1>3. Revoke(ls) /\ UNCHANGED <<attempt, established, request>> /\ OnlyRequest
  BY <1>1 DEF EndSession
<1> QED BY <1>2, <1>3, EndKeeps
\* A user ends every session there is.
LEMMA EndEverySessionKeeps ==
    ASSUME SesInv, EndEverySession
    PROVE  SesInv'
<1>1. PICK ls : ls = LiveSessions
  OBVIOUS
<1>2. \A k \in Logins : k \in ls => Live(k)
  BY <1>1 DEF LiveSessions
<1>3. Revoke(ls) /\ UNCHANGED <<attempt, established, request>> /\ OnlyRequest
  BY <1>1 DEF EndEverySession
<1> QED BY <1>2, <1>3, EndKeeps

\* Time passes.
LEMMA TickKeeps ==
    ASSUME SesInv, Tick
    PROVE  SesInv'
<1>0. SesTypeOK
  BY DEF SesInv
<1>1. UNCHANGED <<attempt, rows, idp, sent, seen, late, established, request>>
  BY DEF Tick
<1>2. now' \in Nat
  BY <1>0 DEF SesTypeOK, Tick
<1>3. request' \in [Requests -> Handlings] /\ HandlersMove
  BY <1>0, <1>1, AloneMove
<1>4. idp' \in [Logins -> Providers] /\ LogoutsStay
  BY <1>1, LogoutsRest
<1> QED BY <1>1, <1>2, <1>3, <1>4, RestKeeps

-----------------------------------------------------------------------------
(* The specification.                                                           *)

\* Before the first login there is nothing to spend.
LEMMA SesStart ==
    SesInit => SesInv
<1> SUFFICES ASSUME SesInit
             PROVE  SesInv
  OBVIOUS
<1>1. NoSession \in Sessions /\ ~NoSession.there /\ ~NoSession.revoked
  BY DEF NoSession, Sessions
<1>2. IdleRequest \in Handlings /\ IdleRequest.at = "idle"
  BY IdleTyped
<1>3. SesTypeOK
  <2>1. attempt \in [Logins -> Attempts]
    BY DEF SesInit, Attempts
  <2>2. idp \in [Logins -> Providers]
    BY DEF SesInit, Providers
  <2> QED BY <1>1, <1>2, <2>1, <2>2 DEF SesInit, SesTypeOK
<1>4. \A q \in Requests : request[q].at = "idle"
  BY <1>2 DEF SesInit
<1>5. HandlersKnow /\ SignsInOnce
  BY <1>4 DEF HandlersKnow, SignsInOnce, Is, SigningIn, Asking
<1>6. \A l \in Logins : ~session[l].there /\ ~session[l].revoked
  BY <1>1 DEF SesInit
<1>7. Begun
  BY <1>6 DEF SesInit, Begun
<1>8. Lines
  BY <1>6 DEF SesInit, Lines, AtMostOne
<1>9. LoggedOut
  BY DEF SesInit, LoggedOut
<1> QED BY <1>3, <1>5, <1>7, <1>8, <1>9 DEF SesInv

\* Every step of a handler, of a user, of the provider and of the clock.
LEMMA SesStep ==
    SesInv /\ [SesNext]_sesVars => SesInv'
<1> SUFFICES ASSUME SesInv, [SesNext]_sesVars
             PROVE  SesInv'
  OBVIOUS
<1>1. CASE UNCHANGED sesVars
  <2>1. /\ UNCHANGED <<attempt, rows, established, request>>
        /\ UNCHANGED <<now, idp, sent, seen, late>>
    BY <1>1 DEF sesVars, rows
  <2>2. SesTypeOK
    BY DEF SesInv
  <2>3. request' \in [Requests -> Handlings] /\ HandlersMove
    BY <2>1, <2>2, AloneMove
  <2>4. idp' \in [Logins -> Providers] /\ LogoutsStay
    BY <2>1, LogoutsRest
  <2>5. now' \in Nat
    BY <2>1, <2>2 DEF SesTypeOK
  <2> QED BY <2>1, <2>3, <2>4, <2>5, RestKeeps
<1>2. CASE \E l \in Logins : BeginLogin(l)
  BY <1>2, BeginLoginKeeps
<1>3. CASE \E l \in Logins : EndSession(l)
  BY <1>3, EndSessionKeeps
<1>4. CASE \E l \in Logins : ProviderEnds(l)
  BY <1>4, ProviderEndsKeeps
<1>5. CASE \E l \in Logins : BackchannelLogout(l)
  BY <1>5, BackchannelLogoutKeeps
<1>6. CASE \E l \in Logins : FrontchannelLogout(l)
  BY <1>6, FrontchannelLogoutKeeps
<1>7. CASE \E l \in Logins : \E token \in access[l] : Authenticate(l, token)
  BY <1>7, AuthenticateKeeps
<1>8. CASE \E l \in Logins, q \in Requests, own \in BOOLEAN : ClaimAuthorization(q, l, own)
  BY <1>8, ClaimAuthorizationKeeps
<1>9. CASE \E l \in Logins, q \in Requests : \E g \in 1 .. issued[l] : PresentRefresh(q, l, g)
  BY <1>9, PresentRefreshKeeps
<1>10. CASE \E q \in Requests : ExchangeCode(q)
  BY <1>10, ExchangeCodeKeeps
<1>11. CASE \E q \in Requests : ExchangeFails(q) \/ Dies(q)
  <2>1. PICK q \in Requests : ExchangeFails(q) \/ Dies(q)
    BY <1>11
  <2>2. /\ Becomes(q, IdleRequest)
        /\ UNCHANGED <<now, attempt, rows, established, idp, sent, seen, late>>
    BY <2>1 DEF ExchangeFails, Dies, OnlyRequest
  <2> QED BY <2>2, GivesUpKeeps
<1>12. CASE \E q \in Requests : Establish(q)
  BY <1>12, EstablishKeeps
<1>13. CASE \E q \in Requests : Revalidate(q)
  BY <1>13, RevalidateKeeps
<1>18. CASE \E q \in Requests : Withdraw(q)
  BY <1>18, WithdrawKeeps
<1>14. CASE \E q \in Requests : SpendRefresh(q)
  BY <1>14, RefreshWinsKeeps, RefreshLosesKeeps
<1>15. CASE \E q \in Requests : RevokeDoomed(q)
  BY <1>15, RevokeDoomedKeeps
<1>16. CASE EndEverySession
  BY <1>16, EndEverySessionKeeps
<1>17. CASE Tick
  BY <1>17, TickKeeps
<1> QED BY <1>1, <1>2, <1>3, <1>4, <1>5, <1>6, <1>7, <1>8, <1>9, <1>10, <1>11, <1>12, <1>13,
           <1>14, <1>15, <1>16, <1>17, <1>18 DEF SesNext, Handle

\* The inductive invariant of the sessions: the rows are typed, every handler knows a
\* login its rows agree with, and lines and logouts are what the two promises ask.
THEOREM SessionsSafe == SesSpec => []SesInv
<1>1. SesInit => SesInv
  BY SesStart
<1>2. SesInv /\ [SesNext]_sesVars => SesInv'
  BY SesStep
<1> QED BY <1>1, <1>2, PTL DEF SesSpec

\* A set with at most one member counts at most one.
LEMMA AtMostOneCounts ==
    ASSUME NEW S, AtMostOne(S)
    PROVE  Cardinality(S) <= 1
<1>1. CASE S = {}
  BY <1>1, FS_EmptySet
<1>2. CASE S # {}
  <2>1. PICK x \in S : TRUE
    BY <1>2
  <2>2. S = {x}
    BY <2>1 DEF AtMostOne
  <2>3. Cardinality(S) = 1
    BY <2>2, FS_Singleton
  <2> QED BY <2>3
<1> QED BY <1>1, <1>2

\* "A refresh credential, spendable once": for any number of refreshes that race, are
\* retried or are cut off, a session has one refresh token and one access token that
\* work, and none once it is over; a login never becomes two sessions.
THEOREM SpendableOnce == SesSpec => []OneLineOfCredentials
<1>1. SesInv => OneLineOfCredentials
  <2> SUFFICES ASSUME SesInv, NEW l \in Logins
               PROVE  /\ established[l] <= 1
                      /\ Cardinality(unspent[l]) <= IF session[l].revoked THEN 0 ELSE 1
                      /\ Cardinality(access[l]) <= IF session[l].revoked THEN 0 ELSE 1
    BY DEF OneLineOfCredentials
  <2>1. established[l] <= 1
    BY DEF SesInv, Begun
  <2>2. AtMostOne(unspent[l]) /\ AtMostOne(access[l])
    BY DEF SesInv, Lines
  <2>3. Cardinality(unspent[l]) <= 1 /\ Cardinality(access[l]) <= 1
    BY <2>2, AtMostOneCounts
  <2>4. CASE session[l].revoked
    <3>1. unspent[l] = {} /\ access[l] = {}
      BY <2>4 DEF SesInv, Lines
    <3>2. Cardinality(unspent[l]) = 0 /\ Cardinality(access[l]) = 0
      BY <3>1, FS_EmptySet
    <3> QED BY <2>1, <2>4, <3>2
  <2>5. CASE ~session[l].revoked
    BY <2>1, <2>3, <2>5
  <2> QED BY <2>4, <2>5
<1> QED BY <1>1, SessionsSafe, PTL

\* What the provider logged out stays out, for any refresh under way at the provider
\* or past it, and any later callback, when the logout is accepted.
THEOREM LoggedOutForGood == SesSpec => []LoggedOutStaysOut
<1>1. SesInv => LoggedOutStaysOut
  BY DEF SesInv, LoggedOut, LoggedOutStaysOut
<1> QED BY <1>1, SessionsSafe, PTL
=============================================================================
