---------------------------- MODULE SignInSessions ----------------------------
(* Sign-in sessions (security/sessions.py, UserSessionRepo, security/auth.py):  *)
(* a browser signs in through the provider, refreshes rotate one credential     *)
(* into the next after asking the provider again, and a session ends by its     *)
(* clocks, by its user, by the provider's word, by an erasure, or because a     *)
(* spent credential came back.  Every handler reads the clock once, before its  *)
(* network call.  One user; the session of a login has the login's name, and    *)
(* the provider knows it by that name (sid).                                    *)
EXTENDS Integers, FiniteSets

CONSTANTS Logins, Requests, NoLogin,
          LoginWindow, IdleTime, AbsoluteTime, ShortTime, AccessTime,  \* in ticks
          MaxTime, MaxGenerations, MaxCallbacks, MaxDeaths             \* bounds

ASSUME SessionsAssumption ==
    /\ {LoginWindow, IdleTime, AbsoluteTime, ShortTime, AccessTime} \subseteq Nat
    /\ {MaxTime, MaxGenerations, MaxCallbacks, MaxDeaths} \subseteq Nat /\ NoLogin \notin Logins

VARIABLES now,
          attempt,       \* [Logins -> oidc_authorizations row]
          session,       \* [Logins -> user_sessions row]
          access,        \* [Logins -> user_tokens not revoked: a set of [gen, until]]
          unspent,       \* [Logins -> session_refresh_tokens not consumed]
          issued,        \* [Logins -> refresh tokens ever issued]
          idp,           \* [Logins -> the provider's session: when it ended, its refresh token,
                         \*  and what its logout token carries]
          sent, seen,    \* logout tokens sent; oidc_logout_tokens
          late,          \* history: logout accepted while the login it names was under way
          established,   \* history: [Logins -> sign-ins that came of it]
          request,       \* [Requests -> one handler in progress]
          callbacks, deaths
sesVars == <<now, attempt, session, access, unspent, issued, idp, sent, seen, late,
             established, request, callbacks, deaths>>
rows == <<session, access, unspent, issued>>

Earlier(a, b) == IF a < b THEN a ELSE b
NoSession == [there |-> FALSE, revoked |-> FALSE, idle |-> 0, absolute |-> 0, token |-> 0, named |-> TRUE]
(* A handler under way, with what it read: the refresh token it was given, the    *)
(* clock, the provider's token.                                                  *)
Handling(at, l, g, m, token) ==
    [at |-> at, of |-> l, gen |-> g, moment |-> m, token |-> token, named |-> TRUE]
IdleRequest == Handling("idle", NoLogin, 0, 0, 0)

SesInit ==
    /\ now = 0 /\ attempt = [l \in Logins |-> [at |-> "none", until |-> 0]]
    /\ session = [l \in Logins |-> NoSession] /\ access = [l \in Logins |-> {}]
    /\ unspent = [l \in Logins |-> {}] /\ issued = [l \in Logins |-> 0]
    /\ idp = [l \in Logins |-> [on |-> FALSE, ended |-> -1, token |-> 0, says |-> {}]]
    /\ sent = {} /\ seen = {} /\ late = {}
    /\ established = [l \in Logins |-> 0]
    /\ request = [q \in Requests |-> IdleRequest] /\ callbacks = 0 /\ deaths = 0

AliveAt(l, m) ==
    session[l].there /\ ~session[l].revoked /\ m < session[l].idle /\ m < session[l].absolute
Live(l) == session[l].there /\ ~session[l].revoked
LiveSessions == { l \in Logins : Live(l) }

(* revoke_in_transaction, for a set of sessions. *)
Revoke(ls) ==
    /\ session' = [l \in Logins |-> IF l \in ls THEN [session[l] EXCEPT !.revoked = TRUE] ELSE session[l]]
    /\ access' = [l \in Logins |-> IF l \in ls THEN {} ELSE access[l]]
    /\ unspent' = [l \in Logins |-> IF l \in ls THEN {} ELSE unspent[l]]
    /\ UNCHANGED issued

Is(q, at) == request[q].at = at
Becomes(q, r) == request' = [request EXCEPT ![q] = r]
OnlyRequest == UNCHANGED <<now, idp, sent, seen, late, callbacks, deaths>>

-----------------------------------------------------------------------------
(* begin_login and complete_login.                                              *)
StartAuthorization(l) == attempt' = [attempt EXCEPT ![l] = [at |-> "open", until |-> now + LoginWindow]]
BeginLogin(l) ==
    /\ attempt[l].at = "none" /\ StartAuthorization(l)
    /\ UNCHANGED <<rows, established, request>> /\ OnlyRequest

(* claim_authorization: its UPDATE asks for an unconsumed row of this browser.    *)
MayClaim(l, own) == attempt[l].at = "open" /\ own
ClaimAuthorization(q, l, own) ==
    /\ Is(q, "idle") /\ attempt[l].at # "none"
    /\ callbacks < MaxCallbacks /\ callbacks' = callbacks + 1
    /\ IF MayClaim(l, own)
       THEN /\ attempt' = [attempt EXCEPT ![l].at = "consumed"]
            /\ Becomes(q, IF now > attempt[l].until THEN IdleRequest
                          ELSE Handling("exchange", l, 0, now, 0))
       ELSE UNCHANGED <<attempt, request>>
    /\ UNCHANGED <<now, rows, idp, sent, seen, late, established, deaths>>

(* exchange_code and verify_id_token; the provider opens its session, with a      *)
(* refresh token or without, and names it (sid) in the ID token or does not.      *)
ExchangeCode(q) ==
    /\ Is(q, "exchange")
    /\ \E offline \in {0, 1}, named \in BOOLEAN :
          LET l == request[q].of IN
          /\ idp' = [idp EXCEPT ![l].on = TRUE, ![l].token = offline]
          /\ Becomes(q, [at |-> "establish", of |-> l, gen |-> 0, moment |-> request[q].moment,
                         token |-> offline, named |-> named])
    /\ UNCHANGED <<now, attempt, rows, sent, seen, late, established, callbacks, deaths>>
ExchangeFails(q) ==
    /\ Is(q, "exchange") /\ Becomes(q, IdleRequest)
    /\ UNCHANGED <<attempt, rows, established>> /\ OnlyRequest

(* _establish, where sessions that cannot be re-checked are allowed and short.    *)
Lasts(r) == r.moment + (IF r.token = 0 THEN Earlier(AbsoluteTime, ShortTime) ELSE AbsoluteTime)
NewSession(r) ==
    [there |-> TRUE, revoked |-> FALSE, idle |-> r.moment + IdleTime, absolute |-> Lasts(r),
     token |-> r.token, named |-> r.named]
Establish(q) ==
    /\ Is(q, "establish")
    /\ LET l == request[q].of
           until == Earlier(request[q].moment + AccessTime, Lasts(request[q]))
       IN /\ session' = [session EXCEPT ![l] = NewSession(request[q])]
          /\ access' = [access EXCEPT ![l] = @ \cup {[gen |-> 1, until |-> until]}]
          /\ unspent' = [unspent EXCEPT ![l] = @ \cup {1}] /\ issued' = [issued EXCEPT ![l] = 1]
          /\ established' = [established EXCEPT ![l] = @ + 1]
    /\ Becomes(q, IdleRequest) /\ UNCHANGED attempt /\ OnlyRequest

-----------------------------------------------------------------------------
(* refresh.                                                                     *)

(* Anybody who ever held a refresh token may present it.  The reads come first;   *)
(* a spent token, or a session without a provider's token, is not asked about.    *)
AsksProvider(l, g) == g \in unspent[l] /\ session[l].token # 0
PresentRefresh(q, l, g) ==
    /\ Is(q, "idle") /\ g \in 1 .. issued[l]
    /\ Becomes(q, Handling(IF AsksProvider(l, g) THEN "ask" ELSE "spend",
                           l, g, now, session[l].token))
    /\ UNCHANGED <<attempt, rows, established>> /\ OnlyRequest

(* _revalidate: the provider takes only its latest token, and hands out another;  *)
(* what it refuses ends the session, in a transaction after the answer.           *)
RefusedAtProvider(q) ==
    idp[request[q].of].ended >= 0 \/ request[q].token # idp[request[q].of].token
Revalidate(q) ==
    /\ Is(q, "ask")
    /\ LET l == request[q].of IN
       IF RefusedAtProvider(q)
       THEN Becomes(q, [request[q] EXCEPT !.at = "refused"]) /\ UNCHANGED idp
       ELSE /\ idp' = [idp EXCEPT ![l].token = @ + 1]
            /\ Becomes(q, Handling("spend", l, request[q].gen, request[q].moment, idp[l].token + 1))
    /\ UNCHANGED <<now, attempt, rows, sent, seen, late, established, callbacks, deaths>>
Withdraw(q) ==
    /\ Is(q, "refused") /\ Revoke({request[q].of}) /\ Becomes(q, IdleRequest)
    /\ UNCHANGED <<attempt, established>> /\ OnlyRequest

(* claim_refresh_in_transaction: the UPDATE asks for consumed_at IS NULL.          *)
Claims_Any(q) == TRUE
Claims(q) == request[q].gen \in unspent[request[q].of]

(* supersede_access_tokens_in_transaction *)
Keeping(l, new) == {new}

Until(l, m) == Earlier(m + AccessTime, session[l].absolute)
StillGood(q) == AliveAt(request[q].of, request[q].moment)
Refreshed(s, r) ==
    [there |-> s.there, revoked |-> s.revoked, idle |-> Earlier(r.moment + IdleTime, s.absolute),
     absolute |-> s.absolute, token |-> IF s.token = 0 THEN 0 ELSE r.token, named |-> s.named]

SpendRefresh(q) ==
    /\ Is(q, "spend")
    /\ LET l == request[q].of
           m == request[q].moment
           new == issued[l] + 1
           left == unspent[l] \ {request[q].gen}
       IN IF Claims(q) /\ StillGood(q)
          THEN /\ new <= MaxGenerations
               /\ issued' = [issued EXCEPT ![l] = new]
               /\ unspent' = [unspent EXCEPT ![l] = left \cup {new}]
               /\ access' = [access EXCEPT ![l] =
                      Keeping(l, [gen |-> new, until |-> Until(l, m)])]
               /\ session' = [session EXCEPT ![l] = Refreshed(session[l], request[q])]
               /\ Becomes(q, IdleRequest)
          ELSE /\ unspent' = [unspent EXCEPT ![l] = left]
               /\ Becomes(q, [request[q] EXCEPT !.at = "doomed"])
               /\ UNCHANGED <<session, access, issued>>
    /\ UNCHANGED <<attempt, established>> /\ OnlyRequest

(* The session pays, in a transaction of its own. *)
Price_Nothing(q) == {}
Price(q) == {request[q].of}
RevokeDoomed(q) ==
    /\ Is(q, "doomed") /\ Revoke(Price(q)) /\ Becomes(q, IdleRequest)
    /\ UNCHANGED <<attempt, established>> /\ OnlyRequest

(* authenticate with a credential, and note_used right after.                    *)
NoteUsed(l) ==
    LET target == Earlier(now + IdleTime, session[l].absolute) IN
    session' = [session EXCEPT ![l].idle = IF target > @ THEN target ELSE @]
Authenticate(l, token) ==
    /\ token \in access[l] /\ now < token.until /\ AliveAt(l, now)
    /\ NoteUsed(l)
    /\ UNCHANGED <<attempt, access, unspent, issued, established, request>> /\ OnlyRequest

-----------------------------------------------------------------------------
(* Ends of a session.                                                           *)
EndSession(l) ==
    /\ Live(l) /\ Revoke({l})
    /\ UNCHANGED <<attempt, established, request>> /\ OnlyRequest
(* end_every_session; revoke_all_for_user_in_transaction does the same.           *)
EndEverySession ==
    /\ LiveSessions # {} /\ Revoke(LiveSessions)
    /\ UNCHANGED <<attempt, established, request>> /\ OnlyRequest

(* The logout token names the provider's session, its subject or both.           *)
Claimed == {{"sid"}, {"sub"}, {"sid", "sub"}}
ProviderEnds(l) ==
    /\ idp[l].on /\ idp[l].ended < 0
    /\ \E says \in Claimed : idp' = [idp EXCEPT ![l].ended = now, ![l].says = says]
    /\ sent' = sent \cup {l}
    /\ UNCHANGED <<now, attempt, rows, seen, late, established, request, callbacks, deaths>>

(* accept_backchannel_logout, on a token that may come more than once: what it     *)
(* names by sid, or else every session of its subject, if it has one.             *)
Named(l) == IF Live(l) /\ session[l].named THEN {l} ELSE {}
BySid(l) == IF "sid" \in idp[l].says THEN Named(l) ELSE {}
BySubject(l) == IF "sub" \in idp[l].says THEN LiveSessions ELSE {}
Targets_TokenAlone(l) == IF "sid" \in idp[l].says THEN Named(l) ELSE LiveSessions
Targets(l) == IF BySid(l) # {} THEN BySid(l) ELSE BySubject(l)
UnderWay(l) == \E q \in Requests : request[q].of = l /\ request[q].at \in {"exchange", "establish"}
VerifyLogoutToken(l) == l \in sent
RememberLogoutToken(l) == l \notin seen /\ seen' = seen \cup {l}
BackchannelLogout(l) ==
    /\ VerifyLogoutToken(l) /\ RememberLogoutToken(l)
    /\ late' = IF UnderWay(l) THEN late \cup {l} ELSE late
    /\ Revoke(Targets(l))
    /\ UNCHANGED <<now, attempt, idp, sent, established, request, callbacks, deaths>>
FrontchannelLogout(l) ==
    /\ l \in sent /\ Named(l) # {} /\ Revoke(Named(l))
    /\ UNCHANGED <<attempt, established, request>> /\ OnlyRequest

Tick ==
    /\ now < MaxTime /\ now' = now + 1
    /\ UNCHANGED <<attempt, rows, idp, sent, seen, late, established, request, callbacks, deaths>>
(* A request dies where it stands: its process, or its connection.               *)
Dies(q) ==
    /\ ~Is(q, "idle") /\ deaths < MaxDeaths /\ deaths' = deaths + 1
    /\ Becomes(q, IdleRequest)
    /\ UNCHANGED <<now, attempt, rows, idp, sent, seen, late, established, callbacks>>

-----------------------------------------------------------------------------
Handle(q) ==
    \/ ExchangeCode(q) \/ ExchangeFails(q) \/ Establish(q)
    \/ Revalidate(q) \/ Withdraw(q) \/ SpendRefresh(q) \/ RevokeDoomed(q)
SesNext ==
    \/ \E l \in Logins :
          \/ BeginLogin(l) \/ EndSession(l) \/ ProviderEnds(l)
          \/ BackchannelLogout(l) \/ FrontchannelLogout(l)
          \/ \E token \in access[l] : Authenticate(l, token)
          \/ \E q \in Requests, own \in BOOLEAN : ClaimAuthorization(q, l, own)
          \/ \E q \in Requests : \E g \in 1 .. issued[l] : PresentRefresh(q, l, g)
    \/ \E q \in Requests : Handle(q) \/ Dies(q)
    \/ EndEverySession \/ Tick

(* A handler that was not cut off goes on.                                       *)
SesFairness == \A q \in Requests : WF_sesVars(Handle(q))
SesSpec == SesInit /\ [][SesNext]_sesVars /\ SesFairness

-----------------------------------------------------------------------------
(* "A refresh credential, spendable once": a login signs in once, two refreshes at *)
(* the same time, or one retried, never leave its session with two lines of        *)
(* credentials, and a session that is over leaves nothing that works, whatever    *)
(* refresh was in flight, at the provider or waiting for its transaction, when it *)
(* ended.                                                                        *)
OneLineOfCredentials ==
    \A l \in Logins :
        LET most == IF session[l].revoked THEN 0 ELSE 1 IN
        /\ established[l] <= 1
        /\ Cardinality(unspent[l]) <= most /\ Cardinality(access[l]) <= most

(* "A replay costs the whole session": whoever is refused a refresh token that was *)
(* spent finds the session over, unless the handler was cut off before the second *)
(* transaction.                                                                  *)
ReplayEndsSession ==
    \A l \in Logins :
        (\E q \in Requests : Is(q, "doomed") /\ request[q].of = l) ~> (session[l].revoked \/ deaths > 0)

(* What the provider logged out stays out, when its token and the login have a     *)
(* name in common: a refresh that was at the provider, or past it, when the logout *)
(* was accepted brings nothing back, and a provider that gives the sid only in one *)
(* of the two is still heard, by the subject.  A token with a sid alone names      *)
(* nothing when the login's ID token had none.                                   *)
CommonName(l) == "sub" \in idp[l].says \/ ("sid" \in idp[l].says /\ session[l].named)
LoggedOutStaysOut == \A l \in seen \ late : CommonName(l) => ~Live(l)
=============================================================================
