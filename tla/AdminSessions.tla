---------------------------- MODULE AdminSessions ----------------------------
(***************************************************************************)
(* Signing in with GitHub, signing out, and the guard of the admin routes. *)
(*                                                                         *)
(* The server keeps nothing: what it knows of a browser is what the        *)
(* browser's two cookies say, each signed for its purpose and with an      *)
(* expiry.  A login leaves a state cookie and sends the browser to GitHub; *)
(* GitHub sends it back to the callback, which exchanges the code over the *)
(* network and answers with a session cookie.  A callback carries the state*)
(* cookie the browser had when it sent it; while it is under way the       *)
(* browser may do something else, send another one, and the server may be  *)
(* started with other settings.  Logins and logouts are answered at once.  *)
(***************************************************************************)
EXTENDS Naturals, Sequences

CONSTANTS
    Browsers,
    Callbacks,      \* slots for callbacks under way at one time
    Logins,         \* GitHub logins as GitHub spells them
    Lower,          \* Lower[l]: l in lower case
    Configs,        \* the settings the server may be started with
    kOauthStateTtl, \* how long a state cookie is good
    None,           \* an unset secret, an absent cookie
    MaxLogins, MaxClock    \* bounds

ASSUME SettingsAssumption ==
    \A c \in Configs :
        /\ DOMAIN c = {"sessionSigningSecret", "oauth", "adminToken",
                       "adminGithubUsers", "sessionTtl"}
        /\ c.adminGithubUsers \subseteq {Lower[l] : l \in Logins}
        /\ c.sessionTtl \in Nat \ {0}      \* at least a minute
        /\ {c.oauth, c.adminToken} \subseteq BOOLEAN

VARIABLES
    config,    \* Config of the running server
    clock,
    cookies,   \* cookies[b]: the state and the session cookie of b
    begun,     \* begun[n]: the browser that got nonce n
    calls,     \* calls[c]: a callback under way, see Sent and Exchanging
    answered   \* history: nonces of the callbacks b has an answer to

vars == <<config, clock, cookies, begun, calls, answered>>

-----------------------------------------------------------------------------
(* Signed values and the guard.  A cookie records the secret it was signed *)
(* with and its expiry; the state cookie its nonce; the session its login  *)
(* and, for the properties only, the nonce it was obtained with.           *)

sessionSigningEnabled == config.sessionSigningSecret # None

\* verifySignedValue, as the error it sets.  (A browser presents no cookie but those
\* it was given, each under its own name, so the purposes in the signatures agree.)
SignatureError(token) ==
    IF ~sessionSigningEnabled THEN "not_configured"
    ELSE IF token = None THEN "missing"
    ELSE IF token.key # config.sessionSigningSecret THEN "bad_signature"
    ELSE IF token.exp <= clock THEN "expired"
    ELSE "none"

isAllowedAdminLogin(login) == Lower[login] \in config.adminGithubUsers

\* AdminRequestView without the cookie.
View == [adminTokenHeader : {"", "right", "wrong"}, isPost : BOOLEAN,
         secFetchSite : {"", "same-origin", "cross-site"}, origin : {"", "own", "other"}]

hasSameSiteProof(view) ==
    IF view.secFetchSite # "" THEN view.secFetchSite = "same-origin"
    ELSE view.origin = "own"

tokenConfigured == config.adminToken

\* Deviation: the guard takes cookies only while users can get new ones.
cookieConfiguredWithOauth ==
    sessionSigningEnabled /\ config.adminGithubUsers # {} /\ config.oauth

cookieConfigured == sessionSigningEnabled /\ config.adminGithubUsers # {}

\* What a readable session cookie comes to.
SessionDecision(login, view) ==
    IF ~isAllowedAdminLogin(login) THEN "not_allow_listed"
    ELSE IF view.isPost /\ ~hasSameSiteProof(view) THEN "csrf"
    ELSE "by_cookie"

\* What the cookie comes to.
CookieDecision(session, view) ==
    CASE SignatureError(session) = "none" -> SessionDecision(session.login, view)
      [] SignatureError(session) \in {"bad_signature", "expired"} -> "bad_session"
      [] SignatureError(session) \in {"missing", "not_configured"} ->
            IF view.adminTokenHeader = "" THEN "no_credential" ELSE "bad_token"

authorizeAdminRequest(session, view) ==
    IF ~tokenConfigured /\ ~cookieConfigured THEN "not_configured"
    ELSE IF tokenConfigured /\ view.adminTokenHeader = "right" THEN "by_token"
    ELSE IF cookieConfigured THEN CookieDecision(session, view)
    ELSE IF view.adminTokenHeader = "" THEN "no_credential" ELSE "bad_token"

authorized(decision) == decision \in {"by_token", "by_cookie"}

\* handleMe: signed in at all, and an admin.
Authenticated(b) == SignatureError(cookies[b].session) = "none"
IsAdmin(b) == Authenticated(b) /\ isAllowedAdminLogin(cookies[b].session.login)

-----------------------------------------------------------------------------
(* The routes.                                                             *)

signInConfigured == sessionSigningEnabled /\ config.oauth

handleGithubLogin(b) ==
    /\ signInConfigured
    /\ Len(begun) < MaxLogins
    /\ begun' = Append(begun, b)
    /\ cookies' = [cookies EXCEPT ![b].state =
          [key |-> config.sessionSigningSecret, nonce |-> Len(begun) + 1,
           exp |-> clock + kOauthStateTtl]]
    /\ UNCHANGED <<config, clock, calls, answered>>

\* Addresses of the callback: whoever was sent to GitHub with a nonce may agree there, as
\* any user, and pass the address GitHub redirects to on.
Links == (DOMAIN begun) \X Logins

Idle == [at |-> "idle"]

\* The request, with the cookie the browser has now.  History: whether the browser has an
\* answer to this nonce already.
Sent(b, link) ==
    [at |-> "sent", browser |-> b, link |-> link,
     state |-> cookies[b].state, again |-> link[1] \in answered[b]]

\* Past the state check, waiting for GitHub.
Exchanging(call) ==
    [at |-> "exchange", browser |-> call.browser, link |-> call.link, again |-> call.again]

\* A browser follows a link, its own or another's, once or again.
CallbackSent(c, b, link) ==
    /\ calls[c] = Idle
    /\ calls' = [calls EXCEPT ![c] = Sent(b, link)]
    /\ UNCHANGED <<config, clock, cookies, begun, answered>>

\* Deviation: any state cookie of ours will do.
AnyState(call) == SignatureError(call.state) = "none"

\* The server knows of no nonce but the one the request brings.
StateMatches(call) ==
    /\ SignatureError(call.state) = "none"
    /\ call.state.nonce = call.link[1]

\* Deviation: only a successful sign-in clears the state cookie.
CookiesKeepingState(jar, session) ==
    IF session = None THEN jar ELSE [state |-> None, session |-> session]

\* Every answer but a 503 clears the state cookie, whatever nonce it has by now.
CookiesAfter(jar, session) ==
    [state |-> None, session |-> IF session = None THEN jar.session ELSE session]

\* The browser gets an answer, with a session or with an error, or it is lost.
Answer(call, session) ==
    LET b == call.browser IN
    \/ /\ cookies' = [cookies EXCEPT ![b] = CookiesAfter(cookies[b], session)]
       /\ answered' = [answered EXCEPT ![b] = @ \cup {call.link[1]}]
    \/ UNCHANGED <<cookies, answered>>

\* The callback up to the exchange: unavailable (503, no cookie is touched), refused,
\* or waiting for GitHub.
CallbackBegins(c) ==
    /\ calls[c].at = "sent"
    /\ LET call == calls[c] IN
       \/ /\ ~signInConfigured
          /\ calls' = [calls EXCEPT ![c] = Idle]
          /\ UNCHANGED <<cookies, answered>>
       \/ /\ signInConfigured /\ ~StateMatches(call)
          /\ calls' = [calls EXCEPT ![c] = Idle]
          /\ Answer(call, None)
       \/ /\ signInConfigured /\ StateMatches(call)
          /\ calls' = [calls EXCEPT ![c] = Exchanging(call)]
          /\ UNCHANGED <<cookies, answered>>
    /\ UNCHANGED <<config, clock, begun>>

\* GitHub exchanges the code and names the user, or does not.  (It exchanges a code once;
\* nothing below leans on that, so here it may each time.)
CallbackEnds(c) ==
    /\ calls[c].at = "exchange"
    /\ calls' = [calls EXCEPT ![c] = Idle]
    /\ LET call == calls[c] IN
       \/ Answer(call, None)
       \/ Answer(call, [key |-> config.sessionSigningSecret, login |-> call.link[2],
                        nonce |-> call.link[1], exp |-> clock + config.sessionTtl])
    /\ UNCHANGED <<config, clock, begun>>

\* handleLogout: only the browser forgets.
handleLogout(b, view) ==
    /\ sessionSigningEnabled
    /\ hasSameSiteProof(view)
    /\ cookies[b].session # None
    /\ cookies' = [cookies EXCEPT ![b].session = None]
    /\ UNCHANGED <<config, clock, begun, calls, answered>>

-----------------------------------------------------------------------------
(* What happens around the server.                                         *)

\* Max-Age ran out.
CookieExpires(b, which) ==
    /\ cookies[b][which] # None
    /\ cookies[b][which].exp <= clock
    /\ cookies' = [cookies EXCEPT ![b][which] = None]
    /\ UNCHANGED <<config, clock, begun, calls, answered>>

Tick ==
    /\ clock < MaxClock
    /\ clock' = clock + 1
    /\ UNCHANGED <<config, cookies, begun, calls, answered>>

\* The server is started with other settings; the callbacks it was at are lost.
Restart(c) ==
    /\ c # config
    /\ config' = c
    /\ calls' = [k \in Callbacks |-> IF calls[k].at = "exchange" THEN Idle ELSE calls[k]]
    /\ UNCHANGED <<clock, cookies, begun, answered>>

SessionsInit ==
    /\ config \in Configs
    /\ clock = 0
    /\ cookies = [b \in Browsers |-> [state |-> None, session |-> None]]
    /\ begun = <<>>
    /\ calls = [k \in Callbacks |-> Idle]
    /\ answered = [b \in Browsers |-> {}]

SessionsNext ==
    \/ \E b \in Browsers :
          \/ handleGithubLogin(b)
          \/ \E c \in Callbacks, link \in Links : CallbackSent(c, b, link)
          \/ \E view \in View : handleLogout(b, view)
          \/ \E which \in {"state", "session"} : CookieExpires(b, which)
    \/ \E c \in Callbacks :
          CallbackBegins(c) \/ CallbackEnds(c)
    \/ Tick
    \/ \E c \in Configs : Restart(c)

SessionsSpec == SessionsInit /\ [][SessionsNext]_vars

-----------------------------------------------------------------------------
(* Properties.                                                             *)

\* A browser holds a session only from a login it began itself, whoever followed which
\* link when and however its callbacks overlapped: the state is bound to the browser
\* (auth_service.cpp, handleGithubLogin).
SessionFromOwnLogin ==
    \A b \in Browsers :
        cookies[b].session # None => begun[cookies[b].session.nonce] = b

\* A callback that a browser sends after it had an answer to one with the same nonce is
\* not let past the state check, however many are under way and whatever the answer was:
\* the answer took the state cookie (auth_service.cpp, handleGithubCallback).  Those sent
\* before that answer came may both pass; the server remembers no nonce.
StateUsedOnce ==
    \A c \in Callbacks :
        calls[c].at = "exchange" => ~calls[c].again

\* /auth/me says is_admin to exactly those whose next POST from the dashboard the guard
\* lets through, two readings of the settings and the cookie in two files.
MeMatchesGuard ==
    \A b \in Browsers :
        IsAdmin(b) <=> authorized(authorizeAdminRequest(cookies[b].session,
                          [adminTokenHeader |-> "", isPost |-> TRUE,
                           secFetchSite |-> "same-origin", origin |-> "own"]))
=============================================================================
