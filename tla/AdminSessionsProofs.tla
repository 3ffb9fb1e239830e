------------------------ MODULE AdminSessionsProofs ------------------------
(***************************************************************************)
(* Proofs about AdminSessions, for any browsers, callbacks under way,      *)
(* logins, settings and bounds.  The argument follows a nonce: it is given *)
(* to one browser, in a state cookie; a callback carries the cookie its    *)
(* browser had when it was sent, and gets past the state check only with   *)
(* the nonce in it, so a session that comes of it carries a nonce of its   *)
(* own browser (NoncesOK, CallOK); and the answer that records a nonce as  *)
(* answered clears the cookie, so callbacks sent later do not carry it.    *)
(***************************************************************************)
EXTENDS AdminSessions, SequenceTheorems, TLAPS

-----------------------------------------------------------------------------
(* The inductive invariant *)

\* The two cookies of a browser.
IsJar(jar) == jar \in [state : {jar.state}, session : {jar.session}]

GivenTo(b, n) == n \in DOMAIN begun /\ begun[n] = b

NoncesOK(b) ==
    /\ IsJar(cookies[b])
    /\ cookies[b].state # None =>
          /\ GivenTo(b, cookies[b].state.nonce)
          /\ cookies[b].state.nonce \notin answered[b]
    /\ cookies[b].session # None => GivenTo(b, cookies[b].session.nonce)
    /\ answered[b] \subseteq DOMAIN begun

\* A callback under way: what it carries was given to its browser; if it carries a nonce
\* its browser had an answer to, the cookie it carries is for another one.
CallOK(call) ==
    \/ call = Idle
    \/ /\ call.at = "sent"
       /\ call.browser \in Browsers
       /\ call.link[1] \in DOMAIN begun
       /\ call.state # None =>
             /\ GivenTo(call.browser, call.state.nonce)
             /\ call.state.nonce = call.link[1] => ~call.again
    \/ /\ call.at = "exchange"
       /\ call.browser \in Browsers
       /\ GivenTo(call.browser, call.link[1])
       /\ ~call.again

SessionsInv ==
    /\ begun \in Seq(Browsers)
    /\ cookies = [b \in Browsers |-> cookies[b]]
    /\ calls = [c \in Callbacks |-> calls[c]]
    /\ answered = [b \in Browsers |-> answered[b]]
    /\ \A b \in Browsers : NoncesOK(b)
    /\ \A c \in Callbacks : CallOK(calls[c])

-----------------------------------------------------------------------------
(* Steps *)

\* One cookie of a browser changes.
LEMMA ChangedJar ==
    ASSUME NEW jar, IsJar(jar), NEW x
    PROVE  /\ LET j == [jar EXCEPT !.state = x] IN
              IsJar(j) /\ j.state = x /\ j.session = jar.session
           /\ LET j == [jar EXCEPT !.session = x] IN
              IsJar(j) /\ j.session = x /\ j.state = jar.state
BY DEF IsJar

\* A begun login gets a number nobody was given.
LEMMA NewLogin ==
    ASSUME SessionsInv, NEW b \in Browsers, begun' = Append(begun, b),
           NEW n, n = Len(begun) + 1
    PROVE  /\ begun' \in Seq(Browsers)
           /\ n \notin DOMAIN begun
           /\ GivenTo(b, n)'
           /\ DOMAIN begun \subseteq DOMAIN begun'
           /\ \A c, m : GivenTo(c, m) => GivenTo(c, m)'
<1>1. Len(begun) \in Nat /\ DOMAIN begun = 1 .. Len(begun)
  BY LenProperties DEF SessionsInv
<1>2. /\ begun' \in Seq(Browsers) /\ Len(begun') = Len(begun) + 1
      /\ begun'[Len(begun) + 1] = b
      /\ \A i \in 1 .. Len(begun) : begun'[i] = begun[i]
  <2>1. begun \in Seq(Browsers)
    BY DEF SessionsInv
  <2> QED
    BY <2>1, AppendProperties
<1>3. DOMAIN begun' = 1 .. Len(begun) + 1
  BY <1>2, LenProperties
<1> QED
  BY <1>1, <1>2, <1>3 DEF GivenTo

LEMMA LoginKeeps ==
    ASSUME SessionsInv, NEW b \in Browsers, handleGithubLogin(b)
    PROVE  SessionsInv'
<1>0. PICK n : n = Len(begun) + 1
  OBVIOUS
<1> DEFINE cookie == [key |-> config.sessionSigningSecret, nonce |-> n,
                      exp |-> clock + kOauthStateTtl]
           jar == [cookies[b] EXCEPT !.state = cookie]
<1>1. /\ begun' = Append(begun, b)
      /\ cookies' = [cookies EXCEPT ![b] = jar]
      /\ UNCHANGED <<calls, answered>>
  BY <1>0 DEF handleGithubLogin
<1>2. NoncesOK(b) /\ IsJar(jar) /\ jar.state = cookie /\ jar.session = cookies[b].session
  <2>1. NoncesOK(b) /\ IsJar(cookies[b])
    BY DEF SessionsInv, NoncesOK
  <2> HIDE DEF cookie
  <2> QED
    BY <2>1, ChangedJar
<1>3. cookie.nonce = n
  OBVIOUS
<1> HIDE DEF cookie, jar
<1>4. NoncesOK(b)'
  <2>1. cookies'[b] = jar /\ answered'[b] = answered[b]
    BY <1>1 DEF SessionsInv
  <2>2. n \notin answered[b]
    BY <1>0, <1>1, <1>2, NewLogin DEF NoncesOK
  <2>3. GivenTo(b, n)'
    BY <1>0, <1>1, NewLogin
  <2> QED
    BY <1>1, <1>2, <1>3, <2>1, <2>2, <2>3, <1>0, NewLogin DEF NoncesOK
<1>5. ASSUME NEW c \in Browsers, c # b
      PROVE  NoncesOK(c)'
  <2>1. /\ cookies'[c] = cookies[c] /\ answered'[c] = answered[c]
        /\ NoncesOK(c)
    BY <1>1, <1>5 DEF SessionsInv
  <2> QED
    BY <1>0, <1>1, <2>1, NewLogin DEF NoncesOK
<1>6. ASSUME NEW c \in Callbacks
      PROVE  CallOK(calls[c])'
  BY <1>0, <1>1, NewLogin DEF SessionsInv, CallOK
<1> QED
  BY <1>0, <1>1, <1>4, <1>5, <1>6, NewLogin DEF SessionsInv

\* One callback goes on, or becomes idle, and the cookies stay as they are.
LEMMA CallKeeps ==
    ASSUME SessionsInv, NEW k \in Callbacks, NEW call, CallOK(call),
           calls' = [calls EXCEPT ![k] = call],
           UNCHANGED <<begun, cookies, answered>>
    PROVE  SessionsInv'
<1>1. ASSUME NEW c \in Callbacks
      PROVE  CallOK(calls[c])'
  <2>1. calls'[c] = (IF c = k THEN call ELSE calls[c]) /\ CallOK(calls[c])
    BY DEF SessionsInv
  <2> QED
    BY <2>1 DEF CallOK, GivenTo
<1>2. ASSUME NEW b \in Browsers
      PROVE  NoncesOK(b)'
  BY DEF SessionsInv, NoncesOK, GivenTo
<1> QED
  BY <1>1, <1>2 DEF SessionsInv

\* A callback ends with an answer, which leaves its browser no state cookie.
LEMMA AnswerKeeps ==
    ASSUME SessionsInv, NEW k \in Callbacks, NEW session,
           Answer(calls[k], session), calls' = [calls EXCEPT ![k] = Idle],
           UNCHANGED begun,
           calls[k].browser \in Browsers, calls[k].link[1] \in DOMAIN begun,
           session # None => GivenTo(calls[k].browser, session.nonce)
    PROVE  SessionsInv'
<1> DEFINE b == calls[k].browser
           n == calls[k].link[1]
           jar == CookiesAfter(cookies[b], session)
<1>1. CASE UNCHANGED <<cookies, answered>>
  <2>1. CallOK(Idle)
    BY DEF CallOK
  <2> QED
    BY <1>1, <2>1, CallKeeps
<1>2. CASE /\ cookies' = [cookies EXCEPT ![b] = jar]
           /\ answered' = [answered EXCEPT ![b] = answered[b] \cup {n}]
  <2>1. /\ IsJar(jar) /\ jar.state = None
        /\ jar.session = IF session = None THEN cookies[b].session ELSE session
    BY DEF IsJar, CookiesAfter
  <2>2. b \in Browsers /\ n \in DOMAIN begun /\ (session # None => GivenTo(b, session.nonce))
    OBVIOUS
  <2> HIDE DEF jar, b, n
  <2>3. ASSUME NEW c \in Browsers
        PROVE  NoncesOK(c)'
    <3>1. NoncesOK(c) /\ NoncesOK(b)
      BY <2>2 DEF SessionsInv
    <3>2. CASE c = b
      <4>1. cookies'[c] = jar /\ answered'[c] = answered[c] \cup {n}
        BY <1>2, <2>2, <3>2 DEF SessionsInv
      <4> QED
        BY <2>1, <2>2, <3>1, <3>2, <4>1 DEF NoncesOK, GivenTo
    <3>3. CASE c # b
      <4>1. cookies'[c] = cookies[c] /\ answered'[c] = answered[c]
        BY <1>2, <3>3 DEF SessionsInv
      <4> QED
        BY <3>1, <4>1 DEF NoncesOK, GivenTo
    <3> QED
      BY <3>2, <3>3
  <2>4. ASSUME NEW c \in Callbacks
        PROVE  CallOK(calls[c])'
    <3>1. calls'[c] = (IF c = k THEN Idle ELSE calls[c]) /\ CallOK(calls[c])
      BY DEF SessionsInv
    <3> QED
      BY <3>1 DEF CallOK, GivenTo
  <2> QED
    BY <1>2, <2>3, <2>4 DEF SessionsInv
<1> QED
  BY <1>1, <1>2 DEF Answer

LEMMA CallbackSentKeeps ==
    ASSUME SessionsInv, NEW c \in Callbacks, NEW b \in Browsers, NEW link \in Links,
           CallbackSent(c, b, link)
    PROVE  SessionsInv'
<1>1. /\ calls' = [calls EXCEPT ![c] = Sent(b, link)]
      /\ UNCHANGED <<begun, cookies, answered>>
  BY DEF CallbackSent
<1>2. /\ Sent(b, link).at = "sent" /\ Sent(b, link).browser = b
      /\ Sent(b, link).link = link /\ Sent(b, link).state = cookies[b].state
      /\ Sent(b, link).again <=> link[1] \in answered[b]
  BY DEF Sent
<1>3. link[1] \in DOMAIN begun
  BY DEF Links
<1>4. NoncesOK(b)
  BY DEF SessionsInv
<1>5. CallOK(Sent(b, link))
  BY <1>2, <1>3, <1>4 DEF CallOK, NoncesOK
<1> QED
  BY <1>1, <1>5, CallKeeps

\* What gets past the state check carries a nonce of its browser, which was not answered
\* when it was sent.
LEMMA PastTheCheck ==
    ASSUME SessionsInv, NEW c \in Callbacks, calls[c].at = "sent", StateMatches(calls[c])
    PROVE  CallOK(Exchanging(calls[c]))
<1>1. calls[c].state # None /\ calls[c].state.nonce = calls[c].link[1]
  BY DEF StateMatches, SignatureError
<1>2. CallOK(calls[c]) /\ calls[c] # Idle
  BY DEF SessionsInv, Idle
<1>3. /\ calls[c].browser \in Browsers
      /\ GivenTo(calls[c].browser, calls[c].link[1])
      /\ ~calls[c].again
  BY <1>1, <1>2 DEF CallOK
<1> QED
  BY <1>3 DEF CallOK, Exchanging

LEMMA CallbackBeginsKeeps ==
    ASSUME SessionsInv, NEW c \in Callbacks, CallbackBegins(c)
    PROVE  SessionsInv'
<1>1. calls[c].at = "sent" /\ UNCHANGED begun
  BY DEF CallbackBegins
<1>2. CASE calls' = [calls EXCEPT ![c] = Idle] /\ UNCHANGED <<cookies, answered>>
  <2>1. CallOK(Idle)
    BY DEF CallOK
  <2> QED
    BY <1>1, <1>2, <2>1, CallKeeps
<1>3. CASE calls' = [calls EXCEPT ![c] = Idle] /\ Answer(calls[c], None)
  <2>1. CallOK(calls[c]) /\ calls[c] # Idle
    BY <1>1 DEF SessionsInv, Idle
  <2>2. calls[c].browser \in Browsers /\ calls[c].link[1] \in DOMAIN begun
    BY <1>1, <2>1 DEF CallOK
  <2> QED
    BY <1>1, <1>3, <2>2, AnswerKeeps
<1>4. CASE /\ StateMatches(calls[c])
           /\ calls' = [calls EXCEPT ![c] = Exchanging(calls[c])]
           /\ UNCHANGED <<cookies, answered>>
  BY <1>1, <1>4, PastTheCheck, CallKeeps
<1> QED
  BY <1>2, <1>3, <1>4 DEF CallbackBegins

LEMMA CallbackEndsKeeps ==
    ASSUME SessionsInv, NEW c \in Callbacks, CallbackEnds(c)
    PROVE  SessionsInv'
<1> DEFINE new == [key |-> config.sessionSigningSecret, login |-> calls[c].link[2],
                   nonce |-> calls[c].link[1], exp |-> clock + config.sessionTtl]
<1>1. PICK session \in {None, new} : Answer(calls[c], session)
  BY DEF CallbackEnds
<1>2. /\ calls[c].at = "exchange"
      /\ calls' = [calls EXCEPT ![c] = Idle] /\ UNCHANGED begun
  BY DEF CallbackEnds
<1>3. CallOK(calls[c]) /\ calls[c] # Idle
  BY <1>2 DEF SessionsInv, Idle
<1>4. calls[c].browser \in Browsers /\ GivenTo(calls[c].browser, calls[c].link[1])
  BY <1>2, <1>3 DEF CallOK
<1>5. new.nonce = calls[c].link[1]
  OBVIOUS
<1> HIDE DEF new
<1>6. session # None => GivenTo(calls[c].browser, session.nonce)
  BY <1>4, <1>5
<1>7. calls[c].link[1] \in DOMAIN begun
  BY <1>4 DEF GivenTo
<1> QED
  BY <1>1, <1>2, <1>4, <1>6, <1>7, AnswerKeeps

\* A browser forgets a cookie.
LEMMA ForgettingKeeps ==
    ASSUME SessionsInv, NEW b \in Browsers, NEW jar, IsJar(jar),
           jar.state \in {cookies[b].state, None},
           jar.session \in {cookies[b].session, None},
           cookies' = [cookies EXCEPT ![b] = jar],
           UNCHANGED <<begun, calls, answered>>
    PROVE  SessionsInv'
<1>1. ASSUME NEW c \in Browsers
      PROVE  NoncesOK(c)'
  <2>1. NoncesOK(c) /\ cookies'[c] = IF c = b THEN jar ELSE cookies[c]
    BY DEF SessionsInv
  <2> QED
    BY <2>1 DEF NoncesOK, GivenTo
<1>2. ASSUME NEW c \in Callbacks
      PROVE  CallOK(calls[c])'
  BY DEF SessionsInv, CallOK, GivenTo
<1> QED
  BY <1>1, <1>2 DEF SessionsInv

LEMMA CookieExpiresKeeps ==
    ASSUME SessionsInv, NEW b \in Browsers, NEW which \in {"state", "session"},
           CookieExpires(b, which)
    PROVE  SessionsInv'
<1> DEFINE jar == [cookies[b] EXCEPT ![which] = None]
<1>1. /\ cookies' = [cookies EXCEPT ![b] = jar]
      /\ UNCHANGED <<begun, calls, answered>>
  BY DEF CookieExpires
<1>2. /\ IsJar(jar)
      /\ jar.state \in {cookies[b].state, None}
      /\ jar.session \in {cookies[b].session, None}
  <2>1. IsJar(cookies[b])
    BY DEF SessionsInv, NoncesOK
  <2>2. CASE which = "state"
    <3>1. jar = [cookies[b] EXCEPT !.state = None]
      BY <2>2
    <3> HIDE DEF jar
    <3> QED
      BY <2>1, <3>1, ChangedJar
  <2>3. CASE which = "session"
    <3>1. jar = [cookies[b] EXCEPT !.session = None]
      BY <2>3
    <3> HIDE DEF jar
    <3> QED
      BY <2>1, <3>1, ChangedJar
  <2> QED
    BY <2>2, <2>3
<1> HIDE DEF jar
<1> QED
  BY <1>1, <1>2, ForgettingKeeps

LEMMA LogoutKeeps ==
    ASSUME SessionsInv, NEW b \in Browsers, NEW view, handleLogout(b, view)
    PROVE  SessionsInv'
<1> DEFINE jar == [cookies[b] EXCEPT !.session = None]
<1>1. /\ cookies' = [cookies EXCEPT ![b] = jar]
      /\ UNCHANGED <<begun, calls, answered>>
  BY DEF handleLogout
<1>2. /\ IsJar(jar)
      /\ jar.state \in {cookies[b].state, None}
      /\ jar.session \in {cookies[b].session, None}
  BY ChangedJar DEF SessionsInv, NoncesOK
<1> HIDE DEF jar
<1> QED
  BY <1>1, <1>2, ForgettingKeeps

\* What happens around the server gives nobody a cookie; at most it ends callbacks.
LEMMA OutsideKeeps ==
    ASSUME SessionsInv, UNCHANGED <<cookies, begun, answered>>,
           calls' = [c \in Callbacks |-> calls'[c]],
           \A c \in Callbacks : calls'[c] \in {calls[c], Idle}
    PROVE  SessionsInv'
<1>1. ASSUME NEW b \in Browsers
      PROVE  NoncesOK(b)'
  BY DEF SessionsInv, NoncesOK, GivenTo
<1>2. ASSUME NEW c \in Callbacks
      PROVE  CallOK(calls[c])'
  <2>1. CallOK(calls[c]) /\ calls'[c] \in {calls[c], Idle}
    BY DEF SessionsInv
  <2> QED
    BY <2>1 DEF CallOK, GivenTo
<1> QED
  BY <1>1, <1>2 DEF SessionsInv

LEMMA EveryStepKeeps ==
    ASSUME SessionsInv, [SessionsNext]_vars
    PROVE  SessionsInv'
<1>1. ASSUME NEW c \in Callbacks,
             \/ CallbackBegins(c) \/ CallbackEnds(c)
             \/ \E b \in Browsers, link \in Links : CallbackSent(c, b, link)
      PROVE  SessionsInv'
  BY <1>1, CallbackBeginsKeeps, CallbackEndsKeeps, CallbackSentKeeps
<1>2. CASE Tick
  BY <1>2, OutsideKeeps DEF Tick, SessionsInv
<1>3. ASSUME NEW c \in Configs, Restart(c)
      PROVE  SessionsInv'
  BY <1>3, OutsideKeeps DEF Restart, SessionsInv
<1>4. CASE UNCHANGED vars
  BY <1>4, OutsideKeeps DEF vars, SessionsInv
<1> QED
  BY <1>1, <1>2, <1>3, <1>4, LoginKeeps, CookieExpiresKeeps, LogoutKeeps
     DEF SessionsNext

-----------------------------------------------------------------------------
(* The theorems *)

\* Whatever a browser holds, and whatever its callbacks carry, has a nonce it was given,
\* and a state cookie one that no callback of it was answered with.
THEOREM SessionsInvariant == SessionsSpec => []SessionsInv
<1>1. SessionsInit => SessionsInv
  BY EmptySeq DEF SessionsInit, SessionsInv, NoncesOK, IsJar, CallOK
<1> QED
  BY <1>1, EveryStepKeeps, PTL DEF SessionsSpec

\* A browser holds a session only from a login it began itself, however its callbacks
\* and those of others overlap and whatever the server is restarted with.
THEOREM SessionFromOwnLoginCorrect == SessionsSpec => []SessionFromOwnLogin
<1>1. SessionsInv => SessionFromOwnLogin
  BY DEF SessionsInv, NoncesOK, GivenTo, SessionFromOwnLogin
<1> QED
  BY <1>1, SessionsInvariant, PTL

\* A callback sent after its browser had an answer to one with the same nonce is not let
\* past the state check, however many are under way and whatever the answers were.
THEOREM StateUsedOnceCorrect == SessionsSpec => []StateUsedOnce
<1>1. ASSUME SessionsInv, NEW c \in Callbacks, calls[c].at = "exchange"
      PROVE  ~calls[c].again
  <2>1. CallOK(calls[c]) /\ calls[c] # Idle
    BY <1>1 DEF SessionsInv, Idle
  <2> QED
    BY <1>1, <2>1 DEF CallOK
<1>2. SessionsInv => StateUsedOnce
  BY <1>1 DEF StateUsedOnce
<1> QED
  BY <1>2, SessionsInvariant, PTL

\* /auth/me says is_admin to exactly those whose POST the guard lets through: the two
\* read the same settings and the same cookie the same way in every state.
THEOREM MeMatchesGuardCorrect == SessionsSpec => []MeMatchesGuard
<1>1. MeMatchesGuard
  <2> SUFFICES ASSUME NEW b \in Browsers
               PROVE  IsAdmin(b) <=>
                         authorized(authorizeAdminRequest(cookies[b].session,
                             [adminTokenHeader |-> "", isPost |-> TRUE,
                              secFetchSite |-> "same-origin", origin |-> "own"]))
    BY DEF MeMatchesGuard
  <2> DEFINE view == [adminTokenHeader |-> "", isPost |-> TRUE,
                      secFetchSite |-> "same-origin", origin |-> "own"]
             session == cookies[b].session
             admin == /\ SignatureError(session) = "none"
                      /\ isAllowedAdminLogin(session.login)
  <2>1. hasSameSiteProof(view) /\ view.adminTokenHeader = ""
    BY DEF hasSameSiteProof
  <2>2. SignatureError(session) \in
           {"none", "not_configured", "missing", "bad_signature", "expired"}
    BY DEF SignatureError
  <2>3. IsAdmin(b) <=> admin
    BY DEF IsAdmin, Authenticated
  <2>4. admin => cookieConfigured
    BY DEF cookieConfigured, SignatureError, sessionSigningEnabled, isAllowedAdminLogin
  <2>5. authorized(authorizeAdminRequest(session, view)) <=>
           cookieConfigured /\ CookieDecision(session, view) = "by_cookie"
    <3> HIDE DEF view, session
    <3>1. CookieDecision(session, view) # "by_token"
      BY <2>2 DEF CookieDecision, SessionDecision
    <3> QED
      BY <2>1, <3>1 DEF authorized, authorizeAdminRequest
  <2>6. CookieDecision(session, view) = "by_cookie" <=> admin
    <3> HIDE DEF view, session
    <3> QED
      BY <2>1, <2>2 DEF CookieDecision, SessionDecision
  <2> QED
    BY <2>3, <2>4, <2>5, <2>6
<1> QED
  BY <1>1, PTL

=============================================================================
