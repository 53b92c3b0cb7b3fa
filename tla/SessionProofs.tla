---------------------------- MODULE SessionProofs ----------------------------
(***************************************************************************)
(* Theorems about sessions, for every number of browsers, users, CSRF      *)
(* tokens and requests in flight.                                          *)
(***************************************************************************)
EXTENDS Session, AdminApiProofs

-----------------------------------------------------------------------------
(***************************************************************************)
(* Refinement.  A step of a browser leaves AdminApi's variables alone, but *)
(* Observe runs with every step: it must have nothing to forget then.      *)
(***************************************************************************)
RacedInGuard ==
  raced \in [Slots -> BOOLEAN] /\ \A q \in Slots : raced[q] => InGuard(req[q].pc)

LEMMA RacedStep ==
  ASSUME RacedInGuard, [SessionNext]_allVars
  PROVE  RacedInGuard'
<1>1. CASE UNCHANGED allVars
  BY <1>1 DEF allVars, vars, RacedInGuard
<1>2. CASE SessionNext
  BY <1>2 DEF SessionNext, Observe, RacedInGuard
<1> QED BY <1>1, <1>2

LEMMA ServeRefines ==
  ASSUME NEW q \in Slots, Serve(q)
  PROVE  Step(q) \/ UNCHANGED <<tables, req>>
<1>1. CASE requireAdmin(q)
  BY <1>1 DEF requireAdmin, Step
<1>2. CASE ShowPage(q)
  <2>1. Fail(q)
    BY <1>2 DEF ShowPage, Fail, at
  <2> QED BY <2>1 DEF Step
<1>3. CASE Handle(q)
  BY <1>3 DEF Handle
<1>4. CASE handleLogout(q)
  BY <1>4 DEF handleLogout
<1>5. CASE Abort(q)
  BY <1>5 DEF Abort, Step
<1> QED BY <1>1, <1>2, <1>3, <1>4, <1>5 DEF Serve

LEMMA SessionRefines ==
  ASSUME RacedInGuard, [SessionNext]_allVars
  PROVE  [Next]_vars
<1>1. CASE UNCHANGED allVars
  BY <1>1 DEF allVars
<1>2. CASE SessionNext
  <2>1. EnsureAdmin \/ (\E q \in Slots : Step(q)) \/ UNCHANGED <<tables, req>>
    BY <1>2, ServeRefines
    DEF SessionNext, Authenticate, handleLoginPOST, LoseCookie, Submit
  <2>2. CASE UNCHANGED <<tables, req>>
    <3>1. ActiveAdmins' = ActiveAdmins
      BY <2>2 DEF tables, ActiveAdmins, IsActiveAdmin, IsUser
    <3>2. raced' = [q \in Slots |-> raced[q]]
      BY <1>2, <2>2, <3>1 DEF SessionNext, Observe, RacedInGuard
    <3> QED BY <2>2, <3>2 DEF RacedInGuard, vars, tables
  <2> QED BY <1>2, <2>1, <2>2 DEF SessionNext, Next
<1> QED BY <1>1, <1>2

\* Cookies, logins and forms are behind requests that AdminApi knows already:
\* with them the service takes no other steps, and all that is proved of Spec
\* holds of it.
THEOREM SessionImplementsAdminApi == SessionSpec => ImplementsAdminApi
<1>1. SessionInit => Init /\ RacedInGuard
  BY DEF SessionInit, Init, RacedInGuard
<1>2. RacedInGuard /\ [SessionNext]_allVars => RacedInGuard'
  BY RacedStep
<1>3. RacedInGuard /\ [SessionNext]_allVars => [Next]_vars
  BY SessionRefines
<1> QED BY <1>1, <1>2, <1>3, PTL DEF SessionSpec, Spec, ImplementsAdminApi

-----------------------------------------------------------------------------
(***************************************************************************)
(* Typing.                                                                 *)
(***************************************************************************)

\* A step of a request is seen in its own slot only; out of "idle" it goes by
\* requireAdmin alone, and never without a call.
LEMMA ServeIsLocal ==
  ASSUME SessionTypeOK, NEW p \in Slots, NEW q \in Slots, p # q, Serve(p)
  PROVE  req'[q] = req[q] /\ call'[q] = call[q]
<1>1. req'[q] = req[q]
  BY ServeRefines, StepIsLocal DEF SessionTypeOK, TypeOK
<1>2. call'[q] = call[q]
  BY DEF Serve, requireAdmin, ShowPage, Handle, handleLogout, Abort, finish, SessionTypeOK
<1> QED BY <1>1, <1>2

LEMMA ServeTyped ==
  ASSUME SessionTypeOK, NEW q \in Slots, Serve(q)
  PROVE  /\ jar' \in [Browsers -> Cookie \cup {NULL}]
         /\ page' \in [Browsers -> Cookie \cup {NULL}]
         /\ login' = login
         /\ call' \in [Slots -> Call \cup {NULL}]
         /\ call'[q] = call[q] \/ (call'[q] = NULL /\ at(q, "idle")')
         /\ ~at(q, "idle")' => call[q] # NULL /\ call[q].kind # "logout"
<1> USE DEF SessionTypeOK, at
<1> req \in [Slots -> Request]
  BY DEF TypeOK
<1>1. ASSUME call[q] # NULL PROVE call[q] \in Call /\ call[q].cookie \in Cookie
  BY <1>1 DEF Call
<1>2. finish(q) => call' \in [Slots -> Call \cup {NULL}] /\ call'[q] = NULL
  BY DEF finish
<1>3. ASSUME call[q] # NULL, Clear(call[q].browser)
      PROVE  jar' \in [Browsers -> Cookie \cup {NULL}]
  BY <1>3 DEF Clear
<1>4. respond(q) => req'[q] = Idle /\ req'[q].pc = "idle"
  BY DEF respond, Idle
<1>5. CASE requireAdmin(q)
  BY <1>2, <1>3, <1>5 DEF requireAdmin
<1>6. CASE ShowPage(q)
  BY <1>1, <1>2, <1>4, <1>6 DEF ShowPage, Render
<1>7. CASE Handle(q)
  <2>1. call[q] # NULL => page' \in [Browsers -> Cookie \cup {NULL}]
    BY <1>1, <1>7 DEF Handle, Render
  <2> QED BY <1>2, <1>4, <1>7, <2>1 DEF Handle, Idle
<1>8. CASE handleLogout(q)
  BY <1>2, <1>3, <1>8 DEF handleLogout
<1>9. CASE Abort(q)
  BY <1>2, <1>4, <1>9 DEF Abort, Fail
<1> QED BY <1>5, <1>6, <1>7, <1>8, <1>9 DEF Serve

\* What browsers do leaves the requests that are served alone.
LEMMA BrowserTyped ==
  ASSUME SessionTypeOK, NEW b \in Browsers,
         \/ Authenticate(b) \/ handleLoginPOST(b) \/ LoseCookie(b)
         \/ \E q \in Slots : Submit(b, q)
  PROVE  /\ login' \in [Browsers -> UserIds \cup {NULL}]
         /\ jar' \in [Browsers -> Cookie \cup {NULL}]
         /\ page' = page
         /\ call' \in [Slots -> Call \cup {NULL}]
         /\ \A q \in Slots : call[q] # NULL => call'[q] = call[q]
         /\ req' = req
<1> USE DEF SessionTypeOK
<1>1. CASE Authenticate(b)
  BY <1>1 DEF Authenticate
<1>2. CASE handleLoginPOST(b)
  <2>1. PICK c \in CsrfTokens : jar' = [jar EXCEPT ![b] = [user |-> login[b], csrf |-> c]]
    BY <1>2 DEF handleLoginPOST
  <2>2. [user |-> login[b], csrf |-> c] \in Cookie
    BY <1>2 DEF handleLoginPOST, Cookie
  <2> QED BY <1>2, <2>1, <2>2 DEF handleLoginPOST
<1>3. CASE LoseCookie(b)
  BY <1>3 DEF LoseCookie
<1>4. ASSUME NEW q \in Slots, Submit(b, q)
      PROVE  call' \in [Slots -> Call \cup {NULL}] /\ \A p \in Slots : p # q => call'[p] = call[p]
  <2>1. \A kind \in CallKinds, form \in Cookie :
          [browser |-> b, kind |-> kind, cookie |-> jar[b], form |-> form] \in Call
    BY <1>4 DEF Submit, Call
  <2>2. jar[b] \in Cookie /\ (page[b] # NULL => page[b] \in Cookie)
    BY <1>4 DEF Submit
  <2>3. PICK kind \in CallKinds, form \in Cookie : call' = [call EXCEPT ![q] =
          [browser |-> b, kind |-> kind, cookie |-> jar[b], form |-> form]]
    BY <1>4, <2>2 DEF Submit, CallKinds
  <2> QED BY <2>1, <2>3
<1> QED BY <1>1, <1>2, <1>3, <1>4 DEF Submit

LEMMA SessionTypeStep ==
  ASSUME SessionTypeOK, TypeOK', [SessionNext]_allVars
  PROVE  SessionTypeOK'
<1>1. CASE UNCHANGED allVars
  BY <1>1 DEF allVars, vars, SessionTypeOK, at
<1>2. CASE SessionNext
  <2> USE DEF SessionTypeOK
  <2>1. entitled' \in [Slots -> BOOLEAN]
    BY <1>2 DEF SessionNext, Remember, Entitled, IsActiveAdmin
  <2>2. CASE EnsureAdmin /\ UNCHANGED sessionVars
    BY <2>1, <2>2 DEF EnsureAdmin, sessionVars, at
  <2>3. ASSUME NEW b \in Browsers,
               \/ Authenticate(b) \/ handleLoginPOST(b) \/ LoseCookie(b)
               \/ \E q \in Slots : Submit(b, q)
        PROVE  SessionTypeOK'
    BY <2>1, <2>3, BrowserTyped DEF at
  <2>4. ASSUME NEW q \in Slots, Serve(q) PROVE SessionTypeOK'
    <3>1. \A p \in Slots \ {q} : req'[p] = req[p] /\ call'[p] = call[p]
      BY <2>4, ServeIsLocal
    <3> QED BY <2>1, <2>4, <3>1, ServeTyped DEF at
  <2> QED BY <1>2, <2>2, <2>3, <2>4 DEF SessionNext
<1> QED BY <1>1, <1>2

\* Cookies, pages and calls keep their types; a request that a handler works on
\* has a call behind it.
THEOREM SessionTypeCorrect == SessionSpec => []SessionTypeOK
<1>1. SessionInit /\ TypeOK => SessionTypeOK
  BY DEF SessionInit, Init, SessionTypeOK, at, Idle
<1>2. SessionSpec => []TypeOK
  BY SessionImplementsAdminApi, TypeCorrect DEF ImplementsAdminApi
<1>3. SessionTypeOK /\ TypeOK' /\ [SessionNext]_allVars => SessionTypeOK'
  BY SessionTypeStep
<1> QED BY <1>1, <1>2, <1>3, PTL DEF SessionSpec

-----------------------------------------------------------------------------
(***************************************************************************)
(* Who writes.                                                             *)
(***************************************************************************)

\* A table is written by a POST handler, in its own slot, or by EnsureAdmin.
LEMMA WriterHandles ==
  ASSUME SessionTypeOK, [SessionNext]_allVars, NEW q \in Slots, Writes(q)
  PROVE  Handle(q)
<1> req'[q] # req[q] /\ tables' # tables
  BY DEF Writes
<1>1. SessionNext
  BY DEF allVars, vars
<1>2. PICK p \in Slots : Serve(p)
  BY <1>1
  DEF SessionNext, EnsureAdmin, Authenticate, handleLoginPOST, LoseCookie, Submit
<1>3. p = q
  BY <1>2, ServeIsLocal
<1>4. Handle(p)
  BY <1>2 DEF Serve, requireAdmin, RequireAdmin, ShowPage, handleLogout, Abort, Fail
<1> QED BY <1>3, <1>4

\* Past requireAdmin, a request's user was an active admin since it arrived.
AdmittedWereAdmins == \A q \in Slots : ~at(q, "idle") => entitled[q]

LEMMA AdmittedStep ==
  ASSUME SessionTypeOK, SessionTypeOK', AdmittedWereAdmins, [SessionNext]_allVars
  PROVE  AdmittedWereAdmins'
<1>1. CASE UNCHANGED allVars
  BY <1>1 DEF allVars, vars, AdmittedWereAdmins, at
<1>2. CASE SessionNext
  <2> SUFFICES ASSUME NEW q \in Slots, ~at(q, "idle")' PROVE entitled'[q]
    BY DEF AdmittedWereAdmins
  <2>1. call'[q] # NULL
    BY DEF SessionTypeOK
  <2>2. CASE ~at(q, "idle")
    BY <1>2, <2>1, <2>2 DEF SessionNext, Remember, AdmittedWereAdmins, SessionTypeOK
  <2>3. CASE at(q, "idle")
    <3>1. PICK p \in Slots : Serve(p)
      BY <1>2, <2>3
      DEF SessionNext, EnsureAdmin, Authenticate, handleLoginPOST, LoseCookie, Submit, at
    <3>2. p = q
      BY <2>3, <3>1, ServeIsLocal DEF at
    <3>3. requireAdmin(q)
      BY <2>3, <3>1, <3>2, ServeTyped
      DEF Serve, ShowPage, Handle, handleLogout, Abort, Fail, at
    <3>4. IsActiveAdmin(call[q].cookie.user) /\ UNCHANGED <<tables, call>>
      BY <2>3, <3>3 DEF requireAdmin, RequireAdmin, at
    <3>5. Entitled(q)'
      BY <2>1, <3>4 DEF Entitled, IsActiveAdmin, IsUser, tables
    <3> QED BY <1>2, <3>5 DEF SessionNext, Remember
  <2> QED BY <2>2, <2>3
<1> QED BY <1>1, <1>2

\* Whatever has become of the user since the login: a request writes only if
\* its user was an active admin at some moment after the request arrived.
THEOREM OnlyAdminsWrite == SessionSpec => WritesByAdmins
<1>1. SessionInit => AdmittedWereAdmins
  BY DEF SessionInit, Init, AdmittedWereAdmins, at, Idle
<1>2. SessionTypeOK /\ SessionTypeOK' /\ AdmittedWereAdmins /\ [SessionNext]_allVars
        => AdmittedWereAdmins'
  BY AdmittedStep
<1>3. SessionTypeOK /\ AdmittedWereAdmins /\ [SessionNext]_allVars
        => [\A q \in Slots : Writes(q) => entitled[q]]_allVars
  <2> SUFFICES ASSUME SessionTypeOK, AdmittedWereAdmins, [SessionNext]_allVars,
                      NEW q \in Slots, Writes(q)
               PROVE  entitled[q]
    OBVIOUS
  <2>1. Handle(q)
    BY WriterHandles
  <2> QED BY <2>1 DEF Handle, AdmittedWereAdmins
<1> QED BY <1>1, <1>2, <1>3, SessionTypeCorrect, PTL DEF SessionSpec, WritesByAdmins

-----------------------------------------------------------------------------
(***************************************************************************)
(* Forms and logins.  A CSRF token names one login: of all the cookies     *)
(* that are around, in jars, pages and requests, no two have the same.     *)
(***************************************************************************)
Around ==
  {s \in Cookie : \/ \E b \in Browsers : s = jar[b] \/ s = page[b]
                  \/ \E q \in Slots : /\ call[q] # NULL
                                      /\ s = call[q].cookie \/ s = call[q].form}

TokensNameLogins == \A s, t \in Around : s.csrf = t.csrf => s = t

\* In its guarded section a request has passed validateCSRF.
GuardedFormsMatch ==
  \A q \in Slots : InGuard(req[q].pc) => call[q].form.csrf = call[q].cookie.csrf

LEMMA AroundGrows ==
  ASSUME SessionTypeOK, SessionTypeOK', [SessionNext]_allVars
  PROVE  \/ Around' \subseteq Around
         \/ \E c \in CsrfTokens : \E u :
              /\ newCSRFToken(c)
              /\ Around' \subseteq Around \cup {[user |-> u, csrf |-> c]}
<1> USE DEF SessionTypeOK
<1>1. ASSUME UNCHANGED <<jar, page, call>> PROVE Around' \subseteq Around
  BY <1>1 DEF Around
<1>2. ASSUME NEW b \in Browsers, handleLoginPOST(b)
      PROVE  \E c \in CsrfTokens : \E u :
               /\ newCSRFToken(c)
               /\ Around' \subseteq Around \cup {[user |-> u, csrf |-> c]}
  <2>1. PICK c \in CsrfTokens : /\ newCSRFToken(c)
                                /\ jar' = [jar EXCEPT ![b] = [user |-> login[b], csrf |-> c]]
    BY <1>2 DEF handleLoginPOST
  <2>2. Around' \subseteq Around \cup {[user |-> login[b], csrf |-> c]}
    BY <1>2, <2>1 DEF handleLoginPOST, Around
  <2> QED BY <2>1, <2>2
<1>3. ASSUME NEW b \in Browsers, LoseCookie(b) PROVE Around' \subseteq Around
  BY <1>3, NullIsNoCookie DEF LoseCookie, Around
<1>4. ASSUME NEW b \in Browsers, NEW q \in Slots, Submit(b, q) PROVE Around' \subseteq Around
  BY <1>4 DEF Submit, Around
<1>5. ASSUME NEW q \in Slots, Serve(q) PROVE Around' \subseteq Around
  <2>1. \A p \in Slots : call'[p] = call[p] \/ call'[p] = NULL
    BY <1>5, ServeIsLocal, ServeTyped
  <2>2. \A b \in Browsers : jar'[b] = jar[b] \/ jar'[b] = NULL
    BY <1>5 DEF Serve, requireAdmin, RequireAdmin, ShowPage, Handle, handleLogout, Abort, Clear
  <2>3. \A b \in Browsers :
          page'[b] = page[b] \/ \E p \in Slots : call[p] # NULL /\ page'[b] = call[p].cookie
    BY <1>5, ServeTyped DEF Serve, requireAdmin, ShowPage, Handle, handleLogout, Abort, Render, at
  <2> QED BY <2>1, <2>2, <2>3, NullIsNoCookie DEF Around
<1> QED BY <1>1, <1>2, <1>3, <1>4, <1>5
    DEF SessionNext, sessionVars, Authenticate, allVars

LEMMA LoginsStep ==
  ASSUME SessionTypeOK, SessionTypeOK', TokensNameLogins, [SessionNext]_allVars
  PROVE  TokensNameLogins'
<1>1. CASE Around' \subseteq Around
  BY <1>1 DEF TokensNameLogins
<1>2. ASSUME NEW c \in CsrfTokens, NEW u, newCSRFToken(c),
             Around' \subseteq Around \cup {[user |-> u, csrf |-> c]}
      PROVE  TokensNameLogins'
  <2>1. \A s \in Around : s.csrf # c
    BY <1>2, NullIsNoCookie DEF Around, newCSRFToken
  <2> QED BY <1>2, <2>1 DEF TokensNameLogins
<1> QED BY <1>1, <1>2, AroundGrows

LEMMA GuardedFormsStep ==
  ASSUME SessionTypeOK, SessionTypeOK', GuardedFormsMatch, [SessionNext]_allVars
  PROVE  GuardedFormsMatch'
<1> SUFFICES ASSUME NEW q \in Slots, InGuard(req'[q].pc)
             PROVE  call'[q].form.csrf = call'[q].cookie.csrf
  BY DEF GuardedFormsMatch
<1>1. CASE req'[q] = req[q]
  <2>1. call[q] # NULL /\ ~at(q, "idle")
    BY <1>1 DEF SessionTypeOK, at, InGuard
  <2>2. call'[q] = call[q]
    <3>1. ASSUME NEW p \in Slots, Serve(p) PROVE call'[q] = call[q]
      BY <1>1, <2>1, <3>1, ServeIsLocal, ServeTyped DEF at
    <3> QED BY <2>1, <3>1, BrowserTyped DEF SessionNext, sessionVars, allVars
  <2> QED BY <1>1, <2>2 DEF GuardedFormsMatch
<1>2. CASE req'[q] # req[q]
  <2>1. PICK p \in Slots : Serve(p)
    BY <1>2
    DEF SessionNext, EnsureAdmin, Authenticate, handleLoginPOST, LoseCookie, Submit,
        allVars, vars
  <2>2. p = q
    BY <1>2, <2>1, ServeIsLocal
  <2>3. Serve(q) /\ call'[q] = call[q]
    BY <2>1, <2>2, ServeTyped DEF at, InGuard
  <2>4. ~respond(q) /\ ~RequireAdmin(q)
    BY DEF respond, RequireAdmin, goto, Idle, InGuard, SessionTypeOK, TypeOK, Request
  <2>5. Handle(q)
    BY <1>2, <2>3, <2>4
    DEF Serve, requireAdmin, ShowPage, handleLogout, Abort, Fail
  <2>6. at(q, "handler") \/ InGuard(req[q].pc)
    BY <2>5 DEF Handle, at, InGuard, SessionTypeOK, TypeOK, Request, PCs
  <2> QED BY <2>3, <2>5, <2>6 DEF Handle, validateCSRF, GuardedFormsMatch
<1> QED BY <1>1, <1>2

\* A request writes only by a form that was rendered under the very cookie it
\* comes with: with one login's form nothing is written in another.
THEOREM FormsBelongToLogins == SessionSpec => FormsStayInTheirLogin
<1>1. SessionInit => TokensNameLogins /\ GuardedFormsMatch
  <2>1. SessionInit => Around = {}
    BY NullIsNoCookie DEF SessionInit, Around
  <2> QED BY <2>1 DEF SessionInit, Init, TokensNameLogins, GuardedFormsMatch, InGuard, Idle
<1>2. SessionTypeOK /\ SessionTypeOK' /\ TokensNameLogins /\ GuardedFormsMatch
        /\ [SessionNext]_allVars => TokensNameLogins' /\ GuardedFormsMatch'
  BY LoginsStep, GuardedFormsStep
<1>3. SessionTypeOK /\ TokensNameLogins /\ GuardedFormsMatch /\ [SessionNext]_allVars
        => [\A q \in Slots : Writes(q) => call[q].form = call[q].cookie]_allVars
  <2> SUFFICES ASSUME SessionTypeOK, TokensNameLogins, GuardedFormsMatch,
                      [SessionNext]_allVars, NEW q \in Slots, Writes(q)
               PROVE  call[q].form = call[q].cookie
    OBVIOUS
  <2>1. Handle(q)
    BY WriterHandles
  <2>2. at(q, "handler") \/ InGuard(req[q].pc)
    BY <2>1 DEF Handle, at, InGuard, SessionTypeOK, TypeOK, Request, PCs
  <2>3. call[q].form.csrf = call[q].cookie.csrf
    BY <2>1, <2>2 DEF Handle, validateCSRF, GuardedFormsMatch
  <2>4. call[q].form \in Around /\ call[q].cookie \in Around
    BY <2>1 DEF Handle, SessionTypeOK, Call, Around
  <2> QED BY <2>3, <2>4 DEF TokensNameLogins
<1> QED BY <1>1, <1>2, <1>3, SessionTypeCorrect, PTL DEF SessionSpec, FormsStayInTheirLogin
=============================================================================
