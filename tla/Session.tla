------------------------------ MODULE Session ------------------------------
(***************************************************************************)
(* Who is behind the requests of AdminApi (session.go, csrf.go, login.go   *)
(* and the middleware of server.go).  The server keeps no sessions: a      *)
(* signed cookie names a user and the CSRF token of one login, and every   *)
(* page rendered under that cookie carries the token in its forms.  What   *)
(* the browser holds and what a request in flight captured when it arrived *)
(* drift apart as people log in and out, in other tabs too.                *)
(*                                                                         *)
(*   browser --Submit--> slot: withSession --> requireAdmin --> AdminApi   *)
(*                                        \--> handleLogout                *)
(*                                                                         *)
(* Nobody makes up a cookie: the signature lets through only values that   *)
(* SessionManager.Set has written.                                         *)
(***************************************************************************)
EXTENDS AdminApi

CONSTANTS
  Browsers,
  CsrfTokens   \* what newCSRFToken draws from

ASSUME SessionAssumption == NULL \notin CsrfTokens

Cookie == [user : UserIds, csrf : CsrfTokens]
CallKinds == {"get", "post", "logout"}
Call   == [browser : Browsers, kind : CallKinds, cookie : Cookie, form : Cookie]

ASSUME NullIsNoCookie == NULL \notin Cookie \cup Call

VARIABLES
  login,    \* browser -> the user its login in progress has authenticated
  jar,      \* browser -> its session cookie
  page,     \* browser -> the cookie that its open page was rendered under
  call,     \* slot -> the request it serves, as withSession captured it
  entitled  \* slot -> history: was its user an active admin since it arrived?

sessionVars == <<login, jar, page, call>>
allVars == <<vars, login, jar, page, call, entitled>>

SessionTypeOK ==
  /\ TypeOK
  /\ login \in [Browsers -> UserIds \cup {NULL}]
  /\ jar \in [Browsers -> Cookie \cup {NULL}]
  /\ page \in [Browsers -> Cookie \cup {NULL}]
  /\ call \in [Slots -> Call \cup {NULL}]
  /\ entitled \in [Slots -> BOOLEAN]
  /\ \A q \in Slots : ~at(q, "idle") => call[q] # NULL /\ call[q].kind # "logout"

SessionInit ==
  /\ Init
  /\ login = [b \in Browsers |-> NULL]
  /\ jar = [b \in Browsers |-> NULL]
  /\ page = [b \in Browsers |-> NULL]
  /\ call = [q \in Slots |-> NULL]
  /\ entitled = [q \in Slots |-> FALSE]

\* The user of the request in q is an active admin now.
Entitled(q) == call[q] # NULL /\ IsActiveAdmin(call[q].cookie.user)

Remember ==
  entitled' = [q \in Slots |->
    Entitled(q)' \/ (entitled[q] /\ call[q] # NULL /\ call'[q] # NULL)]

(***************************************************************************)
(* POST /login.  Authenticate (TokenService has its details) reads the     *)
(* user first and perhaps its tokens next; the flags are those of the      *)
(* first read.  A failed login and one of another user change nothing.     *)
(***************************************************************************)
Authenticate(b) ==
  /\ login[b] = NULL
  /\ \E u \in UserIds : IsActiveAdmin(u) /\ login' = [login EXCEPT ![b] = u]
  /\ UNCHANGED <<tables, req, jar, page, call>>

\* 32 random bytes: no cookie, page or request has them yet.
newCSRFToken(c) ==
  /\ \A b \in Browsers : \A s \in {jar[b], page[b]} : s # NULL => s.csrf # c
  /\ \A q \in Slots : call[q] # NULL => call[q].cookie.csrf # c /\ call[q].form.csrf # c

BUG_handleLoginPOST_KeepsToken(b) ==   \* a token from an earlier login is used again
  /\ login[b] # NULL
  /\ \E c \in CsrfTokens :
       /\ IF jar[b] # NULL THEN c = jar[b].csrf ELSE newCSRFToken(c)
       /\ jar' = [jar EXCEPT ![b] = [user |-> login[b], csrf |-> c]]
  /\ login' = [login EXCEPT ![b] = NULL]
  /\ UNCHANGED <<tables, req, page, call>>

handleLoginPOST(b) ==
  /\ login[b] # NULL
  /\ \E c \in CsrfTokens :
       /\ newCSRFToken(c)
       /\ jar' = [jar EXCEPT ![b] = [user |-> login[b], csrf |-> c]]
  /\ login' = [login EXCEPT ![b] = NULL]
  /\ UNCHANGED <<tables, req, page, call>>

\* The answer to a login is lost, the cookie expires or is deleted, or an
\* answer that clears it arrives late.
LoseCookie(b) ==
  /\ login[b] # NULL \/ jar[b] # NULL
  /\ login' = [login EXCEPT ![b] = NULL]
  /\ jar' = [jar EXCEPT ![b] = NULL]
  /\ UNCHANGED <<tables, req, page, call>>

(***************************************************************************)
(* A request arrives.  Without a cookie it is redirected to the login page *)
(* and changes nothing; a form without a token fails validateCSRF.         *)
(***************************************************************************)
Submit(b, q) ==
  /\ call[q] = NULL /\ jar[b] # NULL
  /\ \/ call' = [call EXCEPT ![q] =
          [browser |-> b, kind |-> "get", cookie |-> jar[b], form |-> jar[b]]]
     \/ /\ page[b] # NULL
        /\ \E kind \in {"post", "logout"} : call' = [call EXCEPT ![q] =
             [browser |-> b, kind |-> kind, cookie |-> jar[b], form |-> page[b]]]
  /\ UNCHANGED <<tables, req, login, jar, page>>

finish(q)       == call' = [call EXCEPT ![q] = NULL]
Clear(b)        == jar' = [jar EXCEPT ![b] = NULL]
validateCSRF(q) == call[q].form.csrf = call[q].cookie.csrf

BUG_requireAdmin_TrustsCookie(q) ==   \* the user is not looked up again
  /\ at(q, "idle") /\ call[q] # NULL /\ call[q].kind # "logout"
  /\ goto(q, "handler")
  /\ UNCHANGED <<tables, jar, call, login, page>>

BUG_requireAdmin_ActiveOnly(q) ==   \* user.Admin is not looked at
  /\ at(q, "idle") /\ call[q] # NULL /\ call[q].kind # "logout"
  /\ LET u == call[q].cookie.user
     IN IF IsUser(u) /\ users[u].active
        THEN goto(q, "handler") /\ UNCHANGED <<tables, jar, call>>
        ELSE Clear(call[q].browser) /\ finish(q) /\ UNCHANGED <<tables, req>>
  /\ UNCHANGED <<login, page>>

\* The user of the cookie is looked up.  A missing or disabled one loses the
\* browser's cookie, whichever that is by now; a demoted one gets a 403.
requireAdmin(q) ==
  /\ at(q, "idle") /\ call[q] # NULL /\ call[q].kind # "logout"
  /\ LET u == call[q].cookie.user
     IN \/ IsActiveAdmin(u) /\ RequireAdmin(q) /\ UNCHANGED <<jar, call>>
        \/ /\ ~(IsUser(u) /\ users[u].active)
           /\ Clear(call[q].browser) /\ finish(q) /\ UNCHANGED <<tables, req>>
        \/ /\ IsUser(u) /\ users[u].active /\ ~users[u].admin
           /\ finish(q) /\ UNCHANGED <<tables, req, jar>>
  /\ UNCHANGED <<login, page>>

\* A page is rendered with the token of the request's cookie.
Render(q) == page' = [page EXCEPT ![call[q].browser] = call[q].cookie]

\* The pages under /admin.
ShowPage(q) ==
  /\ at(q, "handler") /\ call[q].kind = "get"
  /\ respond(q) /\ finish(q)
  /\ Render(q)
  /\ UNCHANGED <<tables, login, jar>>

\* A POST handler: the token is checked before anything else.  They answer with a
\* redirect; only handleAPITokensPOST shows a page, when its reads after the
\* insert succeed.
Handle(q) ==
  /\ ~at(q, "idle") /\ call[q].kind = "post"
  /\ at(q, "handler") => validateCSRF(q)
  /\ Step(q)
  /\ IF req'[q] = Idle THEN finish(q) ELSE UNCHANGED call
  /\ \/ UNCHANGED page
     \/ (\E t \in TokenIds : ~IsToken(t) /\ IsToken(t)') /\ Render(q)
  /\ UNCHANGED <<login, jar>>

\* requireSession has nothing left to ask; the user is not looked up.
handleLogout(q) ==
  /\ call[q] # NULL /\ call[q].kind = "logout"
  /\ validateCSRF(q)
  /\ Clear(call[q].browser) /\ finish(q)
  /\ UNCHANGED <<tables, req, login, page>>

BUG_Abort_NoReturn(q) ==   \* http.Error without a return after it
  /\ call[q] # NULL
  /\ finish(q)
  /\ UNCHANGED <<tables, req, login, jar, page>>

\* A refused token, an error of the store, or somebody goes away.
Abort(q) ==
  /\ call[q] # NULL
  /\ Fail(q) \/ (at(q, "idle") /\ UNCHANGED <<tables, req>>)
  /\ finish(q)
  /\ UNCHANGED <<login, jar, page>>

Serve(q) ==
  requireAdmin(q) \/ ShowPage(q) \/ Handle(q) \/ handleLogout(q) \/ Abort(q)

SessionNext ==
  /\ \/ EnsureAdmin /\ UNCHANGED sessionVars
     \/ \E b \in Browsers : Authenticate(b) \/ handleLoginPOST(b) \/ LoseCookie(b)
     \/ \E b \in Browsers, q \in Slots : Submit(b, q)
     \/ \E q \in Slots : Serve(q)
  /\ Observe
  /\ Remember

SessionSpec == SessionInit /\ [][SessionNext]_allVars

-----------------------------------------------------------------------------
\* Slot q writes to a table.
Writes(q) == req'[q] # req[q] /\ tables' # tables

\* The look-up in requireAdmin is all that stands between a cookie, which never
\* ends by itself on the server, and the tables: whatever has become of the user
\* since the login, a request writes only if its user was an active admin at
\* some moment after the request arrived.
WritesByAdmins == [][\A q \in Slots : Writes(q) => entitled[q]]_allVars

\* A form works in the login it was rendered for and in no other: a tab left
\* open by one administrator, or by an earlier login, writes nothing under the
\* cookie that the browser has by now.
FormsStayInTheirLogin ==
  [][\A q \in Slots : Writes(q) => call[q].form = call[q].cookie]_allVars

\* Which user is behind a request matters to nothing that AdminApi promises of
\* the tables: every step here is one of its steps, or leaves it as it is.
ImplementsAdminApi == Spec
=============================================================================
