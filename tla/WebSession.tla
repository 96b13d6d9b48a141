----------------------------- MODULE WebSession -----------------------------
(***************************************************************************)
(* The session of the web app: the tokens and the user that all tabs of a  *)
(* browser share in localStorage (api.ts), the snapshot of the user each   *)
(* tab renders (auth-store.ts), the pages that guard it, and the part of   *)
(* the auth service it talks to (rotation of refresh tokens, blacklist).   *)
(*                                                                         *)
(* JavaScript runs to the next await without interruption, so a call is    *)
(* cut exactly where it awaits fetch().  The service is cut where it       *)
(* awaits Redis.  Every request may also fail on the network, before or    *)
(* after the service has handled it.                                       *)
(***************************************************************************)
EXTENDS Naturals, Roles

CONSTANTS
    Account,       \* e-mail addresses, each the subject of its tokens
    Prefix,        \* Prefix[a]: what the address starts with
    RegisterRole,  \* the roles the registration form offers
    Tab,           \* tabs of one browser
    Call,          \* calls of the api module, each made once
    None,          \* nothing stored, no header
    AccessLife,    \* seconds an access token is valid
    MaxNow,        \* bound: the last second
    MaxReloads     \* bound: reloads of a tab

ASSUME SessionAssumption ==
    /\ None \notin Account
    /\ RegisterRole \subseteq UserRole
    /\ AccessLife \in Nat \ {0}
    /\ MaxNow \in Nat \ {0}
    /\ MaxReloads \in Nat

VARIABLES
    build,     \* what the bundle was built for
    now,       \* the clock of the service, in seconds
    store,     \* localStorage
    revoked,   \* the blacklist in Redis
    call,      \* the calls
    page,      \* the page each tab is on
    shown,     \* the user each tab renders
    told,      \* tabs that will re-read the user: a storage event, hydration
    reloads    \* reloads so far

vars == <<build, now, store, revoked, call, page, shown, told, reloads>>

-----------------------------------------------------------------------------
(* Types *)

\* A JWT is its claims: issued twice in one second for one subject, it is the
\* same string.  The refresh token of the mock does not name an account.
Jwt(a, t)        == [kind |-> "jwt", sub |-> a, at |-> t]
MockAccess(a)    == [kind |-> "mock", sub |-> a, at |-> 0]
MockRefresh      == [kind |-> "mock", sub |-> None, at |-> 0]

JwtToken == [kind : {"jwt"}, sub : Account, at : Nat]
Token    == JwtToken \cup [kind : {"mock"}, sub : Account \cup {None}, at : {0}]
User     == [id : Account, role : RawRole]

ASSUME NoneAssumption == None \notin Token \cup User

Store   == [access : Token \cup {None}, refresh : Token \cup {None},
            user : User \cup {None}]
Empty   == [access |-> None, refresh |-> None, user |-> None]

\* "post" is a call that puts getAuthHeaders() into its own options.
Kind == {"get", "post", "logout", "login", "register"}

PC == {"new",
       "sent", "answered",                                   \* authFetch
       "refresh_sent", "refresh_checked", "refresh_answered",
       "resent", "reanswered",
       "auth_sent", "auth_answered",                         \* login, register
       "done"}

\* own is the header in the call's options, header the one the request carries;
\* token is the refresh token sent; pair the moment the pair in the answer is of.
CallRecord ==
    [kind : Kind, pc : PC, tab : Tab \cup {None}, who : Account \cup {None},
     role : UserRole \cup {None}, own : Token \cup {None},
     header : Token \cup {None}, token : Token \cup {None},
     reply : {"none", "ok", "401", "failed"}, pair : JwtToken \cup {None}]

Unmade ==
    [kind |-> "get", pc |-> "new", tab |-> None, who |-> None, role |-> None,
     own |-> None, header |-> None, token |-> None, reply |-> "none",
     pair |-> None]

\* The demo deployment, a development build and a production build of a live one.
Build == {"static", "development", "production"}

Page == {"gate", "login", "app", "logout", "signed_out"}

\* A browser without a session, one with a session from before second 1, and one
\* that kept the legacy role of an earlier mock sign-in.
FirstStores(flavour) ==
    {Empty} \cup
    {[access |-> Jwt(a, 0), refresh |-> Jwt(a, 0), user |-> None] : a \in
        IF flavour = "static" THEN {} ELSE Account} \cup
    {[access |-> MockAccess(a), refresh |-> MockRefresh,
      user |-> [id |-> a, role |-> "ADMIN"]] : a \in
        IF flavour = "static" THEN Account ELSE {}}

Init ==
    /\ build \in Build
    /\ now = 1
    /\ store \in FirstStores(build)
    /\ revoked = {}
    /\ call = [c \in Call |-> Unmade]
    /\ page = [t \in Tab |-> "gate"]
    /\ shown = [t \in Tab |-> None]
    /\ told = Tab
    /\ reloads = 0

-----------------------------------------------------------------------------
(* localStorage and the snapshots of the user *)

MockWhenUnreachable == TRUE  \* Faulty: in every build.

MOCK_AUTH_ENABLED == build # "production"

isAuthenticated == store.access # None

\* Faulty: only the storage event, which the tab that writes never gets.
dispatchElsewhere(t, user) ==
    /\ told' = IF user = store.user THEN told \ {t} ELSE Tab \ {t}
    /\ UNCHANGED shown

\* dispatchAuthChange reaches the tab it is called in; a storage event reaches
\* the others, later, when the value has changed.
dispatchAuthChange(t, user) ==
    /\ shown' = [shown EXCEPT ![t] = user]
    /\ told' = IF user = store.user THEN told \ {t} ELSE Tab \ {t}

\* Faulty: the refresh token that is stored already stays.
setAccessToken(access, refresh) ==
    /\ store' = [store EXCEPT !.access = access,
                             !.refresh = IF @ = None THEN refresh ELSE @]
    /\ UNCHANGED <<shown, told>>

\* setTokens alone notifies nobody.
setTokens(access, refresh) ==
    /\ store' = [store EXCEPT !.access = access, !.refresh = refresh]
    /\ UNCHANGED <<shown, told>>

clearAuth(t) ==
    /\ store' = Empty
    /\ dispatchAuthChange(t, None)

applyMockAuth(t, a, role) ==
    LET user == [id |-> a, role |-> role]
    IN  /\ store' = [access |-> MockAccess(a), refresh |-> MockRefresh,
                     user |-> user]
        /\ dispatchAuthChange(t, user)

Keep == UNCHANGED <<store, shown, told>>

\* getSnapshot and the end of hydration: the tab renders what is stored now.
Reread(t) ==
    /\ t \in told
    /\ shown' = [shown EXCEPT ![t] = store.user]
    /\ told' = told \ {t}
    /\ UNCHANGED <<build, now, store, revoked, call, page, reloads>>

-----------------------------------------------------------------------------
(* authFetch *)

\* The header a request carries: the one in the options wins over the stored one.
HeaderOf(c) == IF call[c].own # None THEN call[c].own ELSE store.access

To(c, pc) == call' = [call EXCEPT ![c].pc = pc]

\* The function returns: its locals are gone; token and pair stay as history.
Return(c) ==
    call' = [call EXCEPT ![c] =
        [Unmade EXCEPT !.kind = call[c].kind, !.pc = "done",
                       !.token = call[c].token, !.pair = call[c].pair]]

\* A page calls the API: only with a live backend, and only once it is shown.
StartFetch(c, t, kind) ==
    /\ call[c].pc = "new"
    /\ build # "static"
    /\ page[t] = "app"
    /\ call' = [call EXCEPT ![c] =
           [Unmade EXCEPT !.kind = kind, !.tab = t, !.pc = "sent",
            !.own = IF kind = "post" THEN store.access ELSE None,
            !.header = store.access]]
    /\ UNCHANGED <<build, now, store, revoked, page, shown, told, reloads>>

\* What a call returns to is the page, or the rest of logout().
Finish(c) ==
    /\ Return(c)
    /\ IF call[c].kind = "logout"
       THEN clearAuth(call[c].tab) /\ page' = [page EXCEPT ![call[c].tab] = "signed_out"]
       ELSE Keep /\ UNCHANGED page

Resend(c) ==
    call' = [call EXCEPT ![c].pc = "resent", ![c].header = HeaderOf(c),
                         ![c].reply = "none"]

\* After the first answer: a 401 with a refresh token stored goes through
\* refreshAccessToken, which answers at once for a token of the mock.
AfterFetch(c) ==
    /\ call[c].pc = "answered" /\ call[c].tab # None
    /\ IF call[c].reply = "401" /\ store.refresh # None
       THEN /\ IF build = "static" \/ store.refresh.kind = "mock"
               THEN Resend(c)
               ELSE call' = [call EXCEPT ![c].pc = "refresh_sent",
                                         ![c].token = store.refresh,
                                         ![c].reply = "none"]
            /\ Keep /\ UNCHANGED page
       ELSE Finish(c)
    /\ UNCHANGED <<build, now, revoked, reloads>>

\* Faulty: only the access token of the new pair is stored.
AfterRefreshKeepsOld(c) ==
    /\ call[c].pc = "refresh_answered" /\ call[c].tab # None
    /\ IF call[c].reply = "ok"
       THEN LET p == call[c].pair IN
            /\ setTokens(p, store.refresh)
            /\ call' = [call EXCEPT
                   ![c].pc = "resent", ![c].reply = "none",
                   ![c].header = IF call[c].own # None THEN call[c].own ELSE p]
       ELSE clearAuth(call[c].tab) /\ Return(c)
    /\ UNCHANGED <<build, now, revoked, reloads, page>>

\* The answer to the refresh: the pair is stored and the request repeated; any
\* other outcome clears the session and the 401 is what the caller gets.
AfterRefresh(c) ==
    /\ call[c].pc = "refresh_answered" /\ call[c].tab # None
    /\ IF call[c].reply = "ok"
       THEN LET p == call[c].pair IN
            /\ setTokens(p, p)
            /\ call' = [call EXCEPT
                   ![c].pc = "resent", ![c].reply = "none",
                   ![c].header = IF call[c].own # None THEN call[c].own ELSE p]
            /\ UNCHANGED page
       ELSE /\ clearAuth(call[c].tab)
            /\ Return(c)
            /\ page' = IF call[c].kind = "logout"
                       THEN [page EXCEPT ![call[c].tab] = "signed_out"] ELSE page
    /\ UNCHANGED <<build, now, revoked, reloads>>

AfterResend(c) ==
    /\ call[c].pc = "reanswered" /\ call[c].tab # None
    /\ Finish(c)
    /\ UNCHANGED <<build, now, revoked, reloads>>

-----------------------------------------------------------------------------
(* login() and register() *)

\* Static data: the mock is the authentication layer.  Otherwise one request.
\* The submit button is disabled while the tab's own request is pending.
Submit(c, t, a, kind, role) ==
    /\ call[c].pc = "new"
    /\ page[t] = "login"
    /\ \A d \in Call : call[d].tab = t => call[d].pc \notin {"auth_sent", "auth_answered"}
    /\ IF build = "static"
       THEN /\ call' = [call EXCEPT ![c] = [Unmade EXCEPT !.kind = kind, !.pc = "done"]]
            /\ applyMockAuth(t, a, role)
            /\ page' = [page EXCEPT ![t] = "gate"]
       ELSE /\ call' = [call EXCEPT ![c] =
                   [Unmade EXCEPT !.kind = kind, !.tab = t, !.who = a,
                                  !.role = role, !.pc = "auth_sent"]]
            /\ Keep /\ UNCHANGED page
    /\ UNCHANGED <<build, now, revoked, reloads>>

SubmitLogin(c, t, a)       == Submit(c, t, a, "login", inferMockRole(Prefix[a]))
SubmitRegister(c, t, a, r) == Submit(c, t, a, "register", r)

\* Faulty: the user of the answer is stored without asking whether there is one.
AfterSubmitUndefined(c) ==
    LET t == call[c].tab IN
    /\ call[c].pc = "auth_answered" /\ t # None /\ call[c].reply = "ok"
    /\ Return(c)
    /\ store' = [access |-> call[c].pair, refresh |-> call[c].pair,
                 user |-> [id |-> None, role |-> ""]]
    /\ dispatchAuthChange(t, store'.user)
    /\ page' = [page EXCEPT ![t] = "gate"]
    /\ UNCHANGED <<build, now, revoked, reloads>>

\* The service answers without a user, so only the tokens are stored.  A failed
\* request falls back to the mock where that is enabled and the browser words the
\* failure the way isNetworkError expects; a refusal never does.
AfterSubmit(c) ==
    LET t == call[c].tab IN
    /\ call[c].pc = "auth_answered" /\ t # None
    /\ Return(c)
    /\ \/ /\ call[c].reply = "ok"
          /\ setTokens(call[c].pair, call[c].pair)
          /\ page' = [page EXCEPT ![t] = "gate"]
       \/ /\ call[c].reply = "failed" /\ MOCK_AUTH_ENABLED
          /\ applyMockAuth(t, call[c].who, call[c].role)
          /\ page' = [page EXCEPT ![t] = "gate"]
       \/ /\ call[c].reply \in {"401", "failed"}
          /\ Keep /\ UNCHANGED page
    /\ UNCHANGED <<build, now, revoked, reloads>>

-----------------------------------------------------------------------------
(* Pages *)

\* DashboardLayout decides once, when it is mounted.
Gate(t) ==
    /\ page[t] = "gate"
    /\ page' = [page EXCEPT ![t] = IF isAuthenticated THEN "app" ELSE "login"]
    /\ UNCHANGED <<build, now, store, revoked, call, shown, told, reloads>>

\* Another page of the app mounts a layout of its own.
Navigate(t) ==
    /\ page[t] = "app"
    /\ page' = [page EXCEPT ![t] = "gate"]
    /\ UNCHANGED <<build, now, store, revoked, call, shown, told, reloads>>

\* Sign Out: the page calls logout() when it is mounted.
SignOut(c, t) ==
    /\ call[c].pc = "new"
    /\ page[t] = "app"
    /\ page' = [page EXCEPT ![t] = "logout"]
    /\ call' = [call EXCEPT ![c] =
           [Unmade EXCEPT !.kind = "logout", !.tab = t, !.pc = "sent",
                          !.header = store.access]]
    /\ UNCHANGED <<build, now, store, revoked, shown, told, reloads>>

\* The timer of the logout page.
LeaveLogout(t) ==
    /\ page[t] = "signed_out"
    /\ page' = [page EXCEPT ![t] = "login"]
    /\ UNCHANGED <<build, now, store, revoked, call, shown, told, reloads>>

\* A reload starts from the snapshot of the server.  The calls of the tab lose
\* their client; the services still handle what was sent.  (On the logout page it
\* would only start another sign-out.)
Reload(t) ==
    /\ reloads < MaxReloads
    /\ page[t] \in {"gate", "login", "app"}
    /\ reloads' = reloads + 1
    /\ page' = [page EXCEPT ![t] = IF page[t] = "login" THEN "login" ELSE "gate"]
    /\ shown' = [shown EXCEPT ![t] = None]
    /\ told' = told \cup {t}
    /\ call' = [c \in Call |-> IF call[c].tab = t /\ call[c].pc # "done"
                               THEN [call[c] EXCEPT !.tab = None] ELSE call[c]]
    /\ UNCHANGED <<build, now, store, revoked>>

-----------------------------------------------------------------------------
(* The services *)

Valid(token) == token # None /\ token.kind = "jwt" /\ now < token.at + AccessLife

Answer(c, pc, reply) == call' = [call EXCEPT ![c].pc = pc, ![c].reply = reply]

\* The services answer 401 to a token they cannot verify; the logout endpoint only
\* asks that there is one.
Accepted(c) == IF call[c].kind = "logout" THEN call[c].header # None ELSE Valid(call[c].header)

\* A request of authFetch.  The logout endpoint puts what it was given on the
\* blacklist.
Serve(c) ==
    /\ call[c].pc \in {"sent", "resent"}
    /\ Answer(c, IF call[c].pc = "sent" THEN "answered" ELSE "reanswered",
              IF Accepted(c) THEN "ok" ELSE "401")
    /\ revoked' = IF call[c].kind = "logout" /\ Accepted(c)
                  THEN revoked \cup {<<"access", call[c].header>>} ELSE revoked
    /\ UNCHANGED <<build, now, store, page, shown, told, reloads>>

\* refresh: the blacklist is read; a token that is not on it may still be refused
\* (it expired, the user is gone or inactive) ...
RefreshCheck(c) ==
    /\ call[c].pc = "refresh_sent"
    /\ \/ <<"refresh", call[c].token>> \notin revoked /\ To(c, "refresh_checked")
       \/ Answer(c, "refresh_answered", "401")
    /\ UNCHANGED <<build, now, store, revoked, page, shown, told, reloads>>

\* ... and later written, and the new pair is issued.
RefreshRotate(c) ==
    /\ call[c].pc = "refresh_checked"
    /\ revoked' = revoked \cup {<<"refresh", call[c].token>>}
    /\ call' = [call EXCEPT ![c].pc = "refresh_answered", ![c].reply = "ok",
                            ![c].pair = Jwt(call[c].token.sub, now)]
    /\ UNCHANGED <<build, now, store, page, shown, told, reloads>>

\* login and register: accepted, or refused (password, second factor, lock,
\* address in use).
Authenticate(c) ==
    /\ call[c].pc = "auth_sent"
    /\ \/ call' = [call EXCEPT ![c].pc = "auth_answered", ![c].reply = "ok",
                               ![c].pair = Jwt(call[c].who, now)]
       \/ Answer(c, "auth_answered", "401")
    /\ UNCHANGED <<build, now, store, revoked, page, shown, told, reloads>>

\* No answer: the request is lost, or the answer of the service is.
NetworkFails(c) ==
    /\ \/ call[c].pc \in {"sent", "answered"} /\ Answer(c, "answered", "failed")
       \/ call[c].pc \in {"resent", "reanswered"} /\ Answer(c, "reanswered", "failed")
       \/ /\ call[c].pc \in {"refresh_sent", "refresh_checked", "refresh_answered"}
          /\ Answer(c, "refresh_answered", "failed")
       \/ call[c].pc \in {"auth_sent", "auth_answered"} /\ Answer(c, "auth_answered", "failed")
    /\ call[c].reply # "failed" /\ call[c].tab # None
    /\ UNCHANGED <<build, now, store, revoked, page, shown, told, reloads>>

Tick ==
    /\ now < MaxNow
    /\ now' = now + 1
    /\ UNCHANGED <<build, store, revoked, call, page, shown, told, reloads>>

-----------------------------------------------------------------------------

Client(c) == AfterFetch(c) \/ AfterRefresh(c) \/ AfterResend(c) \/ AfterSubmit(c)
Service(c) == Serve(c) \/ RefreshCheck(c) \/ RefreshRotate(c) \/ Authenticate(c)

Next ==
    \/ \E c \in Call : Client(c) \/ Service(c) \/ NetworkFails(c)
    \/ \E t \in Tab : Reread(t) \/ Gate(t) \/ Navigate(t) \/ LeaveLogout(t) \/ Reload(t)
    \/ \E c \in Call, t \in Tab :
          \/ \E kind \in {"get", "post"} : StartFetch(c, t, kind)
          \/ SignOut(c, t)
          \/ \E a \in Account : SubmitLogin(c, t, a)
          \/ \E a \in Account, r \in RegisterRole : SubmitRegister(c, t, a, r)
    \/ Tick

Spec == Init /\ [][Next]_vars

-----------------------------------------------------------------------------
(* Properties *)

TypeOK ==
    /\ build \in Build
    /\ now \in 1..MaxNow
    /\ store \in Store
    /\ revoked \subseteq {"access", "refresh"} \X Token
    /\ call \in [Call -> CallRecord]
    /\ page \in [Tab -> Page]
    /\ shown \in [Tab -> User \cup {None}]
    /\ told \subseteq Tab
    /\ reloads \in 0..MaxReloads

\* Whatever calls of whatever tabs overlap, the three entries of localStorage
\* belong together: both tokens or none, of one kind and one account, no user
\* without tokens, and a session of the mock names its own user (setTokens,
\* setUser and clearAuth, called from four asynchronous functions).
TokensBelongTogether ==
    /\ store.access = None <=> store.refresh = None
    /\ store.access = None => store.user = None
    /\ store.access # None =>
          /\ store.refresh.kind = store.access.kind
          /\ store.access.kind = "jwt" => store.refresh.sub = store.access.sub
          /\ store.access.kind = "mock" =>
                store.user # None /\ store.user.id = store.access.sub

\* A production build that talks to a live backend never grants a session that
\* the backend did not issue, not even when the network fails (MOCK_AUTH_ENABLED,
\* api.ts:10-12).
ProductionHasNoMock ==
    build = "production" /\ store.access # None =>
        store.access.kind = "jwt"

\* What localStorage holds is one whole session of a kind the build allows.
SessionIsWhole == TokensBelongTogether /\ ProductionHasNoMock

\* A session whose refresh token is on the blacklist has lost it for a reason:
\* the replacement is on its way to a client, or the tab that asked for it was
\* reloaded; or the replacement is the same string, because the service issued
\* both in one second; or two calls were given the same string, and the answer to
\* one came after the other's had been replaced.  It is about a revoked token that
\* stays in localStorage: the loser of two refreshes with one token clears the session
\* (api.ts:409), which this does not forbid.
DeadSessionHasCause ==
    <<"refresh", store.refresh>> \in revoked =>
        \/ \E c \in Call :
              /\ call[c].token = store.refresh /\ call[c].pair # None
              /\ call[c].pc = "refresh_answered" \/ call[c].pair = store.refresh
        \/ \E c, d \in Call :
              c # d /\ call[c].pair = store.refresh /\ call[d].pair = store.refresh

\* A tab renders the user that is stored or is about to read it again, whichever
\* tab changed it and although setTokens notifies nobody (auth-store.ts).
SnapshotIsCurrent == \A t \in Tab : shown[t] = store.user \/ t \in told

\* "On 401, attempt a single refresh + retry" (api.ts:203): the retry carries the
\* access token the refresh has stored.
RetryCarriesFreshToken ==
    [][\A c \in Call : call[c].pc = "refresh_answered" /\ call'[c].pc = "resent" =>
           call'[c].header = store'.access]_vars
=============================================================================
