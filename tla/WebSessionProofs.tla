--------------------------- MODULE WebSessionProofs ---------------------------
(***************************************************************************)
(* Proofs about WebSession for every set of accounts, tabs and calls, any  *)
(* clock and any number of reloads.                                        *)
(***************************************************************************)
EXTENDS WebSession, TLAPS

-----------------------------------------------------------------------------
(* The invariant, by the variables its parts are about *)

\* localStorage holds one whole session of a kind the build allows.
Stored == build \in Build /\ store \in Store /\ SessionIsWhole

\* Every tab renders the stored user or will read it again.
Seen ==
    /\ shown \in [Tab -> User \cup {None}]
    /\ told \subseteq Tab
    /\ SnapshotIsCurrent

\* The steps that use a token, a pair or an account have one.
Whole(r) ==
    /\ r.pc \in {"refresh_sent", "refresh_checked"} => r.token \in JwtToken
    /\ r.pc \in {"refresh_answered", "auth_answered"} /\ r.reply = "ok" =>
          r.pair \in JwtToken
    /\ r.pc \in {"auth_sent", "auth_answered"} => r.who \in Account /\ r.role \in UserRole

Calls == call \in [Call -> CallRecord] /\ \A c \in Call : Whole(call[c])

Rest ==
    /\ now \in 1..MaxNow
    /\ revoked \subseteq {"access", "refresh"} \X Token
    /\ page \in [Tab -> Page]
    /\ reloads \in 0..MaxReloads

Inv == Stored /\ Seen /\ Calls /\ Rest

-----------------------------------------------------------------------------
(* Data *)

\* What a mock sign-in takes from an address is a role.
LEMMA InferredIsRole == \A p : inferMockRole(p) \in UserRole
  BY DEF inferMockRole, UserRole

\* A call that was not made yet.
LEMMA UnmadeIsCall == Unmade \in CallRecord /\ Whole(Unmade)
  BY DEF Unmade, CallRecord, Kind, PC, Whole

\* A step that replaces one call by a whole one.
LEMMA CallsStep ==
    ASSUME Calls, NEW c \in Call, NEW r \in CallRecord, Whole(r),
           call' = [call EXCEPT ![c] = r]
    PROVE  Calls'
  BY DEF Calls

-----------------------------------------------------------------------------
(* localStorage and the snapshots *)

LEMMA KeepKeeps ==
    ASSUME Stored, Seen, build' = build, Keep
    PROVE  Stored' /\ Seen'
  BY DEF Stored, Seen, Keep, SessionIsWhole, TokensBelongTogether,
         ProductionHasNoMock, SnapshotIsCurrent

\* The tab that writes shows the new user, the others will be told of a change.
LEMMA DispatchTells ==
    ASSUME Seen, NEW t \in Tab, NEW u \in User \cup {None},
           store'.user = u, dispatchAuthChange(t, u)
    PROVE  Seen'
<1>1. shown' \in [Tab -> User \cup {None}] /\ told' \subseteq Tab
  BY DEF Seen, dispatchAuthChange
<1>2. ASSUME NEW s \in Tab PROVE shown'[s] = store'.user \/ s \in told'
  <2>1. CASE s = t
    BY <2>1 DEF Seen, dispatchAuthChange
  <2>2. CASE s # t
    BY <2>2 DEF Seen, SnapshotIsCurrent, dispatchAuthChange
  <2>3. QED
    BY <2>1, <2>2
<1>3. QED
  BY <1>1, <1>2 DEF Seen, SnapshotIsCurrent

LEMMA ClearKeeps ==
    ASSUME Stored, Seen, build' = build, NEW t \in Tab, clearAuth(t)
    PROVE  Stored' /\ Seen'
<1>1. store' = Empty /\ dispatchAuthChange(t, None)
  BY DEF clearAuth
<1>2. Stored'
  BY <1>1, NoneAssumption
     DEF Stored, Store, Empty, SessionIsWhole, TokensBelongTogether, ProductionHasNoMock
<1>3. Seen'
  BY <1>1, DispatchTells DEF Empty
<1>4. QED
  BY <1>2, <1>3

LEMMA SetTokensKeeps ==
    ASSUME Stored, Seen, build' = build, NEW p \in JwtToken, setTokens(p, p)
    PROVE  Stored' /\ Seen'
<1>1. /\ store' = [store EXCEPT !.access = p, !.refresh = p]
      /\ shown' = shown /\ told' = told
  BY DEF setTokens
<1>2. p \in Token /\ p # None /\ p.kind = "jwt"
  BY NoneAssumption DEF Token, JwtToken
<1>3. store' \in Store /\ store'.access = p /\ store'.refresh = p
      /\ store'.user = store.user
  BY <1>1, <1>2 DEF Stored, Store
<1>4. SessionIsWhole'
  BY <1>2, <1>3 DEF SessionIsWhole, TokensBelongTogether, ProductionHasNoMock
<1>5. QED
  BY <1>1, <1>3, <1>4 DEF Stored, Seen, SnapshotIsCurrent

LEMMA MockKeeps ==
    ASSUME Stored, Seen, build' = build, build # "production", NEW t \in Tab,
           NEW a \in Account, NEW role \in UserRole, applyMockAuth(t, a, role)
    PROVE  Stored' /\ Seen'
<1> DEFINE u == [id |-> a, role |-> role]
<1>1. /\ store' = [access |-> MockAccess(a), refresh |-> MockRefresh, user |-> u]
      /\ dispatchAuthChange(t, u)
  BY DEF applyMockAuth
<1>2. u \in User /\ u # None
  <2>1. u \in User
    BY DEF User, RawRole
  <2>2. QED
    BY <2>1, NoneAssumption
<1>3. /\ MockAccess(a) \in Token /\ MockRefresh \in Token
      /\ MockAccess(a) # None /\ MockRefresh # None
      /\ MockAccess(a).kind = "mock" /\ MockRefresh.kind = "mock"
      /\ MockAccess(a).sub = a
  BY NoneAssumption DEF Token, MockAccess, MockRefresh
<1>4. Stored'
  BY <1>1, <1>2, <1>3
     DEF Stored, Store, SessionIsWhole, TokensBelongTogether, ProductionHasNoMock
<1>5. Seen'
  BY <1>1, <1>2, DispatchTells
<1>6. QED
  BY <1>4, <1>5

-----------------------------------------------------------------------------
(* Calls *)

LEMMA ReturnKeeps ==
    ASSUME Calls, NEW c \in Call, Return(c)
    PROVE  Calls'
<1> DEFINE r == [Unmade EXCEPT !.kind = call[c].kind, !.pc = "done",
                               !.token = call[c].token, !.pair = call[c].pair]
<1>1. call[c] \in CallRecord
  BY DEF Calls
<1>2. r \in CallRecord
  BY <1>1 DEF Unmade, CallRecord, PC
<1>3. r.pc = "done"
  BY DEF Unmade
<1>4. Whole(r)
  BY <1>3 DEF Whole
<1>5. QED
  BY <1>2, <1>4, CallsStep DEF Return

LEMMA FinishKeeps ==
    ASSUME Inv, build' = build, NEW c \in Call, call[c].tab # None, Finish(c)
    PROVE  Stored' /\ Seen' /\ Calls' /\ page' \in [Tab -> Page]
<1>1. call[c].tab \in Tab
  BY DEF Inv, Calls, CallRecord
<1>2. Calls'
  BY ReturnKeeps DEF Inv, Finish
<1>3. CASE call[c].kind = "logout"
  <2>1. clearAuth(call[c].tab) /\ page' = [page EXCEPT ![call[c].tab] = "signed_out"]
    BY <1>3 DEF Finish
  <2>2. Stored' /\ Seen'
    BY <1>1, <2>1, ClearKeeps DEF Inv
  <2>3. QED
    BY <1>2, <2>1, <2>2 DEF Inv, Rest, Page
<1>4. CASE call[c].kind # "logout"
  <2>1. Keep /\ page' = page
    BY <1>4 DEF Finish
  <2>2. QED
    BY <1>2, <2>1, KeepKeeps DEF Inv, Rest
<1>5. QED
  BY <1>3, <1>4

-----------------------------------------------------------------------------
(* The client: one lemma per function that goes on after an answer *)

LEMMA AfterFetchKeeps ==
    ASSUME Inv, NEW c \in Call, AfterFetch(c)
    PROVE  Inv'
<1>1. call[c] \in CallRecord /\ Whole(call[c]) /\ store \in Store
  BY DEF Inv, Calls, Stored
<1>2. UNCHANGED <<build, now, revoked, reloads>>
  BY DEF AfterFetch
<1>3. CASE call[c].reply = "401" /\ store.refresh # None
  <2>1. Keep /\ page' = page
    BY <1>3 DEF AfterFetch
  <2>2. ASSUME build = "static" \/ store.refresh.kind = "mock" PROVE Calls'
    <3> DEFINE r == [call[c] EXCEPT !.pc = "resent", !.header = HeaderOf(c),
                                    !.reply = "none"]
    <3>1. call' = [call EXCEPT ![c] = r]
      BY <1>3, <2>2 DEF AfterFetch, Resend
    <3>2. HeaderOf(c) \in Token \cup {None}
      BY <1>1 DEF HeaderOf, CallRecord, Store
    <3>3. r \in CallRecord
      BY <1>1, <3>2 DEF CallRecord, PC
    <3>4. Whole(r)
      BY <1>1 DEF Whole, CallRecord
    <3>5. QED
      BY <3>1, <3>3, <3>4, CallsStep DEF Inv
  <2>3. ASSUME ~(build = "static" \/ store.refresh.kind = "mock") PROVE Calls'
    <3> DEFINE r == [call[c] EXCEPT !.pc = "refresh_sent", !.token = store.refresh,
                                    !.reply = "none"]
    <3>1. call' = [call EXCEPT ![c] = r]
      BY <1>3, <2>3 DEF AfterFetch
    <3>2. store.refresh \in JwtToken
      BY <1>1, <1>3, <2>3 DEF Store, Token
    <3>3. r \in CallRecord
      <4>1. PICK t \in Token : t = store.refresh
        BY <3>2 DEF Token
      <4>2. r = [call[c] EXCEPT !.pc = "refresh_sent", !.token = t, !.reply = "none"]
        BY <4>1
      <4>3. "refresh_sent" \in PC
        BY DEF PC
      <4>4. QED
        BY <1>1, <4>2, <4>3 DEF CallRecord
    <3>4. Whole(r)
      BY <1>1, <3>2 DEF Whole, CallRecord
    <3>5. QED
      BY <3>1, <3>3, <3>4, CallsStep DEF Inv
  <2>4. Calls'
    BY <2>2, <2>3
  <2>5. QED
    BY <1>2, <2>1, <2>4, KeepKeeps DEF Inv, Rest
<1>4. CASE ~(call[c].reply = "401" /\ store.refresh # None)
  <2>1. Finish(c) /\ call[c].tab # None
    BY <1>4 DEF AfterFetch
  <2>2. QED
    BY <1>2, <2>1, FinishKeeps DEF Inv, Rest
<1>5. QED
  BY <1>3, <1>4

LEMMA AfterRefreshKeeps ==
    ASSUME Inv, NEW c \in Call, AfterRefresh(c)
    PROVE  Inv'
<1>1. /\ call[c] \in CallRecord /\ Whole(call[c])
      /\ call[c].pc = "refresh_answered" /\ call[c].tab \in Tab
      /\ UNCHANGED <<build, now, revoked, reloads>>
  BY DEF Inv, Calls, AfterRefresh, CallRecord
<1>2. CASE call[c].reply = "ok"
  <2> DEFINE p == call[c].pair
             r == [call[c] EXCEPT !.pc = "resent", !.reply = "none",
                      !.header = IF call[c].own # None THEN call[c].own ELSE p]
  <2>1. p \in JwtToken
    BY <1>1, <1>2 DEF Whole
  <2>2. setTokens(p, p) /\ call' = [call EXCEPT ![c] = r] /\ page' = page
    BY <1>2 DEF AfterRefresh
  <2>3. Stored' /\ Seen'
    BY <1>1, <2>1, <2>2, SetTokensKeeps DEF Inv
  <2>4. r \in CallRecord
    <3> DEFINE h == IF call[c].own # None THEN call[c].own ELSE p
    <3>1. call[c].own \in Token \cup {None}
      BY <1>1 DEF CallRecord
    <3>2. p \in Token
      BY <2>1 DEF Token
    <3>3. h \in Token \cup {None}
      BY <3>1, <3>2
    <3> HIDE DEF h
    <3>4. [call[c] EXCEPT !.pc = "resent", !.reply = "none", !.header = h] \in CallRecord
      BY <1>1, <3>3 DEF CallRecord, PC
    <3>5. QED
      BY <3>4 DEF h
  <2>5. r.pc = "resent"
    BY <1>1 DEF CallRecord
  <2>6. Whole(r)
    BY <2>5 DEF Whole
  <2>7. Calls'
    BY <2>2, <2>4, <2>6, CallsStep DEF Inv
  <2>8. QED
    BY <1>1, <2>2, <2>3, <2>7 DEF Inv, Rest
<1>3. CASE call[c].reply # "ok"
  <2>1. clearAuth(call[c].tab) /\ Return(c)
    BY <1>3 DEF AfterRefresh
  <2>2. page' \in [Tab -> Page]
    BY <1>1, <1>3 DEF AfterRefresh, Inv, Rest, Page
  <2>3. Stored' /\ Seen'
    BY <1>1, <2>1, ClearKeeps DEF Inv
  <2>4. Calls'
    BY <2>1, ReturnKeeps DEF Inv
  <2>5. QED
    BY <1>1, <2>2, <2>3, <2>4 DEF Inv, Rest
<1>4. QED
  BY <1>2, <1>3

LEMMA AfterResendKeeps ==
    ASSUME Inv, NEW c \in Call, AfterResend(c)
    PROVE  Inv'
<1>1. /\ call[c].tab # None /\ Finish(c)
      /\ UNCHANGED <<build, now, revoked, reloads>>
  BY DEF AfterResend
<1>2. QED
  BY <1>1, FinishKeeps DEF Inv, Rest

LEMMA AfterSubmitKeeps ==
    ASSUME Inv, NEW c \in Call, AfterSubmit(c)
    PROVE  Inv'
<1>1. /\ call[c] \in CallRecord /\ Whole(call[c])
      /\ call[c].pc = "auth_answered" /\ call[c].tab \in Tab
      /\ UNCHANGED <<build, now, revoked, reloads>> /\ Return(c)
  BY DEF Inv, Calls, AfterSubmit, CallRecord
<1>2. Calls'
  BY <1>1, ReturnKeeps DEF Inv
<1>3. page' \in [Tab -> Page]
  BY <1>1 DEF AfterSubmit, Inv, Rest, Page
<1>4. Stored' /\ Seen'
  <2>1. CASE call[c].reply = "ok" /\ setTokens(call[c].pair, call[c].pair)
    <3>1. call[c].pair \in JwtToken
      BY <1>1, <2>1 DEF Whole
    <3>2. QED
      BY <1>1, <2>1, <3>1, SetTokensKeeps DEF Inv
  <2>2. CASE MOCK_AUTH_ENABLED /\ applyMockAuth(call[c].tab, call[c].who, call[c].role)
    <3>1. build # "production" /\ call[c].who \in Account /\ call[c].role \in UserRole
      BY <1>1, <2>2 DEF MOCK_AUTH_ENABLED, Whole
    <3>2. QED
      BY <1>1, <2>2, <3>1, MockKeeps DEF Inv
  <2>3. CASE Keep
    BY <1>1, <2>3, KeepKeeps DEF Inv
  <2>4. QED
    BY <2>1, <2>2, <2>3 DEF AfterSubmit
<1>5. QED
  BY <1>1, <1>2, <1>3, <1>4 DEF Inv, Rest

-----------------------------------------------------------------------------
(* The pages *)

LEMMA StartFetchKeeps ==
    ASSUME Inv, NEW c \in Call, NEW t \in Tab, NEW kind \in {"get", "post"},
           StartFetch(c, t, kind)
    PROVE  Inv'
<1> DEFINE r == [Unmade EXCEPT !.kind = kind, !.tab = t, !.pc = "sent",
                     !.own = IF kind = "post" THEN store.access ELSE None,
                     !.header = store.access]
<1>1. call' = [call EXCEPT ![c] = r]
  BY DEF StartFetch
<1>2. store.access \in Token \cup {None}
  BY DEF Inv, Stored, Store
<1>3. r \in CallRecord
  BY <1>2 DEF Unmade, CallRecord, Kind, PC
<1>4. Whole(r)
  BY DEF Whole, Unmade
<1>5. Calls'
  BY <1>1, <1>3, <1>4, CallsStep DEF Inv
<1>6. Keep /\ UNCHANGED <<build, now, revoked, page, reloads>>
  BY DEF StartFetch, Keep
<1>7. QED
  BY <1>5, <1>6, KeepKeeps DEF Inv, Rest

LEMMA SignOutKeeps ==
    ASSUME Inv, NEW c \in Call, NEW t \in Tab, SignOut(c, t)
    PROVE  Inv'
<1> DEFINE r == [Unmade EXCEPT !.kind = "logout", !.tab = t, !.pc = "sent",
                               !.header = store.access]
<1>1. call' = [call EXCEPT ![c] = r] /\ page' = [page EXCEPT ![t] = "logout"]
  BY DEF SignOut
<1>2. store.access \in Token \cup {None}
  BY DEF Inv, Stored, Store
<1>3. r \in CallRecord
  BY <1>2 DEF Unmade, CallRecord, Kind, PC
<1>4. Whole(r)
  BY DEF Whole, Unmade
<1>5. Calls'
  BY <1>1, <1>3, <1>4, CallsStep DEF Inv
<1>6. Keep /\ UNCHANGED <<build, now, revoked, reloads>>
  BY DEF SignOut, Keep
<1>7. page' \in [Tab -> Page]
  BY <1>1 DEF Inv, Rest, Page
<1>8. QED
  BY <1>5, <1>6, <1>7, KeepKeeps DEF Inv, Rest

LEMMA SubmitKeeps ==
    ASSUME Inv, NEW c \in Call, NEW t \in Tab, NEW a \in Account,
           NEW kind \in {"login", "register"}, NEW role \in UserRole,
           Submit(c, t, a, kind, role)
    PROVE  Inv'
<1>1. UNCHANGED <<build, now, revoked, reloads>>
  BY DEF Submit
<1>2. CASE build = "static"
  <2> DEFINE r == [Unmade EXCEPT !.kind = kind, !.pc = "done"]
  <2>1. /\ call' = [call EXCEPT ![c] = r]
        /\ applyMockAuth(t, a, role)
        /\ page' = [page EXCEPT ![t] = "gate"]
    BY <1>2 DEF Submit
  <2>2. r \in CallRecord
    BY DEF Unmade, CallRecord, Kind, PC
  <2>3. Whole(r)
    BY DEF Whole, Unmade
  <2>4. Calls'
    BY <2>1, <2>2, <2>3, CallsStep DEF Inv
  <2>5. Stored' /\ Seen'
    BY <1>1, <1>2, <2>1, MockKeeps DEF Inv
  <2>6. page' \in [Tab -> Page]
    BY <2>1 DEF Inv, Rest, Page
  <2>7. QED
    BY <1>1, <2>4, <2>5, <2>6 DEF Inv, Rest
<1>3. CASE build # "static"
  <2> DEFINE r == [Unmade EXCEPT !.kind = kind, !.tab = t, !.who = a, !.role = role,
                                 !.pc = "auth_sent"]
  <2>1. call' = [call EXCEPT ![c] = r] /\ Keep /\ page' = page
    BY <1>3 DEF Submit
  <2>2. r \in CallRecord
    BY DEF Unmade, CallRecord, Kind, PC
  <2>3. Whole(r)
    BY DEF Whole, Unmade
  <2>4. Calls'
    BY <2>1, <2>2, <2>3, CallsStep DEF Inv
  <2>5. QED
    BY <1>1, <2>1, <2>4, KeepKeeps DEF Inv, Rest
<1>4. QED
  BY <1>2, <1>3

\* A reload forgets what the tab rendered and will read it again.
LEMMA ReloadKeeps ==
    ASSUME Inv, NEW t \in Tab, Reload(t)
    PROVE  Inv'
<1>1. UNCHANGED <<build, now, store, revoked>>
  BY DEF Reload
<1>2. Stored'
  BY <1>1 DEF Inv, Stored, SessionIsWhole, TokensBelongTogether, ProductionHasNoMock
<1>3. Seen'
  BY <1>1 DEF Inv, Seen, SnapshotIsCurrent, Reload
<1>4. Calls'
  <2> DEFINE r(c) == IF call[c].tab = t /\ call[c].pc # "done"
                     THEN [call[c] EXCEPT !.tab = None] ELSE call[c]
  <2>1. call' = [c \in Call |-> r(c)]
    BY DEF Reload
  <2>2. ASSUME NEW c \in Call PROVE r(c) \in CallRecord /\ Whole(r(c))
    <3>1. call[c] \in CallRecord /\ Whole(call[c])
      BY DEF Inv, Calls
    <3>2. r(c) \in CallRecord
      BY <3>1 DEF CallRecord
    <3>3. Whole(r(c))
      BY <3>1 DEF Whole, CallRecord
    <3>4. QED
      BY <3>2, <3>3
  <2> HIDE DEF r
  <2>3. QED
    BY <2>1, <2>2 DEF Calls
<1>5. Rest'
  BY <1>1, SessionAssumption DEF Inv, Rest, Reload, Page
<1>6. QED
  BY <1>2, <1>3, <1>4, <1>5 DEF Inv

\* The other steps of a tab change only the page or what is rendered.
LEMMA PageKeeps ==
    ASSUME Inv, NEW t \in Tab, Reread(t) \/ Gate(t) \/ Navigate(t) \/ LeaveLogout(t)
    PROVE  Inv'
<1>1. UNCHANGED <<build, now, store, revoked, call, reloads>>
  BY DEF Reread, Gate, Navigate, LeaveLogout
<1>2. Stored' /\ Calls'
  BY <1>1 DEF Inv, Stored, SessionIsWhole, TokensBelongTogether, ProductionHasNoMock, Calls
<1>3. page' \in [Tab -> Page]
  BY DEF Inv, Rest, Page, Reread, Gate, Navigate, LeaveLogout
<1>4. Seen'
  <2>1. CASE Reread(t)
    <3>1. store.user \in User \cup {None}
      BY DEF Inv, Stored, Store
    <3>2. QED
      BY <1>1, <2>1, <3>1 DEF Inv, Seen, SnapshotIsCurrent, Reread
  <2>2. CASE ~Reread(t)
    BY <1>1, <2>2 DEF Inv, Seen, SnapshotIsCurrent, Gate, Navigate, LeaveLogout
  <2>3. QED
    BY <2>1, <2>2
<1>5. QED
  BY <1>1, <1>2, <1>3, <1>4 DEF Inv, Rest

-----------------------------------------------------------------------------
(* The services and the network *)

\* A step that changes one call and the blacklist, and nothing a tab can see.
LEMMA ServiceStep ==
    ASSUME Inv, UNCHANGED <<build, now, store, page, shown, told, reloads>>,
           Calls', revoked' \subseteq {"access", "refresh"} \X Token
    PROVE  Inv'
<1>1. Keep /\ build' = build
  BY DEF Keep
<1>2. QED
  BY <1>1, KeepKeeps DEF Inv, Rest

\* An answer keeps the calls whole where an accepted one comes with its pair.
LEMMA AnswerKeeps ==
    ASSUME Calls, NEW c \in Call, NEW pc \in PC,
           NEW reply \in {"none", "ok", "401", "failed"},
           pc \in {"answered", "reanswered", "refresh_answered", "auth_answered"},
           pc \in {"refresh_answered", "auth_answered"} => reply # "ok",
           pc = "auth_answered" => call[c].pc \in {"auth_sent", "auth_answered"},
           Answer(c, pc, reply)
    PROVE  Calls'
<1> DEFINE r == [call[c] EXCEPT !.pc = pc, !.reply = reply]
<1>1. call' = [call EXCEPT ![c] = r]
  BY DEF Answer
<1>2. call[c] \in CallRecord /\ Whole(call[c])
  BY DEF Calls
<1>3. r \in CallRecord
  BY <1>2 DEF CallRecord
<1>4. Whole(r)
  BY <1>2 DEF Whole, CallRecord
<1>5. QED
  BY <1>1, <1>3, <1>4, CallsStep

LEMMA ServeKeeps ==
    ASSUME Inv, NEW c \in Call, Serve(c)
    PROVE  Inv'
<1>1. Calls'
  BY AnswerKeeps DEF Serve, Inv, PC
<1>2. call[c].header \in Token \cup {None}
  BY DEF Inv, Calls, CallRecord
<1>3. revoked' \subseteq {"access", "refresh"} \X Token
  BY <1>2 DEF Serve, Accepted, Inv, Rest
<1>4. QED
  BY <1>1, <1>3, ServiceStep DEF Serve

LEMMA RefreshCheckKeeps ==
    ASSUME Inv, NEW c \in Call, RefreshCheck(c)
    PROVE  Inv'
<1>1. revoked' = revoked /\ UNCHANGED <<build, now, store, page, shown, told, reloads>>
  BY DEF RefreshCheck
<1>2. CASE To(c, "refresh_checked")
  <2> DEFINE r == [call[c] EXCEPT !.pc = "refresh_checked"]
  <2>1. call[c] \in CallRecord /\ Whole(call[c]) /\ call[c].pc = "refresh_sent"
    BY DEF Inv, Calls, RefreshCheck
  <2>2. r \in CallRecord
    BY <2>1 DEF CallRecord, PC
  <2>3. Whole(r)
    BY <2>1 DEF Whole, CallRecord
  <2>4. Calls'
    BY <1>2, <2>2, <2>3, CallsStep DEF Inv, To
  <2>5. QED
    BY <1>1, <2>4, ServiceStep DEF Inv, Rest
<1>3. CASE Answer(c, "refresh_answered", "401")
  <2>1. Calls'
    BY <1>3, AnswerKeeps DEF Inv, PC
  <2>2. QED
    BY <1>1, <2>1, ServiceStep DEF Inv, Rest
<1>4. QED
  BY <1>2, <1>3 DEF RefreshCheck

LEMMA RefreshRotateKeeps ==
    ASSUME Inv, NEW c \in Call, RefreshRotate(c)
    PROVE  Inv'
<1> DEFINE p == Jwt(call[c].token.sub, now)
           r == [call[c] EXCEPT !.pc = "refresh_answered", !.reply = "ok", !.pair = p]
<1>1. call[c] \in CallRecord /\ call[c].token \in JwtToken /\ now \in Nat
  BY SessionAssumption DEF Inv, Calls, Whole, RefreshRotate, Rest
<1>2. p \in JwtToken
  BY <1>1 DEF JwtToken, Jwt
<1>3. r \in CallRecord
  BY <1>1, <1>2 DEF CallRecord, PC
<1>4. Whole(r)
  BY <1>1, <1>2 DEF Whole, CallRecord
<1>5. call' = [call EXCEPT ![c] = r]
  BY DEF RefreshRotate
<1>6. Calls'
  BY <1>3, <1>4, <1>5, CallsStep DEF Inv
<1>7. revoked' \subseteq {"access", "refresh"} \X Token
  BY <1>1 DEF RefreshRotate, Inv, Rest, Token
<1>8. QED
  BY <1>6, <1>7, ServiceStep DEF RefreshRotate

LEMMA AuthenticateKeeps ==
    ASSUME Inv, NEW c \in Call, Authenticate(c)
    PROVE  Inv'
<1>1. /\ call[c] \in CallRecord /\ Whole(call[c]) /\ call[c].pc = "auth_sent"
      /\ revoked' = revoked /\ UNCHANGED <<build, now, store, page, shown, told, reloads>>
  BY DEF Inv, Calls, Authenticate
<1>2. ASSUME call' = [call EXCEPT ![c].pc = "auth_answered", ![c].reply = "ok",
                                  ![c].pair = Jwt(call[c].who, now)]
      PROVE  Calls'
  <2> DEFINE p == Jwt(call[c].who, now)
             r == [call[c] EXCEPT !.pc = "auth_answered", !.reply = "ok", !.pair = p]
  <2>1. p \in JwtToken
    BY <1>1, SessionAssumption DEF Inv, Rest, Whole, JwtToken, Jwt
  <2>2. r \in CallRecord
    BY <1>1, <2>1 DEF CallRecord, PC
  <2>3. Whole(r)
    BY <1>1, <2>1 DEF Whole, CallRecord
  <2>4. QED
    BY <1>2, <2>2, <2>3, CallsStep DEF Inv
<1>3. ASSUME Answer(c, "auth_answered", "401") PROVE Calls'
  BY <1>1, <1>3, AnswerKeeps DEF Inv, PC
<1>4. Calls'
  BY <1>2, <1>3 DEF Authenticate
<1>5. QED
  BY <1>1, <1>4, ServiceStep DEF Inv, Rest

LEMMA NetworkFailsKeeps ==
    ASSUME Inv, NEW c \in Call, NetworkFails(c)
    PROVE  Inv'
<1>1. revoked' = revoked /\ UNCHANGED <<build, now, store, page, shown, told, reloads>>
  BY DEF NetworkFails
<1>2. Calls'
  BY AnswerKeeps DEF NetworkFails, Inv, PC
<1>3. QED
  BY <1>1, <1>2, ServiceStep DEF Inv, Rest

-----------------------------------------------------------------------------
(* The invariant *)

LEMMA InitInv == Init => Inv
<1> SUFFICES ASSUME Init PROVE Inv
  OBVIOUS
<1>1. Stored
  <2>1. /\ \A a \in Account : Jwt(a, 0) \in Token /\ MockAccess(a) \in Token
        /\ MockRefresh \in Token
    BY DEF Jwt, MockAccess, MockRefresh, Token, JwtToken
  <2>2. \A a \in Account : [id |-> a, role |-> "ADMIN"] \in User
    BY DEF User, RawRole
  <2>3. store \in Store
    <3>1. Empty \in Store
      BY DEF Empty, Store
    <3>2. \A a \in Account :
            [access |-> Jwt(a, 0), refresh |-> Jwt(a, 0), user |-> None] \in Store
      BY <2>1 DEF Store
    <3>3. \A a \in Account :
            [access |-> MockAccess(a), refresh |-> MockRefresh,
             user |-> [id |-> a, role |-> "ADMIN"]] \in Store
      BY <2>1, <2>2 DEF Store
    <3>4. QED
      BY <3>1, <3>2, <3>3 DEF Init, FirstStores
  <2>4. SessionIsWhole
    <3>1. \A a \in Account : Jwt(a, 0) # None /\ MockAccess(a) # None /\ MockRefresh # None
      BY <2>1, NoneAssumption
    <3>2. CASE store = Empty
      BY <3>2 DEF Empty, SessionIsWhole, TokensBelongTogether, ProductionHasNoMock
    <3>3. ASSUME NEW a \in Account,
                 store = [access |-> Jwt(a, 0), refresh |-> Jwt(a, 0), user |-> None]
          PROVE  SessionIsWhole
      BY <3>1, <3>3 DEF Jwt, SessionIsWhole, TokensBelongTogether, ProductionHasNoMock
    <3>4. ASSUME NEW a \in Account, build = "static",
                 store = [access |-> MockAccess(a), refresh |-> MockRefresh,
                          user |-> [id |-> a, role |-> "ADMIN"]]
          PROVE  SessionIsWhole
      <4>1. [id |-> a, role |-> "ADMIN"] # None
        BY <2>2, NoneAssumption
      <4>2. QED
        BY <3>1, <3>4, <4>1
           DEF MockAccess, MockRefresh, SessionIsWhole, TokensBelongTogether,
               ProductionHasNoMock
    <3>5. QED
      BY <3>2, <3>3, <3>4 DEF Init, FirstStores
  <2>5. QED
    BY <2>3, <2>4 DEF Stored, Init
<1>2. Seen
  BY DEF Init, Seen, SnapshotIsCurrent
<1>3. Calls
  BY UnmadeIsCall DEF Init, Calls
<1>4. Rest
  BY SessionAssumption DEF Init, Rest, Page
<1>5. QED
  BY <1>1, <1>2, <1>3, <1>4 DEF Inv

LEMMA NextInv == Inv /\ [Next]_vars => Inv'
<1> SUFFICES ASSUME Inv, [Next]_vars PROVE Inv'
  OBVIOUS
<1>1. ASSUME NEW c \in Call, Client(c) PROVE Inv'
  BY <1>1, AfterFetchKeeps, AfterRefreshKeeps, AfterResendKeeps, AfterSubmitKeeps DEF Client
<1>2. ASSUME NEW c \in Call, Service(c) \/ NetworkFails(c) PROVE Inv'
  BY <1>2, ServeKeeps, RefreshCheckKeeps, RefreshRotateKeeps, AuthenticateKeeps,
     NetworkFailsKeeps DEF Service
<1>3. ASSUME NEW t \in Tab,
             Reread(t) \/ Gate(t) \/ Navigate(t) \/ LeaveLogout(t) \/ Reload(t)
      PROVE  Inv'
  BY <1>3, PageKeeps, ReloadKeeps
<1>4. ASSUME NEW c \in Call, NEW t \in Tab, NEW kind \in {"get", "post"},
             StartFetch(c, t, kind)
      PROVE  Inv'
  BY <1>4, StartFetchKeeps
<1>5. ASSUME NEW c \in Call, NEW t \in Tab, SignOut(c, t) PROVE Inv'
  BY <1>5, SignOutKeeps
<1>6. ASSUME NEW c \in Call, NEW t \in Tab, NEW a \in Account, SubmitLogin(c, t, a)
      PROVE  Inv'
  BY <1>6, InferredIsRole, SubmitKeeps DEF SubmitLogin
<1>7. ASSUME NEW c \in Call, NEW t \in Tab, NEW a \in Account, NEW r \in RegisterRole,
             SubmitRegister(c, t, a, r)
      PROVE  Inv'
  BY <1>7, SessionAssumption, SubmitKeeps DEF SubmitRegister
<1>8. ASSUME Tick PROVE Inv'
  <2>1. Keep /\ UNCHANGED <<build, revoked, call, page, reloads>> /\ now' \in 1..MaxNow
    BY <1>8, SessionAssumption DEF Tick, Keep, Inv, Rest
  <2>2. QED
    BY <2>1, KeepKeeps DEF Inv, Rest, Calls
<1>9. ASSUME UNCHANGED vars PROVE Inv'
  <2>1. Keep /\ UNCHANGED <<build, now, revoked, call, page, reloads>>
    BY <1>9 DEF vars, Keep
  <2>2. QED
    BY <2>1, KeepKeeps DEF Inv, Rest, Calls
<1>10. QED
  BY <1>1, <1>2, <1>3, <1>4, <1>5, <1>6, <1>7, <1>8, <1>9 DEF Next

-----------------------------------------------------------------------------
(* The theorems *)

\* The invariant holds in every reachable state (api.ts:154-427).
THEOREM SessionInvariance == Spec => []Inv
  BY InitInv, NextInv, PTL DEF Spec

\* Every variable has its type: in particular no undefined user or token is ever
\* stored, whatever the services answer (api.ts:318-418).
THEOREM SessionTypeCorrect == Spec => []TypeOK
  <1>1. Inv => TypeOK
    BY DEF Inv, Stored, Seen, Calls, Rest, TypeOK
  <1> QED
    BY <1>1, SessionInvariance, PTL

\* However many calls of however many tabs overlap, localStorage holds one whole
\* session, and in a production build one that the service issued (api.ts:10-13,
\* 154-181).
THEOREM SessionsAreWhole == Spec => []SessionIsWhole
  <1>1. Inv => SessionIsWhole
    BY DEF Inv, Stored
  <1> QED
    BY <1>1, SessionInvariance, PTL

\* Every tab renders the stored user or is about to read it again
\* (auth-store.ts).
THEOREM SnapshotsAreCurrent == Spec => []SnapshotIsCurrent
  <1>1. Inv => SnapshotIsCurrent
    BY DEF Inv, Seen
  <1> QED
    BY <1>1, SessionInvariance, PTL


-----------------------------------------------------------------------------
(* What becomes of a refresh token *)

\* A call that is past the step in which it may store a pair.
Spent(r) == r.pc \in {"resent", "reanswered", "done"}

\* Where in its life a call has a token and a pair, and of what kind they are.
Dated(r) ==
    /\ r.token \in JwtToken \cup {None}
    /\ r.pair # None => r.pair.at >= 1
    /\ r.pc \in {"new", "sent", "answered", "refresh_sent", "refresh_checked", "auth_sent"} =>
          r.pair = None
    /\ r.pc \in {"new", "sent", "answered", "auth_sent", "auth_answered"} => r.token = None

\* A token the store got from a call, or had from before second 1.
Issued(token) ==
    token.at = 0 \/ \E e \in Call : Spent(call[e]) /\ call[e].pair = token

\* The pairs of two calls are this same string.
Twins(token) ==
    \E c, d \in Call : c # d /\ call[c].pair = token /\ call[d].pair = token

\* The stored token was issued, ...
StoreIssued == store.refresh \in JwtToken => Issued(store.refresh)

\* ... so was every token that was sent, ...
TokensIssued == \A c \in Call : call[c].token # None => Issued(call[c].token)

\* ... a token on the blacklist has a successor, ...
SuccessorKnown ==
    \A entry \in revoked : entry[1] = "refresh" =>
        \E c \in Call : call[c].token = entry[2] /\ call[c].pair # None

\* ... and once the successor was stored or lost, the old token is stored again
\* only if it is its own successor or was issued twice.
ReplacedForGood ==
    \A c \in Call :
        /\ Spent(call[c]) /\ call[c].pair # None
        /\ call[c].token # None /\ call[c].token = store.refresh
        => call[c].pair = store.refresh \/ Twins(store.refresh)

History ==
    /\ \A c \in Call : Dated(call[c])
    /\ StoreIssued /\ TokensIssued /\ SuccessorKnown /\ ReplacedForGood


-----------------------------------------------------------------------------
(* What a step may do to that history *)

\* A call record that has become another: what it has it keeps, and once it is
\* spent it gets nothing more.
Later(q, r) ==
    /\ q.pair # None => r.pair = q.pair
    /\ q.token # None => r.token = q.token
    /\ Spent(q) => Spent(r) /\ r.pair = q.pair /\ r.token = q.token

\* The refresh token a call has got is the stored one.
TokenFromStore(q, r) ==
    r.token = q.token \/ (r.token = store.refresh /\ store.refresh \in JwtToken)

\* A call hands its pair to the store, and is spent.
HandsOver(q, r) ==
    /\ ~Spent(q) /\ Spent(r)
    /\ q.pair # None /\ q.pair = store'.refresh

\* A call that is spent has stored its pair, unless the session was cleared.
SpentByStoring(q, r) ==
    Spent(r) /\ ~Spent(q) /\ r.pair # None /\ r.token # None =>
        store'.refresh \notin JwtToken \/ store'.refresh = r.pair

\* What is put on the blacklist is the token of a call that gets its successor.
BlacklistEffect ==
    \A entry \in revoked' :
        \/ entry \in revoked
        \/ entry[1] # "refresh"
        \/ \E c \in Call : call'[c].token = entry[2] /\ call'[c].pair # None

CallEffect(q, r) == Later(q, r) /\ Dated(r) /\ TokenFromStore(q, r) /\ SpentByStoring(q, r)

StoreEffect ==
    \/ store'.refresh = store.refresh
    \/ store'.refresh \notin JwtToken
    \/ \E d \in Call : HandsOver(call[d], call'[d])

Effect ==
    /\ \A c \in Call : CallEffect(call[c], call'[c])
    /\ StoreEffect
    /\ BlacklistEffect

LEMMA TokenFacts ==
    /\ None \notin JwtToken /\ None \notin Token
    /\ MockRefresh \notin JwtToken
    /\ JwtToken \subseteq Token
<1>1. JwtToken \subseteq Token
  BY DEF Token
<1>2. None \notin Token
  BY NoneAssumption
<1>3. MockRefresh \notin JwtToken
  BY DEF MockRefresh, JwtToken
<1>4. QED
  BY <1>1, <1>2, <1>3

LEMMA IssuedStays ==
    ASSUME Effect, NEW tk \in JwtToken, Issued(tk)
    PROVE  Issued(tk)'
<1>1. tk # None
  BY TokenFacts
<1>2. QED
  BY <1>1 DEF Issued, Effect, CallEffect, Later

LEMMA TwinsStay ==
    ASSUME Effect, NEW tk \in JwtToken,
           NEW c \in Call, NEW d \in Call, c # d, call[c].pair = tk, call[d].pair = tk
    PROVE  call'[c].pair = tk /\ call'[d].pair = tk
<1>1. tk # None
  BY TokenFacts
<1>2. QED
  BY <1>1 DEF Effect, CallEffect, Later

LEMMA HistoryStep ==
    ASSUME Inv, History, Effect
    PROVE  History'
<1>0. \A c \in Call : Dated(call[c]) /\ Dated(call'[c]) /\ Later(call[c], call'[c])
  BY DEF History, Effect, CallEffect
<1>1. ASSUME NEW d \in Call, HandsOver(call[d], call'[d])
      PROVE  call'[d].pair = store'.refresh /\ Spent(call'[d])
  BY <1>0, <1>1 DEF HandsOver, Later
<1>2. StoreIssued'
  <2> SUFFICES ASSUME store'.refresh \in JwtToken
               PROVE  Issued(store.refresh)'
    BY DEF StoreIssued
  <2>1. CASE store'.refresh = store.refresh
    <3>1. PICK tk : tk = store.refresh
      OBVIOUS
    <3>2. tk \in JwtToken /\ Issued(tk)
      BY <2>1, <3>1 DEF History, StoreIssued
    <3>3. Issued(tk)'
      BY <3>2, IssuedStays
    <3>4. QED
      BY <2>1, <3>1, <3>3 DEF Issued
  <2>2. ASSUME NEW d \in Call, HandsOver(call[d], call'[d])
        PROVE  Issued(store.refresh)'
    BY <1>1, <2>2 DEF Issued
  <2>3. QED
    BY <2>1, <2>2 DEF Effect, StoreEffect
<1>3. TokensIssued'
  <2> SUFFICES ASSUME NEW c \in Call, call'[c].token # None
               PROVE  Issued(call[c].token)'
    BY DEF TokensIssued
  <2>1. PICK tk : tk = call'[c].token
    OBVIOUS
  <2>2. tk \in JwtToken
    BY <1>0, <2>1 DEF Dated
  <2>3. Issued(tk)
    BY <2>1, <2>2 DEF History, TokensIssued, StoreIssued, Effect, CallEffect, TokenFromStore
  <2>4. Issued(tk)'
    BY <2>2, <2>3, IssuedStays
  <2>5. QED
    BY <2>1, <2>4 DEF Issued
<1>4. SuccessorKnown'
  <2> SUFFICES ASSUME NEW entry \in revoked', entry[1] = "refresh"
               PROVE  \E c \in Call : call'[c].token = entry[2] /\ call'[c].pair # None
    BY DEF SuccessorKnown
  <2>1. CASE entry \in revoked
    <3>1. PICK c \in Call : call[c].token = entry[2] /\ call[c].pair # None
      BY <2>1 DEF History, SuccessorKnown
    <3>2. entry[2] # None
      BY <2>1, TokenFacts DEF Inv, Rest
    <3>3. call'[c].token = entry[2] /\ call'[c].pair # None
      BY <1>0, <3>1, <3>2 DEF Later
    <3>4. QED
      BY <3>3
  <2>2. QED
    BY <2>1 DEF Effect, BlacklistEffect
<1>5. ReplacedForGood'
  <2> SUFFICES ASSUME NEW c \in Call, Spent(call'[c]), call'[c].pair # None,
                      call'[c].token # None, call'[c].token = store'.refresh,
                      call'[c].pair # store'.refresh
               PROVE  \E d, e \in Call :
                         d # e /\ call'[d].pair = store'.refresh /\ call'[e].pair = store'.refresh
    BY DEF ReplacedForGood, Twins
  <2>1. PICK tk : tk = store'.refresh
    OBVIOUS
  <2>2. tk \in JwtToken /\ tk # None
    BY <1>0, <2>1, TokenFacts DEF Dated
  <2>3. Spent(call[c])
    BY <2>1, <2>2 DEF Effect, CallEffect, SpentByStoring
  <2>4. call[c].token = tk /\ call[c].pair = call'[c].pair
    BY <1>0, <2>1, <2>3 DEF Later
  <2>5. CASE tk = store.refresh
    <3>1. Twins(tk)
      BY <2>1, <2>2, <2>3, <2>4, <2>5 DEF History, ReplacedForGood
    <3>2. QED
      BY <2>1, <2>2, <3>1, TwinsStay DEF Twins
  <2>6. ASSUME NEW d \in Call, HandsOver(call[d], call'[d])
        PROVE  \E b, e \in Call :
                  b # e /\ call'[b].pair = store'.refresh /\ call'[e].pair = store'.refresh
    <3>1. call[d].pair = tk /\ tk.at >= 1 /\ ~Spent(call[d])
      BY <1>0, <2>1, <2>6 DEF HandsOver, Dated
    <3>2. Issued(tk)
      BY <2>2, <2>4 DEF History, TokensIssued
    <3>3. tk.at # 0
      BY <2>2, <3>1 DEF JwtToken
    <3>4. PICK e \in Call : Spent(call[e]) /\ call[e].pair = tk
      BY <3>2, <3>3 DEF Issued
    <3>5. d # e
      BY <3>1, <3>4
    <3>6. QED
      BY <2>1, <2>2, <3>1, <3>4, <3>5, TwinsStay
  <2>7. QED
    BY <2>1, <2>2, <2>5, <2>6 DEF Effect, StoreEffect
<1>6. QED
  BY <1>0, <1>2, <1>3, <1>4, <1>5 DEF History


-----------------------------------------------------------------------------
(* Every action has such an effect *)

\* A step that replaces one call.
LEMMA OneCallEffect ==
    ASSUME Inv, History, NEW c \in Call, NEW r, call' = [call EXCEPT ![c] = r],
           Later(call[c], r), Dated(r), TokenFromStore(call[c], r),
           SpentByStoring(call[c], r),
           \/ store'.refresh = store.refresh
           \/ store'.refresh \notin JwtToken
           \/ HandsOver(call[c], r),
           \/ \A entry \in revoked' : entry \in revoked \/ entry[1] # "refresh"
           \/ /\ r.pair # None
              /\ \A entry \in revoked' : entry \in revoked \/ entry[2] = r.token
    PROVE  Effect
<1>1. call \in [Call -> CallRecord] /\ \A d \in Call : Dated(call[d])
  BY DEF Inv, Calls, History
<1>2. call'[c] = r /\ \A d \in Call : d # c => call'[d] = call[d]
  BY <1>1
<1>3. \A d \in Call : CallEffect(call[d], call[d])
  BY <1>1 DEF CallEffect, Later, TokenFromStore, SpentByStoring
<1>4. CallEffect(call[c], r)
  BY DEF CallEffect
<1>5. StoreEffect
  BY <1>2 DEF StoreEffect
<1>6. BlacklistEffect
  BY <1>2 DEF BlacklistEffect
<1>7. \A d \in Call : CallEffect(call[d], call'[d])
  BY <1>2, <1>3, <1>4
<1>8. QED
  BY <1>5, <1>6, <1>7 DEF Effect

\* A step that leaves the tokens of all calls alone, the store and the blacklist too.
LEMMA IdleEffect ==
    ASSUME Inv, History, store' = store, revoked' = revoked,
           \A c \in Call : /\ call'[c].pc = call[c].pc
                           /\ call'[c].token = call[c].token
                           /\ call'[c].pair = call[c].pair
    PROVE  Effect
<1>1. \A c \in Call : CallEffect(call[c], call'[c])
  BY DEF CallEffect, Later, Dated, Spent, TokenFromStore, SpentByStoring, History
<1>2. QED
  BY <1>1 DEF Effect, StoreEffect, BlacklistEffect

\* A call returns: it keeps its token and its pair.
LEMMA ReturnEffect ==
    ASSUME Inv, History, NEW c \in Call, Return(c), revoked' = revoked,
           \/ store'.refresh \notin JwtToken
           \/ /\ store'.refresh = store.refresh
              /\ Spent(call[c]) \/ call[c].pair = None \/ call[c].token = None
           \/ /\ call[c].pc = "auth_answered"
              /\ call[c].pair # None /\ store'.refresh = call[c].pair
    PROVE  Effect
<1> DEFINE r == [Unmade EXCEPT !.kind = call[c].kind, !.pc = "done",
                               !.token = call[c].token, !.pair = call[c].pair]
<1>1. call' = [call EXCEPT ![c] = r]
  BY DEF Return
<1>2. r.pc = "done" /\ r.token = call[c].token /\ r.pair = call[c].pair
  BY DEF Unmade
<1>3. Dated(call[c])
  BY DEF History
<1> HIDE DEF r
<1>4. Later(call[c], r) /\ Dated(r) /\ TokenFromStore(call[c], r)
  BY <1>2, <1>3 DEF Later, Dated, Spent, TokenFromStore
<1>5. SpentByStoring(call[c], r)
  BY <1>2, <1>3 DEF SpentByStoring, Dated
<1>6. call[c].pc = "auth_answered" /\ call[c].pair # None /\ store'.refresh = call[c].pair
      => HandsOver(call[c], r)
  BY <1>2 DEF HandsOver, Spent
<1>7. QED
  BY <1>1, <1>4, <1>5, <1>6, OneCallEffect

LEMMA FinishEffect ==
    ASSUME Inv, History, NEW c \in Call, Finish(c), revoked' = revoked,
           Spent(call[c]) \/ call[c].pair = None
    PROVE  Effect
<1>1. Return(c) /\ (store' = store \/ store' = Empty)
  BY DEF Finish, clearAuth, Keep
<1>2. store'.refresh = store.refresh \/ store'.refresh \notin JwtToken
  BY <1>1, TokenFacts DEF Empty
<1>3. QED
  BY <1>1, <1>2, ReturnEffect

LEMMA ClientEffect ==
    ASSUME Inv, History, NEW c \in Call, Client(c)
    PROVE  Effect
<1>0. call[c] \in CallRecord /\ Whole(call[c]) /\ Dated(call[c])
  BY DEF Inv, Calls, History
<1>1. CASE AfterFetch(c)
  <2>0. revoked' = revoked /\ call[c].pc = "answered"
        /\ call[c].pair = None /\ call[c].token = None
    BY <1>0, <1>1 DEF AfterFetch, Dated
  <2>1. ASSUME Resend(c), Keep
        PROVE  Effect
    <3> DEFINE r == [call[c] EXCEPT !.pc = "resent", !.header = HeaderOf(c),
                                    !.reply = "none"]
    <3>1. call' = [call EXCEPT ![c] = r]
      BY <2>1 DEF Resend
    <3>2. r.pc = "resent" /\ r.token = None /\ r.pair = None
      BY <1>0, <2>0 DEF CallRecord
    <3> HIDE DEF r
    <3>3. Later(call[c], r) /\ Dated(r) /\ TokenFromStore(call[c], r)
          /\ SpentByStoring(call[c], r)
      BY <2>0, <3>2 DEF Later, Dated, Spent, TokenFromStore, SpentByStoring
    <3>4. QED
      BY <2>0, <2>1, <3>1, <3>3, OneCallEffect DEF Keep
  <2>2. ASSUME call' = [call EXCEPT ![c].pc = "refresh_sent",
                                    ![c].token = store.refresh,
                                    ![c].reply = "none"],
               Keep, store.refresh # None, store.refresh.kind # "mock"
        PROVE  Effect
    <3> DEFINE r == [call[c] EXCEPT !.pc = "refresh_sent", !.token = store.refresh,
                                    !.reply = "none"]
    <3>1. call' = [call EXCEPT ![c] = r]
      BY <2>2
    <3>2. r.pc = "refresh_sent" /\ r.token = store.refresh /\ r.pair = None
      BY <1>0, <2>0 DEF CallRecord
    <3>3. store.refresh \in JwtToken
      BY <2>2 DEF Inv, Stored, Store, Token
    <3> HIDE DEF r
    <3>4. Later(call[c], r) /\ Dated(r) /\ TokenFromStore(call[c], r)
          /\ SpentByStoring(call[c], r)
      BY <2>0, <3>2, <3>3 DEF Later, Dated, Spent, TokenFromStore, SpentByStoring
    <3>5. QED
      BY <2>0, <2>2, <3>1, <3>4, OneCallEffect DEF Keep
  <2>3. ASSUME Finish(c) PROVE Effect
    BY <2>0, <2>3, FinishEffect
  <2>4. \/ Resend(c) /\ Keep
        \/ /\ call' = [call EXCEPT ![c].pc = "refresh_sent",
                                   ![c].token = store.refresh,
                                   ![c].reply = "none"]
           /\ Keep /\ store.refresh # None /\ store.refresh.kind # "mock"
        \/ Finish(c)
    BY <1>1 DEF AfterFetch
  <2>5. QED
    BY <2>1, <2>2, <2>3, <2>4
<1>2. CASE AfterRefresh(c)
  <2>0. revoked' = revoked /\ call[c].pc = "refresh_answered"
    BY <1>2 DEF AfterRefresh
  <2>1. CASE call[c].reply = "ok"
    <3> DEFINE p == call[c].pair
               h == IF call[c].own # None THEN call[c].own ELSE p
               r == [call[c] EXCEPT !.pc = "resent", !.reply = "none", !.header = h]
    <3>1. call' = [call EXCEPT ![c] = r] /\ setTokens(p, p)
      BY <1>2, <2>1 DEF AfterRefresh
    <3>2. r.pc = "resent" /\ r.token = call[c].token /\ r.pair = p
      BY <1>0 DEF CallRecord
    <3>3. p \in JwtToken /\ p # None
      BY <1>0, <2>0, <2>1, TokenFacts DEF Whole
    <3>4. store'.refresh = p
      BY <3>1 DEF setTokens, Inv, Stored, Store
    <3> HIDE DEF r
    <3>5. Later(call[c], r) /\ Dated(r) /\ TokenFromStore(call[c], r)
      BY <1>0, <2>0, <3>2 DEF Later, Dated, Spent, TokenFromStore
    <3>6. SpentByStoring(call[c], r) /\ HandsOver(call[c], r)
      BY <2>0, <3>2, <3>3, <3>4 DEF SpentByStoring, HandsOver, Spent
    <3>7. QED
      BY <2>0, <3>1, <3>5, <3>6, OneCallEffect
  <2>2. CASE call[c].reply # "ok"
    <3>1. Return(c) /\ store' = Empty
      BY <1>2, <2>2 DEF AfterRefresh, clearAuth
    <3>2. store'.refresh \notin JwtToken
      BY <3>1, TokenFacts DEF Empty
    <3>3. QED
      BY <2>0, <3>1, <3>2, ReturnEffect
  <2>3. QED
    BY <2>1, <2>2
<1>3. CASE AfterResend(c)
  BY <1>3, FinishEffect DEF AfterResend, Spent
<1>4. CASE AfterSubmit(c)
  <2>0. /\ revoked' = revoked /\ call[c].pc = "auth_answered" /\ Return(c)
        /\ call[c].token = None
    BY <1>0, <1>4 DEF AfterSubmit, Dated
  <2>1. ASSUME call[c].reply = "ok", setTokens(call[c].pair, call[c].pair)
        PROVE  Effect
    <3>1. call[c].pair # None
      BY <1>0, <2>0, <2>1, TokenFacts DEF Whole
    <3>2. store'.refresh = call[c].pair
      BY <2>1 DEF setTokens, Inv, Stored, Store
    <3>3. QED
      BY <2>0, <3>1, <3>2, ReturnEffect
  <2>2. ASSUME NEW t, NEW a, NEW role, applyMockAuth(t, a, role) PROVE Effect
    <3>1. store'.refresh \notin JwtToken
      BY <2>2, TokenFacts DEF applyMockAuth
    <3>2. QED
      BY <2>0, <3>1, ReturnEffect
  <2>3. CASE Keep
    BY <2>0, <2>3, ReturnEffect DEF Keep
  <2>4. QED
    BY <1>4, <2>1, <2>2, <2>3 DEF AfterSubmit
<1>5. QED
  BY <1>1, <1>2, <1>3, <1>4 DEF Client

\* A call that is made has neither token nor pair.
LEMMA MadeEffect ==
    ASSUME Inv, History, NEW c \in Call, NEW r, call' = [call EXCEPT ![c] = r],
           call[c].pc = "new", r.token = None, r.pair = None,
           r.pc \in {"sent", "auth_sent", "done"},
           store'.refresh = store.refresh \/ store'.refresh \notin JwtToken,
           revoked' = revoked
    PROVE  Effect
<1>1. Dated(call[c])
  BY DEF History
<1>2. Later(call[c], r) /\ Dated(r) /\ TokenFromStore(call[c], r)
      /\ SpentByStoring(call[c], r)
  BY <1>1 DEF Later, Dated, Spent, TokenFromStore, SpentByStoring
<1>3. QED
  BY <1>2, OneCallEffect

LEMMA TabEffect ==
    ASSUME Inv, History, NEW c \in Call, NEW t \in Tab,
           \/ \E kind \in {"get", "post"} : StartFetch(c, t, kind)
           \/ SignOut(c, t)
           \/ \E a \in Account : SubmitLogin(c, t, a)
           \/ \E a \in Account, r \in RegisterRole : SubmitRegister(c, t, a, r)
    PROVE  Effect
<1>1. ASSUME NEW kind, StartFetch(c, t, kind) PROVE Effect
  <2> DEFINE r == [Unmade EXCEPT !.kind = kind, !.tab = t, !.pc = "sent",
                      !.own = IF kind = "post" THEN store.access ELSE None,
                      !.header = store.access]
  <2>1. r.token = None /\ r.pair = None /\ r.pc = "sent"
    BY DEF Unmade
  <2>2. call' = [call EXCEPT ![c] = r] /\ call[c].pc = "new"
        /\ store' = store /\ revoked' = revoked
    BY <1>1 DEF StartFetch
  <2> HIDE DEF r
  <2>3. QED
    BY <2>1, <2>2, MadeEffect
<1>2. CASE SignOut(c, t)
  <2> DEFINE r == [Unmade EXCEPT !.kind = "logout", !.tab = t, !.pc = "sent",
                                 !.header = store.access]
  <2>1. r.token = None /\ r.pair = None /\ r.pc = "sent"
    BY DEF Unmade
  <2>2. call' = [call EXCEPT ![c] = r] /\ call[c].pc = "new"
        /\ store' = store /\ revoked' = revoked
    BY <1>2 DEF SignOut
  <2> HIDE DEF r
  <2>3. QED
    BY <2>1, <2>2, MadeEffect
<1>3. ASSUME NEW a, NEW kind, NEW role, Submit(c, t, a, kind, role) PROVE Effect
  <2> DEFINE q == [Unmade EXCEPT !.kind = kind, !.pc = "done"]
             r == [Unmade EXCEPT !.kind = kind, !.tab = t, !.who = a,
                                 !.role = role, !.pc = "auth_sent"]
  <2>1. /\ q.token = None /\ q.pair = None /\ q.pc = "done"
        /\ r.token = None /\ r.pair = None /\ r.pc = "auth_sent"
    BY DEF Unmade
  <2>2. call[c].pc = "new" /\ revoked' = revoked
    BY <1>3 DEF Submit
  <2>3. \/ call' = [call EXCEPT ![c] = q] /\ applyMockAuth(t, a, role)
        \/ call' = [call EXCEPT ![c] = r] /\ Keep
    BY <1>3 DEF Submit
  <2>4. applyMockAuth(t, a, role) => store'.refresh \notin JwtToken
    BY TokenFacts DEF applyMockAuth
  <2>5. Keep => store' = store
    BY DEF Keep
  <2> HIDE DEF q, r
  <2>6. QED
    BY <2>1, <2>2, <2>3, <2>4, <2>5, MadeEffect
<1>4. QED
  BY <1>1, <1>2, <1>3 DEF SubmitLogin, SubmitRegister

LEMMA AnswerEffect ==
    ASSUME Inv, History, NEW c \in Call, NEW pc, NEW reply, Answer(c, pc, reply),
           store' = store,
           \/ call[c].pc \in {"sent", "answered"} /\ pc = "answered"
           \/ call[c].pc \in {"resent", "reanswered"} /\ pc = "reanswered"
           \/ /\ call[c].pc \in {"refresh_sent", "refresh_checked", "refresh_answered"}
              /\ pc = "refresh_answered"
           \/ call[c].pc \in {"auth_sent", "auth_answered"} /\ pc = "auth_answered",
           \A entry \in revoked' : entry \in revoked \/ entry[1] # "refresh"
    PROVE  Effect
<1> DEFINE r == [call[c] EXCEPT !.pc = pc, !.reply = reply]
<1>1. call' = [call EXCEPT ![c] = r]
  BY DEF Answer
<1>2. call[c] \in CallRecord /\ Dated(call[c])
  BY DEF Inv, Calls, History
<1>3. r.pc = pc /\ r.token = call[c].token /\ r.pair = call[c].pair
  BY <1>2 DEF CallRecord
<1> HIDE DEF r
<1>4. Dated(r)
  BY <1>2, <1>3 DEF Dated
<1>5. Later(call[c], r) /\ TokenFromStore(call[c], r) /\ SpentByStoring(call[c], r)
  BY <1>3 DEF Later, Spent, TokenFromStore, SpentByStoring
<1>6. QED
  BY <1>1, <1>4, <1>5, OneCallEffect

LEMMA ServiceEffect ==
    ASSUME Inv, History, NEW c \in Call, Service(c) \/ NetworkFails(c)
    PROVE  Effect
<1>0. call[c] \in CallRecord /\ Whole(call[c]) /\ Dated(call[c]) /\ now \in Nat /\ now >= 1
  BY SessionAssumption DEF Inv, Calls, History, Rest
<1>1. CASE Serve(c)
  <2>1. \A entry \in revoked' : entry \in revoked \/ entry[1] # "refresh"
    BY <1>1 DEF Serve
  <2>2. /\ store' = store
        /\ \E reply : Answer(c, IF call[c].pc = "sent" THEN "answered" ELSE "reanswered", reply)
        /\ call[c].pc \in {"sent", "resent"}
    BY <1>1 DEF Serve
  <2>3. QED
    BY <2>1, <2>2, AnswerEffect
<1>2. CASE RefreshCheck(c)
  <2>0. call[c].pc = "refresh_sent" /\ store' = store /\ revoked' = revoked
    BY <1>2 DEF RefreshCheck
  <2>1. CASE Answer(c, "refresh_answered", "401")
    BY <2>0, <2>1, AnswerEffect
  <2>2. CASE To(c, "refresh_checked")
    <3> DEFINE r == [call[c] EXCEPT !.pc = "refresh_checked"]
    <3>1. call' = [call EXCEPT ![c] = r]
      BY <2>2 DEF To
    <3>2. r.pc = "refresh_checked" /\ r.token = call[c].token /\ r.pair = call[c].pair
      BY <1>0 DEF CallRecord
    <3> HIDE DEF r
    <3>3. Later(call[c], r) /\ Dated(r) /\ TokenFromStore(call[c], r)
          /\ SpentByStoring(call[c], r)
      BY <1>0, <2>0, <3>2 DEF Later, Dated, Spent, TokenFromStore, SpentByStoring
    <3>4. QED
      BY <2>0, <3>1, <3>3, OneCallEffect
  <2>3. QED
    BY <1>2, <2>1, <2>2 DEF RefreshCheck
<1>3. CASE RefreshRotate(c)
  <2> DEFINE p == Jwt(call[c].token.sub, now)
             r == [call[c] EXCEPT !.pc = "refresh_answered", !.reply = "ok", !.pair = p]
  <2>0. call[c].pc = "refresh_checked" /\ call[c].pair = None /\ store' = store
        /\ call[c].token \in JwtToken
    BY <1>0, <1>3 DEF RefreshRotate, Dated, Whole
  <2>1. call' = [call EXCEPT ![c] = r]
    BY <1>3 DEF RefreshRotate
  <2>2. r.pc = "refresh_answered" /\ r.token = call[c].token /\ r.pair = p
    BY <1>0 DEF CallRecord
  <2>3. p.at >= 1 /\ p # None
    <3>1. p \in JwtToken
      BY <1>0, <2>0 DEF JwtToken, Jwt
    <3>2. QED
      BY <1>0, <3>1, TokenFacts DEF Jwt
  <2> HIDE DEF r, p
  <2>4. Later(call[c], r) /\ Dated(r) /\ TokenFromStore(call[c], r)
        /\ SpentByStoring(call[c], r)
    BY <1>0, <2>0, <2>2, <2>3 DEF Later, Dated, Spent, TokenFromStore, SpentByStoring
  <2>5. \A entry \in revoked' : entry \in revoked \/ entry[2] = r.token
    BY <1>3, <2>2 DEF RefreshRotate
  <2>6. QED
    BY <2>0, <2>1, <2>2, <2>3, <2>4, <2>5, OneCallEffect
<1>4. CASE Authenticate(c)
  <2>0. /\ call[c].pc = "auth_sent" /\ store' = store /\ revoked' = revoked
        /\ call[c].pair = None /\ call[c].token = None
    BY <1>0, <1>4 DEF Authenticate, Dated
  <2>1. CASE Answer(c, "auth_answered", "401")
    BY <2>0, <2>1, AnswerEffect
  <2>2. ASSUME call' = [call EXCEPT ![c].pc = "auth_answered", ![c].reply = "ok",
                                    ![c].pair = Jwt(call[c].who, now)]
        PROVE  Effect
    <3> DEFINE p == Jwt(call[c].who, now)
               r == [call[c] EXCEPT !.pc = "auth_answered", !.reply = "ok", !.pair = p]
    <3>1. call' = [call EXCEPT ![c] = r]
      BY <2>2
    <3>2. r.pc = "auth_answered" /\ r.token = None /\ r.pair = p
      BY <1>0, <2>0 DEF CallRecord
    <3>3. p.at >= 1
      BY <1>0 DEF Jwt
    <3> HIDE DEF r, p
    <3>4. Later(call[c], r) /\ Dated(r) /\ TokenFromStore(call[c], r)
          /\ SpentByStoring(call[c], r)
      BY <2>0, <3>2, <3>3 DEF Later, Dated, Spent, TokenFromStore, SpentByStoring
    <3>5. QED
      BY <2>0, <3>1, <3>4, OneCallEffect
  <2>3. QED
    BY <1>4, <2>1, <2>2 DEF Authenticate
<1>5. CASE NetworkFails(c)
  <2>0. store' = store /\ revoked' = revoked
    BY <1>5 DEF NetworkFails
  <2>1. QED
    BY <1>5, <2>0, AnswerEffect DEF NetworkFails
<1>6. QED
  BY <1>1, <1>2, <1>3, <1>4, <1>5 DEF Service

LEMMA StepEffect ==
    ASSUME Inv, History, [Next]_vars
    PROVE  Effect
<1>0. call \in [Call -> CallRecord]
  BY DEF Inv, Calls
<1>1. ASSUME NEW t \in Tab, Reload(t) PROVE Effect
  <2>1. call' = [c \in Call |-> IF call[c].tab = t /\ call[c].pc # "done"
                                THEN [call[c] EXCEPT !.tab = None] ELSE call[c]]
    BY <1>1 DEF Reload
  <2>2. \A c \in Call : /\ call'[c].pc = call[c].pc
                        /\ call'[c].token = call[c].token
                        /\ call'[c].pair = call[c].pair
    BY <1>0, <2>1 DEF CallRecord
  <2>3. QED
    BY <1>1, <2>2, IdleEffect DEF Reload
<1>2. ASSUME NEW t \in Tab, Reread(t) \/ Gate(t) \/ Navigate(t) \/ LeaveLogout(t)
      PROVE  Effect
  BY <1>2, IdleEffect DEF Reread, Gate, Navigate, LeaveLogout
<1>3. CASE Tick \/ UNCHANGED vars
  BY <1>3, IdleEffect DEF Tick, vars
<1>4. QED
  BY <1>1, <1>2, <1>3, ClientEffect, ServiceEffect, TabEffect DEF Next

LEMMA InitHistory == Init => History
<1> SUFFICES ASSUME Init PROVE History
  OBVIOUS
<1>1. \A c \in Call : Dated(call[c]) /\ call[c].token = None /\ ~Spent(call[c])
  BY TokenFacts DEF Init, Dated, Unmade, Spent
<1>2. store.refresh \in JwtToken => store.refresh.at = 0
  BY TokenFacts DEF Init, FirstStores, Empty, Jwt
<1>3. QED
  BY <1>1, <1>2
     DEF Init, History, StoreIssued, TokensIssued, SuccessorKnown, ReplacedForGood, Issued

\* Nothing but a lost or late answer, a reload or two equal strings leaves a dead
\* refresh token in localStorage, however many calls of however many tabs overlap
\* (api.ts:183-249).
THEOREM DeadSessionsHaveCause == Spec => []DeadSessionHasCause
<1>1. Inv /\ History /\ [Next]_vars => History'
  BY StepEffect, HistoryStep
<1>2. Inv /\ History => DeadSessionHasCause
  <2> SUFFICES ASSUME Inv, History, <<"refresh", store.refresh>> \in revoked
               PROVE  DeadSessionHasCause
    BY DEF DeadSessionHasCause
  <2>1. PICK c \in Call : call[c].token = store.refresh /\ call[c].pair # None
    BY DEF History, SuccessorKnown
  <2>2. store.refresh \in Token /\ store.refresh # None
    BY TokenFacts DEF Inv, Rest
  <2>3. call[c] \in CallRecord /\ Dated(call[c])
    BY DEF Inv, Calls, History
  <2>4. call[c].pc = "refresh_answered" \/ Spent(call[c])
    BY <2>1, <2>2, <2>3 DEF Dated, CallRecord, PC, Spent
  <2>5. CASE call[c].pc = "refresh_answered"
    BY <2>1, <2>5 DEF DeadSessionHasCause
  <2>6. CASE Spent(call[c])
    BY <2>1, <2>2, <2>6 DEF History, ReplacedForGood, Twins, DeadSessionHasCause
  <2>7. QED
    BY <2>4, <2>5, <2>6
<1>3. QED
  BY <1>1, <1>2, InitHistory, SessionInvariance, PTL DEF Spec
=============================================================================
