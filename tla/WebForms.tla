------------------------------ MODULE WebForms ------------------------------
(***************************************************************************)
(* The three pages that send what the user has entered: the sign-in form,  *)
(* the reports page and the settings page.  Each is a record that changes  *)
(* at the clicks of the user, at the answers and at its timers.            *)
(*                                                                         *)
(* A handler runs to its await; a call that fails ends the handler there   *)
(* unless it has a try.                                                    *)
(***************************************************************************)
EXTENDS Naturals, Sequences, SequencesExt, Screen

CONSTANTS
    Person,      \* whose e-mail address may be in the form
    Report,      \* the report cards
    CategoryOf,  \* the category of each report
    Name,        \* display names and addresses
    MaxJobs,     \* bound: reports generated
    MaxSaves     \* bound: saves whose banner timer is still to fire

ASSUME FormsAssumption ==
    /\ None \notin Person \cup Report \cup Name
    /\ MaxJobs \in Nat \ {0}
    /\ MaxSaves \in Nat \ {0}

VARIABLES
    login,     \* the sign-in form
    reports,   \* the reports page
    settings   \* the settings page

-----------------------------------------------------------------------------
(* The sign-in form *)

\* A code is known by the person it was typed for; sent is the request under way.
\* asked: the service has asked for a code since the form was mounted.
Credentials == [register : BOOLEAN, person : Person, code : Person \cup {None}]

LoginTypeOK ==
    login \in [isRegister : BOOLEAN, person : Person, totpCode : Person \cup {None},
               showTotp : BOOLEAN, error : {None, "code", "other"},
               loading : BOOLEAN, sent : Seq(Credentials), pushed : BOOLEAN,
               asked : BOOLEAN]

LoginMounted(p) ==
    [isRegister |-> FALSE, person |-> p, totpCode |-> None, showTotp |-> FALSE,
     error |-> None, loading |-> FALSE, sent |-> <<>>, pushed |-> FALSE,
     asked |-> FALSE]

LoginInit == \E p \in Person : login = LoginMounted(p)

\* The submit button is disabled while a request is under way, nothing else is.
\* Only a sign-in carries a code, the one typed last.
Submit ==
    /\ ~login.loading
    /\ login' = [login EXCEPT
         !.error = None, !.loading = TRUE,
         !.sent = Append(@, [register |-> login.isRegister, person |-> login.person,
                             code |-> IF login.isRegister THEN None
                                                          ELSE login.totpCode])]

\* Faulty: any refusal opens the box for the code.
SubmitAnsweredOpens ==
    /\ login.sent # <<>>
    /\ login' = [login EXCEPT !.sent = Tail(@), !.loading = FALSE,
                              !.error = "other", !.showTotp = TRUE]

\* The form stays until the router has gone to "/"; finally ends the loading.
SubmitAnswered ==
    /\ login.sent # <<>>
    /\ \E answer \in {"ok", "TOTP code required", "refused"} :
         /\ answer = "TOTP code required" => ~Head(login.sent).register /\ live
         /\ login' = [login EXCEPT
              !.sent = Tail(@), !.loading = FALSE,
              !.pushed = @ \/ answer = "ok",
              !.showTotp = @ \/ answer = "TOTP code required",
              !.asked = @ \/ answer = "TOTP code required",
              !.error = CASE answer = "ok" -> @
                          [] answer = "TOTP code required" -> "code"
                          [] OTHER -> "other"]

TypeEmail(p) == login' = [login EXCEPT !.person = p]

TypeCode ==
    /\ login.showTotp
    /\ login' = [login EXCEPT !.totpCode = login.person]

\* Faulty: the loading is reset with the rest of the form.
ToggleModeResets ==
    login' = [login EXCEPT !.isRegister = ~@, !.error = None, !.showTotp = FALSE,
                           !.loading = FALSE]

\* What was typed as a code stays, out of sight.
ToggleMode ==
    login' = [login EXCEPT !.isRegister = ~@, !.error = None, !.showTotp = FALSE]

handleDemoFill(p) ==
    login' = [login EXCEPT !.person = p, !.isRegister = FALSE, !.showTotp = FALSE,
                           !.error = None]

\* The router has gone to the dashboard: the form is dropped, and mounted again
\* at the next sign-in.
LeaveLogin == login.pushed /\ \E p \in Person : login' = LoginMounted(p)

LoginActs ==
    \/ Submit \/ TypeCode \/ ToggleMode
    \/ \E p \in Person : TypeEmail(p) \/ handleDemoFill(p)

LoginNext == LoginActs \/ SubmitAnswered \/ LeaveLogin

-----------------------------------------------------------------------------
(* The reports page *)

Job == [report : Report, pc : {"sent", "waiting", "ok", "failed"}]

\* file is the last download: the report, and whether the numbers were in it.
ReportsTypeOK ==
    reports \in [generating : Report \cup {None}, jobs : Seq(Job),
                 generated : Seq(Report), stats : {None, "ok", "error"},
                 category : {CategoryOf[r] : r \in Report} \cup {"All"},
                 file : [report : Report, numbers : BOOLEAN] \cup {None}]

ReportsInit ==
    reports = [generating |-> None, jobs |-> <<>>, generated |-> <<>>,
               stats |-> None, category |-> "All", file |-> None]

\* The card is on the page.
Listed(r) == reports.category \in {"All", CategoryOf[r]}

setActiveCategory(c) == reports' = [reports EXCEPT !.category = c]

\* Only the button of the report in the one slot is disabled.
handleGenerate(r) ==
    /\ Listed(r) /\ reports.generating # r
    /\ Len(reports.jobs) < MaxJobs
    /\ reports' = [reports EXCEPT !.generating = r,
                                  !.jobs = Append(@, [report |-> r, pc |-> "sent"])]

\* Faulty: the report is listed when the answer comes, and again after the wait.
GenerateAnsweredLists(n) ==
    /\ n \in DOMAIN reports.jobs /\ reports.jobs[n].pc = "sent"
    /\ reports' = [reports EXCEPT !.jobs[n].pc = "waiting",
                                  !.generated = Append(@, reports.jobs[n].report)]

\* There is no try: after a failure the slot keeps the report.
GenerateAnswered(n) ==
    /\ n \in DOMAIN reports.jobs /\ reports.jobs[n].pc = "sent"
    /\ \E answer \in Done :
         reports' = [reports EXCEPT !.jobs[n].pc =
                        IF answer = "ok" THEN "waiting" ELSE "failed"]

\* The 1200 ms are over.
GenerateEnds(n) ==
    /\ n \in DOMAIN reports.jobs /\ reports.jobs[n].pc = "waiting"
    /\ reports' = [reports EXCEPT !.jobs[n].pc = "ok", !.generating = None,
                                  !.generated = Append(@, reports.jobs[n].report)]

ReportStatsAnswered ==
    /\ reports.stats = None
    /\ \E answer \in StatsFetched \ {"failed"} :
         reports' = [reports EXCEPT !.stats = answer]

\* Without statistics the file says so; with the body of an error the first
\* number throws, and nothing is downloaded.
handleDownload(r) ==
    /\ Listed(r) /\ r \in ToSet(reports.generated)
    /\ reports.stats # "error"
    /\ reports' = [reports EXCEPT
         !.file = [report |-> r, numbers |-> reports.stats = "ok"]]

ReportsActs ==
    \/ \E c \in {CategoryOf[r] : r \in Report} \cup {"All"} : setActiveCategory(c)
    \/ \E r \in Report : handleGenerate(r) \/ handleDownload(r)

ReportsNext ==
    \/ ReportsActs \/ ReportStatsAnswered
    \/ \E n \in DOMAIN reports.jobs : GenerateAnswered(n) \/ GenerateEnds(n)

-----------------------------------------------------------------------------
(* The settings page *)

\* user is the name of the session, draft what was typed over it; prefs is whether
\* a switch has been moved, which no save sends.  timers are banners to take down,
\* kept the name the service was given.
SettingsTypeOK ==
    settings \in [user : Name, draft : Name \cup {None}, prefs : BOOLEAN,
                  saving : BOOLEAN, sent : Seq(Name), failed : BOOLEAN,
                  saved : BOOLEAN, timers : 0..MaxSaves, kept : Name \cup {None}]

SettingsInit ==
    \E n \in Name :
        settings = [user |-> n, draft |-> None, prefs |-> FALSE, saving |-> FALSE,
                    sent |-> <<>>, failed |-> FALSE, saved |-> FALSE, timers |-> 0,
                    kept |-> None]

Shown == IF settings.draft = None THEN settings.user ELSE settings.draft

hasChanges == settings.draft # None /\ settings.draft # settings.user

Edit(n) == settings' = [settings EXCEPT !.draft = n]

ToggleSwitch == settings' = [settings EXCEPT !.prefs = ~@]

\* Another tab signs somebody else in.
UserChanges(n) == settings' = [settings EXCEPT !.user = n]

\* Faulty: the banner is shown when the request is sent.
handleSaveAtOnce ==
    /\ ~settings.saving /\ settings.timers < MaxSaves
    /\ settings' = [settings EXCEPT !.saving = TRUE, !.saved = TRUE,
                                    !.sent = Append(@, Shown)]

handleSave ==
    /\ ~settings.saving /\ settings.timers < MaxSaves
    /\ settings' = [settings EXCEPT !.saving = TRUE, !.sent = Append(@, Shown)]

\* Faulty: the save that is answered says nothing of its end.
SaveAnsweredSilently ==
    /\ settings.sent # <<>>
    /\ settings' = [settings EXCEPT !.sent = Tail(@), !.saved = TRUE,
                                    !.timers = @ + 1, !.kept = Head(settings.sent)]

\* There is no try: after a failure saving stays.  A timer is never cleared, so
\* the one of an earlier save takes down the banner of a later one.
SaveAnswered ==
    /\ settings.sent # <<>>
    /\ \E answer \in Done :
         settings' =
            IF answer = "ok"
            THEN [settings EXCEPT !.sent = Tail(@), !.saving = FALSE, !.saved = TRUE,
                                  !.timers = @ + 1, !.kept = Head(settings.sent)]
            ELSE [settings EXCEPT !.sent = Tail(@), !.failed = TRUE]

BannerTimerFires ==
    /\ settings.timers > 0
    /\ settings' = [settings EXCEPT !.timers = @ - 1, !.saved = FALSE]

SettingsActs ==
    \/ \E n \in Name : Edit(n) \/ UserChanges(n)
    \/ ToggleSwitch \/ handleSave

SettingsNext == SettingsActs \/ SaveAnswered \/ BannerTimerFires

-----------------------------------------------------------------------------
(* Properties *)

FormsTypeOK == LoginTypeOK /\ ReportsTypeOK /\ SettingsTypeOK

\* However the user switches between signing in, registering and the demo
\* accounts, which all stay enabled, one request is under way at a time, and the
\* form says so exactly while it is (login/page.tsx:40-64).
OneSubmission ==
    /\ Len(login.sent) <= 1
    /\ login.loading <=> login.sent # <<>>

\* A code, which may still be the one typed for another person, leaves the browser
\* only with a sign-in, and only after the service has asked for one.
CodeIsAskedFor ==
    \A i \in DOMAIN login.sent :
        login.sent[i].code # None => login.asked /\ ~login.sent[i].register

\* However often the one slot is taken over, the list of generated reports (and
\* "Generated Today") has one entry for each generation that ended, and a download
\* is of one of them.
GeneratedIsReal ==
    /\ \A r \in Report :
          Cardinality({i \in DOMAIN reports.generated : reports.generated[i] = r}) =
          Cardinality({n \in DOMAIN reports.jobs :
                          reports.jobs[n].report = r /\ reports.jobs[n].pc = "ok"})
    /\ reports.file # None => reports.file.report \in ToSet(reports.generated)

\* "Settings saved successfully" is shown only after a save that was answered, and
\* while a timer will take it down.
BannerIsEarned == settings.saved => settings.kept # None /\ settings.timers > 0

\* What the three forms send and say is what the user entered and was answered.
FormsTellTheTruth == OneSubmission /\ CodeIsAskedFor /\ GeneratedIsReal /\ BannerIsEarned

\* The buttons that say they are working come back: the sign-in form always, the
\* other two unless a request failed; the banner goes.
FormsComeBack ==
    /\ login.loading ~> ~login.loading
    /\ (reports.generating # None) ~>
          (reports.generating = None
              \/ \E n \in DOMAIN reports.jobs : reports.jobs[n].pc = "failed")
    /\ settings.saving ~> (~settings.saving \/ settings.failed)
    /\ settings.saved ~> ~settings.saved
=============================================================================
