------------------------------ MODULE WebPages ------------------------------
(***************************************************************************)
(* A visit to the web app, one screen of it at a time: the frame, a form,  *)
(* a dashboard or the map.  The screens share no state but the session and *)
(* the deployment, so a behaviour follows one of them; the others stay as  *)
(* they are mounted.                                                       *)
(***************************************************************************)
EXTENDS AppShell, WebForms, Dashboards, TelemetryMap

VARIABLE screen   \* the screen that is followed

pageVars == <<screen, live, shell, login, reports, settings, board, telemetry>>

Screens == {"shell", "login", "reports", "settings", "board", "map"}

Init ==
    /\ screen \in Screens
    /\ live \in BOOLEAN
    /\ ShellInit /\ LoginInit /\ ReportsInit /\ SettingsInit /\ BoardInit
    /\ TelemetryInit
    /\ screen # "login"    => login = LoginMounted(CHOOSE p \in Person : TRUE)
    /\ screen # "settings" => settings.user = CHOOSE n \in Name : TRUE
    /\ screen # "board"    => board.role = "CONSUMER"

Next ==
    /\ \/ /\ screen = "shell" /\ ShellNext
          /\ UNCHANGED <<login, reports, settings, board, telemetry>>
       \/ /\ screen = "login" /\ LoginNext
          /\ UNCHANGED <<shell, reports, settings, board, telemetry>>
       \/ /\ screen = "reports" /\ ReportsNext
          /\ UNCHANGED <<shell, login, settings, board, telemetry>>
       \/ /\ screen = "settings" /\ SettingsNext
          /\ UNCHANGED <<shell, login, reports, board, telemetry>>
       \/ /\ screen = "board" /\ BoardNext
          /\ UNCHANGED <<shell, login, reports, settings, telemetry>>
       \/ /\ screen = "map" /\ TelemetryNext
          /\ UNCHANGED <<shell, login, reports, settings, board>>
    /\ UNCHANGED <<screen, live>>

Spec == Init /\ [][Next]_pageVars

-----------------------------------------------------------------------------
(* Fairness: a request of the browser ends, with an answer or an error, and a *)
(* timer fires; nobody has to click.                                          *)

Follow(name, step) == screen = name /\ step /\ UNCHANGED <<screen, live>>

Fairness ==
    /\ WF_pageVars(Follow("shell", Answer) /\ UNCHANGED <<login, reports, settings,
                                                         board, telemetry>>)
    /\ WF_pageVars(Follow("login", SubmitAnswered)
                      /\ UNCHANGED <<shell, reports, settings, board, telemetry>>)
    /\ WF_pageVars(Follow("reports", \E n \in DOMAIN reports.jobs :
                                        GenerateAnswered(n) \/ GenerateEnds(n))
                      /\ UNCHANGED <<shell, login, settings, board, telemetry>>)
    /\ WF_pageVars(Follow("settings", SaveAnswered)
                      /\ UNCHANGED <<shell, login, reports, board, telemetry>>)
    /\ WF_pageVars(Follow("settings", BannerTimerFires)
                      /\ UNCHANGED <<shell, login, reports, board, telemetry>>)
    /\ WF_pageVars(Follow("board", \E p \in Part : PartAnswered(p) \/ PartFailed(p))
                      /\ UNCHANGED <<shell, login, reports, settings, telemetry>>)

FairSpec == Spec /\ Fairness

-----------------------------------------------------------------------------
(* Properties *)

\* The state of every screen stays within its type.
PagesTypeOK == ShellTypeOK /\ FormsTypeOK /\ BoardTypeOK /\ MapTypeOK

\* What a page does of its own, a spinner, a button at work, a banner, a view that
\* loads, the pulse of the map, comes back to rest or goes round.
PagesComeBack == SearchEnds /\ FormsComeBack /\ DashboardLoads /\ PulseComesBack
=============================================================================
