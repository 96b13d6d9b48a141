------------------------------ MODULE AppShell ------------------------------
(***************************************************************************)
(* DashboardLayout, the frame around every page but the sign-in and the    *)
(* sign-out page: the search box with its timer, its requests and the      *)
(* panel of results, the drawer of the sidebar on a narrow screen, and the *)
(* two menus of the title bar.                                             *)
(*                                                                         *)
(* Each page mounts a frame of its own, so going to another page starts    *)
(* afresh; the answers to what the old frame asked for change nothing.  A  *)
(* push to the page one is on (with another ?id=) keeps the frame.         *)
(*                                                                         *)
(* A text shorter than two characters is None.  What a search finds is     *)
(* abstracted to the text it was for: searchEntities answers a request     *)
(* that fails with empty lists.                                            *)
(***************************************************************************)
EXTENDS Naturals, Sequences, SequencesExt, Screen

CONSTANTS
    Query,       \* texts of two characters or more
    MaxSearches  \* bound: searches under way at a time

ASSUME ShellAssumption == None \notin Query /\ MaxSearches \in Nat \ {0}

VARIABLE shell   \* the frame, and the page it is around

-----------------------------------------------------------------------------

\* The pages the frame leads to, and one without a frame.
Path == {"/shipments", "/alerts", "/audits", "/profile", "/logout"}

Framed(path) == path # "/logout"

\* locked is document.body.style.overflow; late remembers that the last answer was
\* to another text than the box held.
ShellTypeOK ==
    shell \in [path : Path, query : Query \cup {None}, timer : BOOLEAN,
               searches : Seq(Query), results : Query \cup {None},
               isSearching : BOOLEAN, showResults : BOOLEAN, drawer : BOOLEAN,
               locked : BOOLEAN, showTime : BOOLEAN, showFilter : BOOLEAN,
               late : BOOLEAN]

\* The state of a frame at its mount: the search effect has set its timer.
Mounted(path) ==
    [path |-> path, query |-> None, timer |-> TRUE, searches |-> <<>>,
     results |-> None, isSearching |-> FALSE, showResults |-> FALSE,
     drawer |-> FALSE, locked |-> FALSE, showTime |-> FALSE, showFilter |-> FALSE,
     late |-> FALSE]

ShellInit == shell = Mounted("/shipments")

-----------------------------------------------------------------------------
(* The search box *)

\* Each keystroke clears the timer of the one before and sets its own.  It does
\* not take back the requests under way.
Type(q) ==
    /\ q # shell.query
    /\ shell' = [shell EXCEPT !.query = q, !.timer = TRUE]

\* Faulty: a text that is too short only hides the panel.
TimerFiresKeepsResults ==
    /\ shell.timer
    /\ IF shell.query # None
       THEN /\ Len(shell.searches) < MaxSearches
            /\ shell' = [shell EXCEPT !.timer = FALSE, !.isSearching = TRUE,
                                      !.searches = Append(@, shell.query)]
       ELSE shell' = [shell EXCEPT !.timer = FALSE, !.late = FALSE]

TimerFires ==
    /\ shell.timer
    /\ IF shell.query # None
       THEN /\ Len(shell.searches) < MaxSearches
            /\ shell' = [shell EXCEPT !.timer = FALSE, !.isSearching = TRUE,
                                      !.searches = Append(@, shell.query)]
       ELSE shell' = [shell EXCEPT !.timer = FALSE, !.results = None,
                                   !.showResults = FALSE, !.late = FALSE]

\* Faulty: only a search that finds something stops the spinner.
SearchAnsweredNoFinally(n) ==
    /\ n \in DOMAIN shell.searches
    /\ \E found \in BOOLEAN :
         shell' = [shell EXCEPT !.searches = RemoveAt(@, n),
                                !.results = shell.searches[n],
                                !.showResults = TRUE,
                                !.isSearching = IF found THEN FALSE ELSE @,
                                !.late = shell.searches[n] # shell.query]

\* An answer opens the panel, whatever the box holds by then.
SearchAnswered(n) ==
    /\ n \in DOMAIN shell.searches
    /\ shell' = [shell EXCEPT !.searches = RemoveAt(@, n),
                              !.results = shell.searches[n],
                              !.showResults = TRUE,
                              !.isSearching = FALSE,
                              !.late = shell.searches[n] # shell.query]

Focus ==
    /\ shell.query # None
    /\ shell' = [shell EXCEPT !.showResults = TRUE]

ClickOutside == shell' = [shell EXCEPT !.showResults = FALSE]

\* The panel is there when there is something to show.
Panel == shell.showResults /\ shell.results # None

-----------------------------------------------------------------------------
(* Going to another page *)

\* Faulty: the effect of the drawer has no cleanup.
GoKeepsLock(path) ==
    shell' = IF path = shell.path THEN shell
             ELSE IF Framed(path) THEN Mounted(path)
             ELSE [Mounted(path) EXCEPT !.timer = FALSE, !.locked = shell.locked]

\* router.push, or the button of the browser.  Unmounting clears the timer and
\* unlocks the body.
Go(path) ==
    shell' = IF path = shell.path THEN shell
             ELSE IF Framed(path) THEN Mounted(path)
             ELSE [Mounted(path) EXCEPT !.timer = FALSE]

Leave(path) == Framed(shell.path) /\ Go(path)

Return == ~Framed(shell.path) /\ Go("/shipments")

\* A result is clicked: the panel closes, in the frame that stays if it stays.
Pick(path) ==
    /\ Panel
    /\ shell' = IF path = shell.path THEN [shell EXCEPT !.showResults = FALSE]
                ELSE Mounted(path)

-----------------------------------------------------------------------------
(* The drawer and the menus *)

\* The body is locked while the drawer is open.
SetDrawer(open) ==
    /\ Framed(shell.path) /\ shell.drawer # open
    /\ shell' = [shell EXCEPT !.drawer = open, !.locked = open]

\* Opening one menu closes the other; choosing in one closes it.
ToggleTime ==
    /\ Framed(shell.path)
    /\ shell' = [shell EXCEPT !.showTime = ~@, !.showFilter = FALSE]

ToggleFilter ==
    /\ Framed(shell.path)
    /\ shell' = [shell EXCEPT !.showFilter = ~@, !.showTime = FALSE]

Choose ==
    \/ shell.showTime /\ shell' = [shell EXCEPT !.showTime = FALSE]
    \/ shell.showFilter /\ shell' = [shell EXCEPT !.showFilter = FALSE]

-----------------------------------------------------------------------------

Answer == \E n \in DOMAIN shell.searches : SearchAnswered(n)

ShellNext ==
    \/ Framed(shell.path) /\ (\/ \E q \in Query \cup {None} : Type(q)
                              \/ TimerFires \/ Answer \/ Focus \/ ClickOutside)
    \/ \E path \in {"/shipments", "/alerts", "/audits"} : Pick(path)
    \/ \E path \in Path : Leave(path)
    \/ Return
    \/ \E open \in BOOLEAN : SetDrawer(open)
    \/ ToggleTime \/ ToggleFilter \/ Choose

-----------------------------------------------------------------------------
(* Properties *)

\* The panel shows results for another text than the box holds only until the
\* next answer or the next timer, or because an answer came after the text changed.
PanelIsHonest ==
    Panel /\ shell.results # shell.query =>
        shell.timer \/ shell.searches # <<>> \/ shell.late

\* The body scrolls again when the drawer is gone, on whatever page.
ScrollFollowsDrawer == shell.locked = (Framed(shell.path) /\ shell.drawer)

\* The frame shows what belongs to the page it is around.
FrameIsHonest == PanelIsHonest /\ ScrollFollowsDrawer

\* The spinner of the search box stops.
SearchEnds == shell.isSearching ~> ~shell.isSearching
=============================================================================
