----------------------------- MODULE Dashboards -----------------------------
(***************************************************************************)
(* The page "/": DashboardFactory chooses one of seven views by the role   *)
(* of the user, each view loads what it shows with one Promise.all, and    *)
(* offers actions of its role.                                             *)
(*                                                                         *)
(* The role is that of the snapshot of the user, which another tab may     *)
(* change while the page is open.  A view whose button pushes another page *)
(* is left; a call under way goes on, and what it pushes at its end is     *)
(* pushed wherever the user is by then.                                    *)
(***************************************************************************)
EXTENDS Naturals, Sequences, SequencesExt, Roles, Screen

CONSTANT MaxCalls   \* bound: calls made from the page

ASSUME BoardAssumption == MaxCalls \in Nat \ {0}

VARIABLE board   \* the page

-----------------------------------------------------------------------------

Part == {"shipments", "alerts", "audits", "stats"}

\* What the Promise.all of a view waits for.
Needs(view) ==
    CASE view = "ADMIN_VIEW"                          -> {"shipments", "alerts", "stats"}
      [] view \in {"FARMER", "LOGISTICS", "RETAILER"} -> {"shipments", "stats"}
      [] view = "AUDITOR"                             -> {"audits", "stats"}
      [] OTHER                                        -> {"stats"}

\* The actions of a view that call the API or push a page.  (What the others do is
\* alert(); the lookup of the consumer shows a sample.)
CapabilityOf ==
    [initiate |-> "shipment.create", escrow |-> "nav.escrow",
     audit    |-> "audit.request",   harvest |-> "shipment.create",
     asset    |-> "shipment.create", inspect |-> "nav.audits",
     export   |-> "gov.exportReports"]

ActionName == DOMAIN CapabilityOf

\* Faulty: the quick actions of the AdminDashboard are not filtered.
OfferedUnfiltered(role) ==
    CASE DashboardView(role) = "ADMIN_VIEW" -> {"initiate", "escrow", "audit"}
      [] DashboardView(role) = "FARMER"     -> {"harvest", "asset", "audit"}
      [] DashboardView(role) = "AUDITOR"    -> {"inspect"}
      [] DashboardView(role) = "GOVERNMENT" -> {"export"}
      [] OTHER                              -> {}

Offered(role) ==
    CASE DashboardView(role) = "ADMIN_VIEW" ->
           {a \in {"initiate", "escrow", "audit"} :
               CASE a = "initiate" -> "shipment.create" \in QuickActions(role)
                 [] a = "escrow"   -> "escrow.settle" \in QuickActions(role)
                 [] OTHER          -> "audit.request" \in QuickActions(role)}
      [] DashboardView(role) = "FARMER"     -> {"harvest", "asset", "audit"}
      [] DashboardView(role) = "AUDITOR"    -> {"inspect"}
      [] DashboardView(role) = "GOVERNMENT" -> {"export"}
      [] OTHER                              -> {}

\* An action that pushes a page, at once or when its call was answered.
Pushes == [escrow |-> "/crypto", inspect |-> "/audits", export |-> "/reports"]

CallRecord == [action : ActionName, role : RawRole,
               pc : {"sent", "ok", "told", "silent"}]

\* got are the answers the Promise.all holds, shown what the view was given at its
\* end; empty says that the list of shipments it was given has no shipment.
BoardTypeOK ==
    board \in [role : RawRole, path : DOMAIN pageGate \cup {"/", "/settings"},
               sent : SUBSET Part, got : SUBSET Part, shown : SUBSET Part,
               rejected : BOOLEAN, loading : BOOLEAN, empty : BOOLEAN,
               stats : {None, "ok", "error"}, calls : Seq(CallRecord)]

\* The effect of the view at its mount.  The consumer's view has no loading.
Mount(role, calls) ==
    [role |-> role, path |-> "/", sent |-> Needs(DashboardView(role)), got |-> {},
     shown |-> {}, rejected |-> FALSE,
     loading |-> DashboardView(role) # "CONSUMER", empty |-> TRUE,
     stats |-> None, calls |-> calls]

\* On another page: the view is gone, with what it had loaded and asked for.
Left(b, path) ==
    [b EXCEPT !.path = path, !.sent = {}, !.got = {}, !.shown = {}, !.loading = FALSE,
              !.stats = None]

BoardInit == \E role \in RawRole : board = Mount(role, <<>>)

\* fetchStats may resolve to the body of an error.  The farmer's view writes what it
\* finds there into its text; the others call methods of numbers that are not there,
\* and the rendering throws.
Throws ==
    /\ "stats" \in board.shown /\ board.stats = "error"
    /\ DashboardView(board.role) # "FARMER"

Alive == board.path = "/" /\ ~Throws

-----------------------------------------------------------------------------
(* Loading *)

\* Faulty: each answer is shown when it comes.
PartAnsweredEach(p) ==
    /\ p \in board.sent
    /\ \/ board' = [board EXCEPT !.sent = @ \ {p}, !.shown = @ \cup {p},
                                 !.stats = IF p = "stats" THEN "ok" ELSE @,
                                 !.loading = @ /\ board.sent # {p}]
       \/ board' = [board EXCEPT !.sent = @ \ {p}, !.loading = FALSE,
                                 !.rejected = TRUE]

\* The last answer ends the Promise.all, and everything is shown in one step.
PartAnswered(p) ==
    LET got  == board.got \cup {p}
        ends == got = Needs(DashboardView(board.role)) /\ ~board.rejected
    IN  /\ p \in board.sent
        /\ \E answer \in (IF p = "stats" THEN StatsFetched ELSE Fetched) \ {"failed"},
              empty \in IF ends /\ "shipments" \in got THEN BOOLEAN ELSE {board.empty} :
             board' = [board EXCEPT !.sent = @ \ {p}, !.got = got,
                                    !.stats = IF p = "stats" THEN answer ELSE @,
                                    !.shown = IF ends THEN got ELSE @,
                                    !.loading = @ /\ ~ends, !.empty = empty]

\* Faulty: loading is reset at the end of the try.
PartFailedInTry(p) ==
    /\ p \in board.sent
    /\ board' = [board EXCEPT !.sent = @ \ {p}, !.rejected = TRUE]

\* The first failure rejects the Promise.all, and what was answered is dropped.
PartFailed(p) ==
    /\ p \in board.sent
    /\ board' = [board EXCEPT !.sent = @ \ {p}, !.rejected = TRUE, !.loading = FALSE]

-----------------------------------------------------------------------------
(* Acting *)

\* The audit is requested for the first shipment, if there is one.
Click(a) ==
    /\ Alive /\ a \in Offered(board.role)
    /\ IF a \in {"escrow", "inspect"}
       THEN board' = Left(board, Pushes[a])
       ELSE /\ a = "audit" => ~board.empty
            /\ Len(board.calls) < MaxCalls
            /\ board' = [board EXCEPT !.calls =
                  Append(@, [action |-> a, role |-> board.role, pc |-> "sent"])]

\* Neither handleRequestAudit has a try: its failure reaches nobody.  The export
\* pushes the reports page when it was answered.
CallAnswered(n) ==
    /\ n \in DOMAIN board.calls /\ board.calls[n].pc = "sent"
    /\ \E answer \in Done :
         LET a    == board.calls[n].action
             pc   == IF answer = "ok" THEN "ok" ELSE IF a = "audit" THEN "silent" ELSE "told"
             next == [board EXCEPT !.calls[n].pc = pc]
         IN  board' = IF answer = "ok" /\ a = "export" THEN Left(next, Pushes[a]) ELSE next

\* The other buttons of the view push a page.
Link(path) ==
    /\ Alive /\ path \in DashboardLinks(DashboardView(board.role))
    /\ board' = Left(board, path)

\* The sidebar leads from page to page, and to "/", which mounts the view again.
Sidebar(path) ==
    /\ board.path = "/" => Alive
    /\ path \in SidebarLinks(board.role) \ {board.path}
    /\ board' = IF path = "/" THEN Mount(board.role, board.calls) ELSE Left(board, path)

\* Another tab changes the user.  A role with another view mounts that view; the
\* AdminDashboard stays for the roles it serves.
RoleChanges(role) ==
    /\ role # board.role
    /\ board' = IF board.path # "/" \/ DashboardView(role) = DashboardView(board.role)
                THEN [board EXCEPT !.role = role]
                ELSE Mount(role, board.calls)

-----------------------------------------------------------------------------

BoardActs ==
    \/ \E a \in ActionName : Click(a)
    \/ \E path \in DOMAIN pageGate \cup {"/", "/settings"} : Link(path) \/ Sidebar(path)
    \/ \E role \in RawRole : RoleChanges(role)

BoardNext ==
    \/ BoardActs
    \/ \E p \in Part : PartAnswered(p) \/ PartFailed(p)
    \/ \E n \in DOMAIN board.calls : CallAnswered(n)

-----------------------------------------------------------------------------
(* Properties *)

\* A view shows all it has asked for or nothing, in whatever order the answers
\* come and whichever of them fails: never the statistics of one answer beside the
\* empty list of another, "No recent activity found." while the list is on its way.
ShownIsComplete ==
    /\ board.shown \in {{}, Needs(DashboardView(board.role))}
    /\ board.shown # {} => ~board.loading /\ board.sent = {}

\* The plain user follows a link of the AdminDashboard it falls through to.
PlainUserLink ==
    normalizeRole(board.role) = "USER" /\ board.path = "/" /\ board'.path \in DeniedToUser

\* An export is answered after another tab changed the role it was asked under.
LateExport ==
    \E n \in DOMAIN board.calls :
        /\ board.calls[n].action = "export" /\ board.calls[n].role # board.role
        /\ board.calls[n].pc = "sent" /\ board'.calls[n].pc = "ok"

\* Four tables kept by hand, the buttons and links of the views, the sidebar and the
\* gates, against a role that another tab changes while the page is open.  A call that
\* leaves the browser was granted to the role of that moment, and no click or answer
\* takes a user to a page that turns the role away, except in two cases the code has:
\* the three links of the AdminDashboard that a plain user is shown, and the export
\* that pushes /reports for whoever the user is by the time it is answered.
CallsAreGranted ==
    [][/\ \A n \in DOMAIN board'.calls \ DOMAIN board.calls :
             can(board.role, CapabilityOf[board'.calls[n].action])
       /\ board'.path # board.path /\ ~MayOpen(board'.role, board'.path)
             => PlainUserLink \/ LateExport]_board

\* A view does not stay on "Loading", whichever of its requests fail: unless other
\* tabs change the role for ever, and so mount one view after another.
DashboardLoads ==
    <>[][board'.role = board.role]_board => (board.loading ~> ~board.loading)
=============================================================================
