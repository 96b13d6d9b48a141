-------------------------------- MODULE Roles --------------------------------
(***************************************************************************)
(* The role manifest of the web app (roles.config.ts) and what is derived  *)
(* from it: permissions.ts, the sidebar, RequireCapability, the choice of  *)
(* the dashboard and the profile page.                                     *)
(*                                                                         *)
(* A stored role is a string.  Case is left out: a string stands for its   *)
(* upper-case form, which is what every reader takes first.                *)
(***************************************************************************)

UserRole == {"SUPERADMIN", "COMPANY", "AUDITOR", "FARMER", "LOGISTICS",
             "RETAILER", "GOVERNMENT", "CONSUMER", "USER"}

\* What a session may hold as its role: the legacy value, a typing error, nothing.
RawRole == UserRole \cup {"ADMIN", "TYPO_ROLE", ""}

Everyone == {"nav.dashboard", "nav.shipments", "nav.alerts"}

Business == Everyone \cup
    {"nav.escrow", "nav.audits", "nav.analytics", "nav.reports",
     "shipment.create", "shipment.handoff", "audit.request", "escrow.settle",
     "alert.acknowledge", "analytics.view", "reports.view"}

Capability == Business \cup
    {"audit.verify", "alert.issue", "inventory.accept", "inventory.recordSale",
     "consumer.scanQR", "consumer.viewSourcing", "gov.exportReports"}

capabilities ==
    [SUPERADMIN |-> Capability,
     COMPANY    |-> Business,
     FARMER     |-> Everyone \cup {"shipment.create", "audit.request"},
     LOGISTICS  |-> Everyone \cup {"shipment.handoff"},
     AUDITOR    |-> Everyone \cup {"nav.audits", "nav.reports", "audit.verify",
                                   "reports.view"},
     CONSUMER   |-> {"nav.dashboard", "consumer.scanQR", "consumer.viewSourcing"},
     RETAILER   |-> Everyone \cup {"inventory.accept", "inventory.recordSale"},
     GOVERNMENT |-> Everyone \cup {"nav.audits", "nav.analytics", "nav.reports",
                                   "alert.issue", "gov.exportReports",
                                   "analytics.view", "reports.view"},
     USER       |-> Everyone]

\* Faulty: the sidebar of a farmer, a carrier and a retailer links to the audits.
navItemsWide ==
    LET common == {"/", "/shipments", "/alerts", "/audits"}
        all    == common \cup {"/crypto", "/analytics", "/reports"}
    IN  [r \in UserRole |-> IF r \in {"SUPERADMIN", "COMPANY"} THEN all
                            ELSE IF r = "CONSUMER" THEN {"/"} ELSE common]

\* The links of the sidebar, by path.
navItems ==
    LET common == {"/", "/shipments", "/alerts"}
        all    == common \cup {"/crypto", "/audits", "/analytics", "/reports"}
    IN  [SUPERADMIN |-> all,
         COMPANY    |-> all,
         FARMER     |-> common,
         LOGISTICS  |-> common,
         AUDITOR    |-> common \cup {"/audits", "/reports"},
         CONSUMER   |-> {"/"},
         RETAILER   |-> common,
         GOVERNMENT |-> common \cup {"/audits", "/analytics", "/reports"},
         USER       |-> common]

\* The capability a page wraps its content in; the dashboard has no gate.
pageGate == [p \in {"/shipments", "/alerts", "/crypto", "/audits", "/analytics",
                    "/reports"} |->
    CASE p = "/shipments" -> "nav.shipments"
      [] p = "/alerts"    -> "nav.alerts"
      [] p = "/crypto"    -> "nav.escrow"
      [] p = "/audits"    -> "nav.audits"
      [] p = "/analytics" -> "nav.analytics"
      [] OTHER            -> "nav.reports"]

-----------------------------------------------------------------------------
(* permissions.ts *)

normalizeRole(role) ==
    CASE role = "ADMIN"      -> "SUPERADMIN"
      [] role \in UserRole   -> role
      [] OTHER               -> "USER"

can(role, capability) == capability \in capabilities[normalizeRole(role)]

canAny(role, wanted) == \E c \in wanted : can(role, c)

\* RequireCapability: the children, or the access-denied panel.
MayOpen(role, page) == page \in DOMAIN pageGate => can(role, pageGate[page])

-----------------------------------------------------------------------------
(* What a role is shown *)

DashboardView(role) ==
    LET r == normalizeRole(role)
    IN  IF r \in {"FARMER", "LOGISTICS", "AUDITOR", "CONSUMER", "RETAILER",
                  "GOVERNMENT"}
        THEN r ELSE "ADMIN_VIEW"

\* The pages the buttons of each dashboard push, quick actions left out.
DashboardLinks(view) ==
    CASE view = "ADMIN_VIEW" -> {"/settings", "/analytics", "/audits", "/reports",
                                 "/shipments", "/alerts"}
      [] view = "AUDITOR"    -> {"/audits"}
      [] view = "GOVERNMENT" -> {"/reports", "/analytics"}
      [] view \in {"FARMER", "LOGISTICS", "RETAILER"} -> {"/shipments"}
      [] OTHER               -> {}

\* The links of the sidebar, which every page draws, denied or not: those of the
\* role, and the settings (the profile, as open to everybody, is left out).
SidebarLinks(role) == navItems[normalizeRole(role)] \cup {"/settings"}

\* Quick Execution of the AdminDashboard, filtered by can().
QuickActions(role) ==
    {a \in {"shipment.create", "escrow.settle", "audit.request"} : can(role, a)}

\* The profile page looks the stored role up as it is.
AuthLevel(role) ==
    CASE role = "SUPERADMIN"                           -> 4
      [] role \in {"COMPANY", "GOVERNMENT", "AUDITOR"}   -> 3
      [] role \in {"LOGISTICS", "FARMER", "RETAILER"}    -> 2
      [] OTHER                                         -> 1

\* Order matters in the source because two prefixes contain another one; an
\* account is represented by the longest known prefix of its address.
inferMockRole(prefix) ==
    CASE prefix \in {"superadmin", "admin"} -> "SUPERADMIN"
      [] prefix = "company"                 -> "COMPANY"
      [] prefix = "farmer"                  -> "FARMER"
      [] prefix = "logistics"               -> "LOGISTICS"
      [] prefix = "auditor"                 -> "AUDITOR"
      [] prefix = "retailer"                -> "RETAILER"
      [] prefix \in {"government", "gov"}   -> "GOVERNMENT"
      [] prefix = "consumer"                -> "CONSUMER"
      [] OTHER                              -> "USER"

-----------------------------------------------------------------------------
(* Properties *)

\* The sidebar links exactly the pages that the role may open.
SidebarOpens ==
    \A role \in RawRole :
        navItems[normalizeRole(role)] = {"/"} \cup {p \in DOMAIN pageGate : MayOpen(role, p)}

\* A dashboard of the role's own pushes pages the role may open.  The plain user has
\* none, falls through to the AdminDashboard, and is offered three pages that show
\* the access-denied panel instead of their content.
DeniedToUser == {"/analytics", "/audits", "/reports"}

ViewLinksOpen ==
    \A role \in RawRole :
        {p \in DashboardLinks(DashboardView(role)) : ~MayOpen(role, p)} =
            IF normalizeRole(role) = "USER" THEN DeniedToUser ELSE {}
=============================================================================
