---------------------------- MODULE WebPagesProofs ----------------------------
(***************************************************************************)
(* Proofs about the screens of the web app, for every set of texts,        *)
(* people, reports, names and shipments and every bound.                   *)
(***************************************************************************)
EXTENDS WebPages, FiniteSetTheorems, SequenceTheorems, TLAPS

-----------------------------------------------------------------------------
(* Sequences *)

LEMMA Emptied == ASSUME NEW S PROVE \E s \in Seq(S) : s = <<>> /\ DOMAIN s = {}
<1>1. <<>> \in Seq(S) /\ Len(<<>>) = 0
  BY EmptySeq
<1>2. DOMAIN <<>> = 1 .. Len(<<>>)
  BY <1>1, LenProperties
<1>3. PICK s \in Seq(S) : s = <<>>
  BY <1>1
<1>4. DOMAIN s = {}
  <2>1. 1 .. 0 = {}
    OBVIOUS
  <2>2. QED
    BY <1>1, <1>2, <1>3, <2>1, Zenon
<1>5. QED
  BY <1>3, <1>4, Zenon

\* What is appended comes after what was there.
LEMMA Appended ==
    ASSUME NEW S, NEW s \in Seq(S), NEW e \in S, NEW t, t = Append(s, e)
    PROVE  /\ t \in Seq(S)
           /\ t[Len(s) + 1] = e
           /\ DOMAIN t = DOMAIN s \cup {Len(s) + 1}
           /\ Len(s) + 1 \notin DOMAIN s
           /\ \A i \in DOMAIN s : t[i] = s[i]
  OBVIOUS

\* What is left when the only element is taken.
LEMMA LastTaken ==
    ASSUME NEW S, NEW s \in Seq(S), s # <<>>, Len(s) <= 1, NEW t, t = Tail(s)
    PROVE  Head(s) \in S /\ t \in Seq(S) /\ Len(t) = 0 /\ t = <<>> /\ DOMAIN t = {}
<1>1. Head(s) \in S /\ t \in Seq(S) /\ Len(t) = Len(s) - 1 /\ Len(s) \in Nat
  BY HeadTailProperties, LenProperties
<1>2. Len(s) # 0
  BY EmptySeq
<1>3. Len(t) = 0
  BY <1>1, <1>2
<1>4. t = <<>>
  BY <1>1, <1>3, EmptySeq
<1>5. DOMAIN t = {}
  BY <1>4, Emptied
<1>6. QED
  BY <1>1, <1>3, <1>4, <1>5

\* A sequence in which one element is changed.
LEMMA Changed ==
    ASSUME NEW S, NEW s \in Seq(S), NEW n \in DOMAIN s, NEW e \in S,
           NEW t, t = [s EXCEPT ![n] = e]
    PROVE  /\ t \in Seq(S)
           /\ DOMAIN t = DOMAIN s
           /\ t[n] = e
           /\ \A i \in DOMAIN s : i # n => t[i] = s[i]
  OBVIOUS

-----------------------------------------------------------------------------
(* The roles *)

LEMMA RolesNormal ==
    /\ normalizeRole("ADMIN") = "SUPERADMIN"
    /\ \A role \in UserRole : normalizeRole(role) = role
    /\ normalizeRole("TYPO_ROLE") = "USER" /\ normalizeRole("") = "USER"
    /\ \A role \in RawRole : normalizeRole(role) \in UserRole
  BY DEF normalizeRole, RawRole, UserRole

LEMMA CapabilityTable ==
    /\ capabilities["SUPERADMIN"] = Capability /\ capabilities["COMPANY"] = Business
    /\ capabilities["FARMER"] = Everyone \cup {"shipment.create", "audit.request"}
    /\ capabilities["LOGISTICS"] = Everyone \cup {"shipment.handoff"}
    /\ capabilities["AUDITOR"] =
          Everyone \cup {"nav.audits", "nav.reports", "audit.verify", "reports.view"}
    /\ capabilities["CONSUMER"] =
          {"nav.dashboard", "consumer.scanQR", "consumer.viewSourcing"}
    /\ capabilities["RETAILER"] =
          Everyone \cup {"inventory.accept", "inventory.recordSale"}
    /\ capabilities["GOVERNMENT"] =
          Everyone \cup {"nav.audits", "nav.analytics", "nav.reports", "alert.issue",
                         "gov.exportReports", "analytics.view", "reports.view"}
    /\ capabilities["USER"] = Everyone
  BY DEF capabilities

LEMMA SidebarTable ==
    /\ navItems["SUPERADMIN"] = {"/", "/shipments", "/alerts", "/crypto", "/audits",
                                 "/analytics", "/reports"}
    /\ navItems["COMPANY"] = navItems["SUPERADMIN"]
    /\ navItems["FARMER"] = {"/", "/shipments", "/alerts"}
    /\ navItems["LOGISTICS"] = {"/", "/shipments", "/alerts"}
    /\ navItems["AUDITOR"] = {"/", "/shipments", "/alerts", "/audits", "/reports"}
    /\ navItems["CONSUMER"] = {"/"}
    /\ navItems["RETAILER"] = {"/", "/shipments", "/alerts"}
    /\ navItems["GOVERNMENT"] = {"/", "/shipments", "/alerts", "/audits", "/analytics",
                                 "/reports"}
    /\ navItems["USER"] = {"/", "/shipments", "/alerts"}
  BY DEF navItems

LEMMA GateTable ==
    /\ DOMAIN pageGate = {"/shipments", "/alerts", "/crypto", "/audits", "/analytics",
                          "/reports"}
    /\ pageGate["/shipments"] = "nav.shipments" /\ pageGate["/alerts"] = "nav.alerts"
    /\ pageGate["/crypto"] = "nav.escrow" /\ pageGate["/audits"] = "nav.audits"
    /\ pageGate["/analytics"] = "nav.analytics" /\ pageGate["/reports"] = "nav.reports"
  BY DEF pageGate

\* A page that has a gate opens when the capability of its gate was granted.
LEMMA SidebarMatchesGates ==
    ASSUME NEW n \in UserRole, NEW p \in DOMAIN pageGate
    PROVE  pageGate[p] \in capabilities[n] <=> p \in navItems[n]
  BY CapabilityTable, SidebarTable, GateTable
     DEF UserRole, Everyone, Business, Capability

LEMMA ViewLinks ==
    /\ DashboardLinks("ADMIN_VIEW") = {"/settings", "/analytics", "/audits", "/reports",
                                       "/shipments", "/alerts"}
    /\ DashboardLinks("AUDITOR") = {"/audits"}
    /\ DashboardLinks("GOVERNMENT") = {"/reports", "/analytics"}
    /\ DashboardLinks("FARMER") = {"/shipments"}
    /\ DashboardLinks("LOGISTICS") = {"/shipments"}
    /\ DashboardLinks("RETAILER") = {"/shipments"}
    /\ DashboardLinks("CONSUMER") = {}
  BY DEF DashboardLinks

\* The sidebar agrees with the gates for every role.
LEMMA SidebarIsOpen == SidebarOpens
<1> SUFFICES ASSUME NEW role \in RawRole
             PROVE  navItems[normalizeRole(role)] =
                          {"/"} \cup {p \in DOMAIN pageGate : MayOpen(role, p)}
  BY DEF SidebarOpens
<1>1. PICK n \in UserRole : n = normalizeRole(role)
  BY RolesNormal
<1>2. \A p \in DOMAIN pageGate : MayOpen(role, p) <=> p \in navItems[n]
  BY <1>1, SidebarMatchesGates DEF MayOpen, can
<1>3. /\ navItems[n] \subseteq {"/"} \cup DOMAIN pageGate /\ "/" \in navItems[n]
      /\ "/" \notin DOMAIN pageGate
  BY SidebarTable, GateTable DEF UserRole
<1>4. QED
  BY <1>1, <1>2, <1>3

\* So do the buttons of the views, but for those a plain user is shown.
LEMMA ViewLinksAreOpen == ViewLinksOpen
<1> SUFFICES ASSUME NEW role \in RawRole
             PROVE  {p \in DashboardLinks(DashboardView(role)) : ~MayOpen(role, p)} =
                          IF normalizeRole(role) = "USER" THEN DeniedToUser ELSE {}
  BY DEF ViewLinksOpen
<1>1. PICK n \in UserRole : n = normalizeRole(role)
  BY RolesNormal
<1>2. \A p : MayOpen(role, p) <=> (p \in navItems[n] \/ p \notin DOMAIN pageGate)
  BY <1>1, SidebarMatchesGates DEF MayOpen, can
<1>3. DashboardView(role) =
         IF n \in {"FARMER", "LOGISTICS", "AUDITOR", "CONSUMER", "RETAILER", "GOVERNMENT"}
         THEN n ELSE "ADMIN_VIEW"
  BY <1>1 DEF DashboardView
<1>4. n # "USER" => \A p \in DashboardLinks(DashboardView(role)) :
                       p \in navItems[n] \/ p \notin DOMAIN pageGate
  BY <1>3, ViewLinks, SidebarTable, GateTable DEF UserRole
<1>5. n = "USER" => \A p : /\ p \in DashboardLinks(DashboardView(role))
                             /\ p \notin navItems[n] /\ p \in DOMAIN pageGate
                             <=> p \in DeniedToUser
  BY <1>3, ViewLinks, SidebarTable, GateTable DEF DeniedToUser
<1>6. QED
  BY <1>1, <1>2, <1>4, <1>5

LEMMA ActionTable ==
    /\ ActionName = {"initiate", "escrow", "audit", "harvest", "asset", "inspect", "export"}
    /\ CapabilityOf["initiate"] = "shipment.create"
    /\ CapabilityOf["escrow"] = "nav.escrow" /\ CapabilityOf["audit"] = "audit.request"
    /\ CapabilityOf["harvest"] = "shipment.create"
    /\ CapabilityOf["asset"] = "shipment.create"
    /\ CapabilityOf["inspect"] = "nav.audits"
    /\ CapabilityOf["export"] = "gov.exportReports"
    /\ DOMAIN Pushes = {"escrow", "inspect", "export"}
    /\ Pushes["escrow"] = "/crypto" /\ Pushes["inspect"] = "/audits"
    /\ Pushes["export"] = "/reports"
  BY DEF ActionName, CapabilityOf, Pushes

\* What each view offers.
LEMMA OfferedTable ==
    ASSUME NEW role, NEW a \in Offered(role)
    PROVE  \/ /\ DashboardView(role) = "ADMIN_VIEW"
              /\ \/ a = "initiate" /\ can(role, "shipment.create")
                 \/ a = "escrow" /\ can(role, "escrow.settle")
                 \/ a = "audit" /\ can(role, "audit.request")
           \/ DashboardView(role) = "FARMER" /\ a \in {"harvest", "asset", "audit"}
           \/ DashboardView(role) = "AUDITOR" /\ a = "inspect"
           \/ DashboardView(role) = "GOVERNMENT" /\ a = "export"
  BY DEF Offered, QuickActions

\* A view offers an action only to a role that was granted it, and to which the
\* page it pushes is open.
LEMMA OffersGranted ==
    ASSUME NEW role \in RawRole, NEW a \in Offered(role)
    PROVE  /\ a \in ActionName
           /\ can(role, CapabilityOf[a])
           /\ a \in DOMAIN Pushes => MayOpen(role, Pushes[a])
<1>1. PICK n \in UserRole : n = normalizeRole(role)
  BY RolesNormal
<1>2. DashboardView(role) =
         IF n \in {"FARMER", "LOGISTICS", "AUDITOR", "CONSUMER", "RETAILER", "GOVERNMENT"}
         THEN n ELSE "ADMIN_VIEW"
  BY <1>1 DEF DashboardView
<1>3. can(role, "escrow.settle") => n \in {"SUPERADMIN", "COMPANY"}
  BY <1>1, CapabilityTable DEF can, UserRole, Everyone
<1>4. a \in ActionName
  BY OfferedTable, ActionTable
<1>5. can(role, CapabilityOf[a])
  BY <1>1, <1>2, <1>3, OfferedTable, ActionTable, CapabilityTable
     DEF can, UserRole, Business, Capability
<1>6. ASSUME a \in DOMAIN Pushes PROVE MayOpen(role, Pushes[a])
  BY <1>1, <1>2, <1>3, <1>6, OfferedTable, ActionTable, CapabilityTable, GateTable
     DEF MayOpen, can, UserRole, Business, Capability
<1>7. QED
  BY <1>4, <1>5, <1>6


-----------------------------------------------------------------------------
(* The map *)

MapInv == MapTypeOK /\ LayersAreFresh

\* A drawing depends on nothing that its effect does not list.
LEMMA DrawingsDepend ==
    ASSUME NEW r, NEW s,
           r.version = s.version => r.shipments = s.shipments
    PROVE  /\ Dependencies(r).heat = Dependencies(s).heat => DrawHeat(r) = DrawHeat(s)
           /\ Dependencies(r).region = Dependencies(s).region =>
                 DrawRegion(r) = DrawRegion(s)
           /\ Dependencies(r).routes = Dependencies(s).routes =>
                 DrawRoutes(r) = DrawRoutes(s)
           /\ Dependencies(r).tick = Dependencies(s).tick => DrawTick(r) = DrawTick(s)
           /\ Dependencies(r).pulse = Dependencies(s).pulse => DrawPulse(r) = DrawPulse(s)
<1>1. Dependencies(r).heat = Dependencies(s).heat => DrawHeat(r) = DrawHeat(s)
  BY DEF Dependencies, DrawHeat
<1>2. Dependencies(r).region = Dependencies(s).region => DrawRegion(r) = DrawRegion(s)
  BY DEF Dependencies, DrawRegion
<1>3. ASSUME r.version = s.version, SelectedObject(r) = SelectedObject(s)
      PROVE  r.shipments = s.shipments /\ Selected(r) = Selected(s)
  BY <1>3 DEF SelectedObject
<1>4. Dependencies(r).routes = Dependencies(s).routes => DrawRoutes(r) = DrawRoutes(s)
  BY <1>3 DEF Dependencies, DrawRoutes
<1>5. Dependencies(r).tick = Dependencies(s).tick => DrawTick(r) = DrawTick(s)
  BY <1>3 DEF Dependencies, DrawTick
<1>6. Dependencies(r).pulse = Dependencies(s).pulse => DrawPulse(r) = DrawPulse(s)
  BY <1>3 DEF Dependencies, DrawPulse
<1>7. QED
  BY <1>1, <1>2, <1>4, <1>5, <1>6

\* The interval never goes through more than Cycle shipments, nor past the list.
LEMMA TickRange ==
    ASSUME NEW r, r.shipments \in List
    PROVE  /\ DrawTick(r) \in 0 .. Cycle
           /\ DrawTick(r) <= Len(r.shipments) /\ Len(r.shipments) \in Nat
           /\ DOMAIN r.shipments = 1 .. Len(r.shipments)
<1>1. r.shipments \in Seq(Ship)
  BY MapAssumption
<1>2. r.shipments # <<>> => Len(r.shipments) > 0
  BY <1>1
<1>3. QED
  BY <1>1, <1>2, MapAssumption DEF DrawTick, Lesser

\* Whatever is rendered, the layers are those of the rendering, if the list is
\* another one only when its version is.
LEMMA RenderFresh ==
    ASSUME MapInv, NEW r \in Rendering, Render(r),
           r.version = telemetry.now.version => r.shipments = telemetry.now.shipments
    PROVE  MapInv' /\ telemetry'.now = r
<1> DEFINE now == telemetry.now
           layer == {"heat", "region", "routes", "tick", "pulse"}
<1>1. /\ telemetry'.now = r
      /\ telemetry'.layers = [l \in DOMAIN telemetry.layers |->
                                IF Dependencies(r)[l] = Dependencies(now)[l]
                                THEN telemetry.layers[l] ELSE Layers(r)[l]]
  BY DEF Render
<1>2. DOMAIN telemetry.layers = layer /\ telemetry.layers = Layers(now)
  BY DEF MapInv, MapTypeOK, LayersAreFresh
<1>3. /\ \A l \in layer : Dependencies(r)[l] = Dependencies(now)[l] =>
            Layers(r)[l] = Layers(now)[l]
      /\ DOMAIN Layers(r) = layer
  BY DrawingsDepend DEF Dependencies, Layers
<1>4. Layers(r) = [l \in layer |-> Layers(r)[l]]
  BY DEF Layers
<1>5. telemetry'.layers = Layers(r)
  BY <1>1, <1>2, <1>3, <1>4
<1>6. telemetry'.layers.tick \in 0 .. Cycle
  BY <1>5, TickRange DEF Layers, Rendering
<1>7. QED
  BY <1>1, <1>3, <1>5, <1>6 DEF MapInv, MapTypeOK, LayersAreFresh

LEMMA MapMounts == TelemetryInit => MapInv
<1> SUFFICES ASSUME TelemetryInit PROVE MapInv
  OBVIOUS
<1>1. telemetry.now = MapMounted /\ telemetry.layers = Layers(MapMounted)
  BY DEF TelemetryInit
<1>2. DrawTick(MapMounted) = 0
  BY DEF MapMounted, DrawTick
<1>3. MapMounted \in Rendering
  BY MapAssumption DEF MapMounted, Rendering
<1>4. Layers(MapMounted).tick \in 0 .. Cycle
  BY <1>2, MapAssumption DEF Layers
<1>5. DOMAIN Layers(MapMounted) = {"heat", "region", "routes", "tick", "pulse"}
  BY DEF Layers
<1>6. QED
  BY <1>1, <1>3, <1>4, <1>5 DEF MapInv, MapTypeOK, LayersAreFresh

LEMMA MapSteps == MapInv /\ TelemetryNext => MapInv'
<1> SUFFICES ASSUME MapInv, TelemetryNext PROVE MapInv'
  OBVIOUS
<1> DEFINE now == telemetry.now
<1>0. now \in Rendering
  BY DEF MapInv, MapTypeOK
<1>1. ASSUME NEW list \in List, NEW keep \in BOOLEAN, GiveShipments(list, keep)
      PROVE  MapInv'
  <2> DEFINE r == [now EXCEPT !.shipments = list, !.version = @ + 1,
                              !.selectedId = IF keep THEN @ ELSE None]
  <2>1. now.version \in Nat /\ now.version < MaxVersion
    BY <1>0, <1>1 DEF GiveShipments, Rendering
  <2>2. /\ r.version = now.version + 1 /\ r.version \in 0 .. MaxVersion
        /\ r.selectedId \in Ship \cup {None}
    BY <1>0, <2>1, MapAssumption DEF Rendering
  <2>3. r \in Rendering
    BY <1>0, <2>2 DEF Rendering
  <2>4. Render(r) /\ r.version # now.version
    BY <1>1, <2>1, <2>2 DEF GiveShipments
  <2> HIDE DEF r
  <2>5. QED
    BY <2>3, <2>4, RenderFresh
<1>2. ASSUME GiveStats PROVE MapInv'
  <2>1. [now EXCEPT !.stats = TRUE] \in Rendering
    BY <1>0 DEF Rendering
  <2>2. QED
    BY <1>0, <1>2, <2>1, RenderFresh DEF GiveStats, Rendering
<1>3. ASSUME NEW u \in Ship \cup {None}, Render([now EXCEPT !.selectedId = u])
      PROVE  MapInv'
  <2>1. [now EXCEPT !.selectedId = u] \in Rendering
    BY <1>0 DEF Rendering
  <2>2. QED
    BY <1>0, <1>3, <2>1, RenderFresh DEF Rendering
<1>4. ASSUME NEW s \in Ship, ClickRow(s) PROVE MapInv'
  <2>1. Render([now EXCEPT !.selectedId = IF now.selectedId = s THEN None ELSE s])
    BY <1>4 DEF ClickRow
  <2>2. QED
    BY <1>3, <2>1
<1>5. ASSUME CloseCard PROVE MapInv'
  BY <1>3, <1>5 DEF CloseCard
<1>6. ASSUME ToggleHeatmap PROVE MapInv'
  <2>1. [now EXCEPT !.showHeatmap = ~@] \in Rendering
    BY <1>0 DEF Rendering
  <2>2. QED
    BY <1>0, <1>6, <2>1, RenderFresh DEF ToggleHeatmap, Rendering
<1>7. ASSUME Tick PROVE MapInv'
  <2>1. telemetry.layers.tick \in 1 .. Cycle
    BY <1>7 DEF Tick, MapInv, MapTypeOK
  <2>2. (now.index + 1) % telemetry.layers.tick \in Nat
    BY <1>0, <2>1, MapAssumption DEF Rendering
  <2>3. [now EXCEPT !.index = (@ + 1) % telemetry.layers.tick] \in Rendering
    BY <1>0, <2>2 DEF Rendering
  <2>4. QED
    BY <1>0, <1>7, <2>3, RenderFresh DEF Tick, Rendering
<1>8. QED
  BY <1>1, <1>2, <1>4, <1>5, <1>6, <1>7 DEF TelemetryNext, TelemetryActs

\* The index moves only with the interval, and onto the list.
LEMMA IndexMoves ==
    ASSUME MapInv, TelemetryNext, telemetry'.now.index # telemetry.now.index
    PROVE  telemetry'.now.index + 1 \in DOMAIN telemetry'.now.shipments
<1> DEFINE now == telemetry.now
<1>1. now \in Rendering /\ telemetry.layers = Layers(now)
  BY DEF MapInv, MapTypeOK, LayersAreFresh
<1>2. Tick
  <2>1. ASSUME NEW list \in List, NEW keep \in BOOLEAN, GiveShipments(list, keep)
        PROVE  telemetry'.now.index = now.index
    BY <1>1, <2>1 DEF GiveShipments, Render, Rendering
  <2>2. GiveStats => telemetry'.now.index = now.index
    BY <1>1 DEF GiveStats, Render, Rendering
  <2>3. ASSUME NEW s \in Ship, ClickRow(s) PROVE telemetry'.now.index = now.index
    BY <1>1, <2>3 DEF ClickRow, Render, Rendering
  <2>4. CloseCard => telemetry'.now.index = now.index
    BY <1>1 DEF CloseCard, Render, Rendering
  <2>5. ToggleHeatmap => telemetry'.now.index = now.index
    BY <1>1 DEF ToggleHeatmap, Render, Rendering
  <2>6. QED
    BY <2>1, <2>2, <2>3, <2>4, <2>5 DEF TelemetryNext, TelemetryActs
<1>3. telemetry.layers.tick = DrawTick(now)
  BY <1>1 DEF Layers
<1>4. PICK n \in Nat : n = telemetry.layers.tick
  BY <1>1, <1>3, TickRange DEF Rendering
<1>5. n > 0 /\ n <= Len(now.shipments) /\ DOMAIN now.shipments = 1 .. Len(now.shipments)
      /\ Len(now.shipments) \in Nat
  BY <1>1, <1>2, <1>3, <1>4, TickRange DEF Tick, Rendering
<1>6. /\ telemetry'.now.index = (now.index + 1) % n
      /\ telemetry'.now.shipments = now.shipments
  BY <1>1, <1>2, <1>4 DEF Tick, Render, Rendering
<1>7. (now.index + 1) % n \in 0 .. n - 1
  BY <1>1, <1>4, <1>5 DEF Rendering
<1>8. QED
  BY <1>5, <1>6, <1>7


-----------------------------------------------------------------------------
(* The dashboards *)

\* What is awaited and what was answered are apart, and parts of what the view asks
\* for; a page that was left awaits nothing.
LoadingOK ==
    /\ board.sent \subseteq Needs(DashboardView(board.role)) \ board.got
    /\ board.path # "/" => board.sent = {} /\ board.got = {} /\ board.shown = {}

CallsGranted ==
    \A n \in DOMAIN board.calls :
        can(board.calls[n].role, CapabilityOf[board.calls[n].action])

BoardInv == BoardTypeOK /\ ShownIsComplete /\ LoadingOK /\ CallsGranted

LEMMA NeedsParts == ASSUME NEW view PROVE Needs(view) \subseteq Part
  BY DEF Needs, Part

LEMMA MountOK ==
    ASSUME NEW role \in RawRole, NEW calls \in Seq(CallRecord), board' = Mount(role, calls),
           \A n \in DOMAIN calls : can(calls[n].role, CapabilityOf[calls[n].action])
    PROVE  BoardInv'
<1>1. PICK needs \in SUBSET Part : needs = Needs(DashboardView(role))
  BY NeedsParts
<1>2. board' = [role |-> role, path |-> "/", sent |-> needs, got |-> {}, shown |-> {},
                rejected |-> FALSE, loading |-> DashboardView(role) # "CONSUMER",
                empty |-> TRUE, stats |-> None, calls |-> calls]
  BY <1>1 DEF Mount
<1>3. QED
  BY <1>1, <1>2
     DEF BoardInv, BoardTypeOK, ShownIsComplete, LoadingOK, CallsGranted

\* Leaving the page drops what it had loaded.
LEMMA LeftOK ==
    ASSUME BoardInv, NEW b, NEW calls \in Seq(CallRecord),
           NEW path \in DOMAIN pageGate \cup {"/settings"},
           b = [board EXCEPT !.calls = calls], board' = Left(b, path),
           \A n \in DOMAIN calls : can(calls[n].role, CapabilityOf[calls[n].action])
    PROVE  BoardInv'
<1>1. board' = [board EXCEPT !.path = path, !.sent = {}, !.got = {}, !.shown = {},
                             !.loading = FALSE, !.stats = None, !.calls = calls]
  BY DEF Left, BoardInv, BoardTypeOK
<1>2. QED
  BY <1>1 DEF BoardInv, BoardTypeOK, ShownIsComplete, LoadingOK, CallsGranted

\* A view loads.
LEMMA PartAnsweredOK ==
    ASSUME BoardInv, NEW p \in Part, PartAnswered(p)
    PROVE  BoardInv'
<1> DEFINE got  == board.got \cup {p}
           ends == got = Needs(DashboardView(board.role)) /\ ~board.rejected
<1>1. p \in board.sent
  BY DEF PartAnswered
<1>2. PICK answer \in (IF p = "stats" THEN StatsFetched ELSE Fetched) \ {"failed"},
           empty \in IF ends /\ "shipments" \in got THEN BOOLEAN ELSE {board.empty} :
             board' = [board EXCEPT !.sent = @ \ {p}, !.got = got,
                                    !.stats = IF p = "stats" THEN answer ELSE @,
                                    !.shown = IF ends THEN got ELSE @,
                                    !.loading = @ /\ ~ends, !.empty = empty]
  BY DEF PartAnswered
<1>3. empty \in BOOLEAN
  BY <1>2 DEF BoardInv, BoardTypeOK
<1>4. PICK stats \in {None, "ok", "error"} :
         stats = IF p = "stats" THEN answer ELSE board.stats
  BY <1>2 DEF BoardInv, BoardTypeOK, StatsFetched
<1>5. PICK shown \in SUBSET Part : shown = IF ends THEN got ELSE board.shown
  BY DEF BoardInv, BoardTypeOK
<1>6. PICK loading \in BOOLEAN : loading = (board.loading /\ ~ends)
  BY DEF BoardInv, BoardTypeOK
<1>7. board' = [board EXCEPT !.sent = @ \ {p}, !.got = got, !.stats = stats,
                             !.shown = shown, !.loading = loading, !.empty = empty]
  BY <1>2, <1>4, <1>5, <1>6 DEF BoardInv, BoardTypeOK
<1>8. BoardTypeOK'
  BY <1>3, <1>7 DEF BoardInv, BoardTypeOK
<1>9. /\ board'.role = board.role /\ board'.path = board.path
      /\ board'.calls = board.calls /\ board'.sent = board.sent \ {p}
      /\ board'.got = got /\ board'.shown = shown /\ board'.loading = loading
  BY <1>7 DEF BoardInv, BoardTypeOK
<1>10. board.shown = {} /\ board.path = "/"
  BY <1>1 DEF BoardInv, ShownIsComplete, LoadingOK
<1>11. LoadingOK'
  BY <1>9, <1>10 DEF BoardInv, LoadingOK
<1>12. ShownIsComplete'
  BY <1>5, <1>6, <1>9, <1>10 DEF BoardInv, LoadingOK, ShownIsComplete
<1>13. QED
  BY <1>8, <1>9, <1>11, <1>12 DEF BoardInv, CallsGranted

LEMMA PartFailedOK ==
    ASSUME BoardInv, NEW p \in Part, PartFailed(p)
    PROVE  BoardInv'
  BY DEF BoardInv, PartFailed, BoardTypeOK, ShownIsComplete, LoadingOK, CallsGranted

\* A call is made for a role that was granted it.
LEMMA ClickOK ==
    ASSUME BoardInv, NEW a \in ActionName, Click(a)
    PROVE  BoardInv'
<1>1. /\ board.role \in RawRole /\ board.calls \in Seq(CallRecord)
      /\ a \in Offered(board.role)
  BY DEF Click, BoardInv, BoardTypeOK
<1>2. CASE a \in {"escrow", "inspect"}
  <2>1. Pushes[a] \in DOMAIN pageGate
    BY <1>2, ActionTable, GateTable
  <2>2. board' = Left(board, Pushes[a]) /\ board = [board EXCEPT !.calls = board.calls]
    BY <1>2 DEF Click, BoardInv, BoardTypeOK
  <2>3. QED
    BY <1>1, <2>1, <2>2, LeftOK DEF BoardInv, CallsGranted
<1>3. CASE a \notin {"escrow", "inspect"}
  <2>1. PICK call \in CallRecord :
           call = [action |-> a, role |-> board.role, pc |-> "sent"]
    BY <1>1 DEF CallRecord
  <2>2. board' = [board EXCEPT !.calls = Append(@, call)]
    BY <1>3, <2>1 DEF Click
  <2>3. can(call.role, CapabilityOf[call.action])
    BY <1>1, <2>1, OffersGranted
  <2>4. PICK calls : calls = Append(board.calls, call)
    OBVIOUS
  <2>5. \A n \in DOMAIN calls :
           calls[n] = call \/ (n \in DOMAIN board.calls /\ calls[n] = board.calls[n])
    BY <1>1, <2>1, <2>4, Appended
  <2>6. \A n \in DOMAIN calls : can(calls[n].role, CapabilityOf[calls[n].action])
    <3> TAKE n \in DOMAIN calls
    <3>1. CASE calls[n] = call
      BY <2>3, <3>1
    <3>2. CASE n \in DOMAIN board.calls /\ calls[n] = board.calls[n]
      BY <3>2 DEF BoardInv, CallsGranted
    <3>3. QED
      BY <2>5, <3>1, <3>2
  <2>7. board' = [board EXCEPT !.calls = calls]
    BY <2>2, <2>4
  <2>8. calls \in Seq(CallRecord)
    BY <1>1, <2>1, <2>4, Appended
  <2>9. QED
    BY <2>6, <2>7, <2>8 DEF BoardInv, BoardTypeOK, ShownIsComplete, LoadingOK, CallsGranted
<1>4. QED
  BY <1>2, <1>3

LEMMA CallAnsweredOK ==
    ASSUME BoardInv, NEW n \in DOMAIN board.calls, CallAnswered(n)
    PROVE  BoardInv'
<1>1. board.calls \in Seq(CallRecord)
  BY DEF BoardInv, BoardTypeOK
<1>2. PICK pc \in {"ok", "told", "silent"} :
        LET next == [board EXCEPT !.calls[n].pc = pc]
        IN  board' = next \/ board' = Left(next, "/reports")
  BY ActionTable DEF CallAnswered
<1>3. PICK calls : calls = [board.calls EXCEPT ![n].pc = pc]
  OBVIOUS
<1>4. /\ calls \in Seq(CallRecord) /\ DOMAIN calls = DOMAIN board.calls
      /\ \A m \in DOMAIN board.calls :
            calls[m].role = board.calls[m].role /\ calls[m].action = board.calls[m].action
  <2>0. board.calls[n] \in CallRecord
    BY <1>1
  <2>1. PICK call \in CallRecord : call = [board.calls[n] EXCEPT !.pc = pc]
    BY <1>2, <2>0 DEF CallRecord
  <2>2. calls = [board.calls EXCEPT ![n] = call]
    BY <1>3, <2>1
  <2>3. call.role = board.calls[n].role /\ call.action = board.calls[n].action
    BY <2>0, <2>1 DEF CallRecord
  <2>4. QED
    BY <1>1, <2>1, <2>2, <2>3, Changed
<1>5. \A m \in DOMAIN calls : can(calls[m].role, CapabilityOf[calls[m].action])
  BY <1>4 DEF BoardInv, CallsGranted
<1>6. PICK next : next = [board EXCEPT !.calls = calls]
  OBVIOUS
<1>7. board' = next \/ board' = Left(next, "/reports")
  BY <1>2, <1>3, <1>6 DEF BoardInv, BoardTypeOK
<1>8. CASE board' = next
  BY <1>4, <1>5, <1>6, <1>8
     DEF BoardInv, BoardTypeOK, ShownIsComplete, LoadingOK, CallsGranted
<1>9. CASE board' = Left(next, "/reports")
  BY <1>4, <1>5, <1>6, <1>9, LeftOK, GateTable
<1>10. QED
  BY <1>7, <1>8, <1>9

\* No view links to the page it is on.
LEMMA LinksLeave ==
    ASSUME NEW view, NEW path \in DashboardLinks(view)
    PROVE  path \in DOMAIN pageGate \cup {"/settings"} /\ path # "/"
  BY GateTable DEF DashboardLinks

LEMMA LinkOK ==
    ASSUME BoardInv, NEW path, Link(path)
    PROVE  BoardInv'
<1>1. board' = Left(board, path) /\ board = [board EXCEPT !.calls = board.calls]
  BY DEF Link, BoardInv, BoardTypeOK
<1>2. path \in DOMAIN pageGate \cup {"/settings"}
  BY LinksLeave DEF Link
<1>3. QED
  BY <1>1, <1>2, LeftOK DEF BoardInv, BoardTypeOK, CallsGranted

LEMMA SidebarOK ==
    ASSUME BoardInv, NEW path \in DOMAIN pageGate \cup {"/", "/settings"}, Sidebar(path)
    PROVE  BoardInv'
<1>1. CASE path = "/"
  BY <1>1, MountOK DEF Sidebar, BoardInv, BoardTypeOK, CallsGranted
<1>2. CASE path # "/"
  <2>1. board' = Left(board, path) /\ board = [board EXCEPT !.calls = board.calls]
    BY <1>2 DEF Sidebar, BoardInv, BoardTypeOK
  <2>2. QED
    BY <1>2, <2>1, LeftOK DEF BoardInv, BoardTypeOK, CallsGranted
<1>3. QED
  BY <1>1, <1>2

\* A role with the same view finds what the view has loaded.
LEMMA RoleChangesOK ==
    ASSUME BoardInv, NEW role \in RawRole, RoleChanges(role)
    PROVE  BoardInv'
<1>1. CASE board.path # "/" \/ DashboardView(role) = DashboardView(board.role)
  <2>1. board' = [board EXCEPT !.role = role]
    BY <1>1 DEF RoleChanges
  <2>2. /\ board'.role = role /\ BoardTypeOK' /\ board'.path = board.path
        /\ board'.sent = board.sent /\ board'.got = board.got
        /\ board'.shown = board.shown /\ board'.loading = board.loading
        /\ board'.calls = board.calls
    BY <2>1 DEF BoardInv, BoardTypeOK
  <2>3. QED
    BY <1>1, <2>2 DEF BoardInv, ShownIsComplete, LoadingOK, CallsGranted
<1>2. CASE ~(board.path # "/" \/ DashboardView(role) = DashboardView(board.role))
  BY <1>2, MountOK DEF RoleChanges, BoardInv, BoardTypeOK, CallsGranted
<1>3. QED
  BY <1>1, <1>2

LEMMA BoardMounts == BoardInit => BoardInv
<1> SUFFICES ASSUME BoardInit PROVE BoardInv
  OBVIOUS
<1>1. PICK role \in RawRole : board = Mount(role, <<>>)
  BY DEF BoardInit
<1>2. PICK needs \in SUBSET Part : needs = Needs(DashboardView(role))
  BY NeedsParts
<1>3. PICK calls \in Seq(CallRecord) : calls = <<>> /\ DOMAIN calls = {}
  BY Emptied
<1>4. board = [role |-> role, path |-> "/", sent |-> needs, got |-> {}, shown |-> {},
               rejected |-> FALSE, loading |-> DashboardView(role) # "CONSUMER",
               empty |-> TRUE, stats |-> None, calls |-> calls]
  BY <1>1, <1>2, <1>3 DEF Mount
<1>5. /\ role \in RawRole
      /\ calls \in Seq(CallRecord)
      /\ \A n \in DOMAIN calls : can(calls[n].role, CapabilityOf[calls[n].action])
  BY <1>1, <1>3, Zenon
<1>6. BoardTypeOK
  BY <1>2, <1>4, <1>5 DEF BoardTypeOK
<1>7. ShownIsComplete /\ LoadingOK /\ CallsGranted
  BY <1>2, <1>4, <1>5 DEF ShownIsComplete, LoadingOK, CallsGranted
<1>8. QED
  BY <1>6, <1>7 DEF BoardInv

LEMMA BoardSteps == BoardInv /\ BoardNext => BoardInv'
<1> SUFFICES ASSUME BoardInv, BoardNext PROVE BoardInv'
  OBVIOUS
<1>1. ASSUME NEW path \in DOMAIN pageGate \cup {"/", "/settings"}, Link(path) \/ Sidebar(path)
      PROVE  BoardInv'
  BY <1>1, LinkOK, SidebarOK
<1>2. QED
  BY <1>1, PartAnsweredOK, PartFailedOK, ClickOK, CallAnsweredOK, RoleChangesOK
     DEF BoardNext, BoardActs

\* A call is granted when it leaves, and a step that lands on a page that turns the
\* role away is a link of the plain user's view or a late export.
GrantedStep ==
    /\ \A n \in DOMAIN board'.calls \ DOMAIN board.calls :
          can(board.role, CapabilityOf[board'.calls[n].action])
    /\ board'.path # board.path /\ ~MayOpen(board'.role, board'.path)
          => PlainUserLink \/ LateExport

LEMMA PartsGranted ==
    ASSUME BoardInv, NEW p \in Part, PartAnswered(p) \/ PartFailed(p)
    PROVE  GrantedStep
<1>1. ASSUME PartFailed(p) PROVE board'.calls = board.calls /\ board'.path = board.path
  BY <1>1 DEF PartFailed, BoardInv, BoardTypeOK
<1>2. ASSUME PartAnswered(p) PROVE board'.calls = board.calls /\ board'.path = board.path
  <2> DEFINE got  == board.got \cup {p}
             ends == got = Needs(DashboardView(board.role)) /\ ~board.rejected
  <2>1. PICK answer, empty :
             board' = [board EXCEPT !.sent = @ \ {p}, !.got = got,
                                    !.stats = IF p = "stats" THEN answer ELSE @,
                                    !.shown = IF ends THEN got ELSE @,
                                    !.loading = @ /\ ~ends, !.empty = empty]
    BY <1>2 DEF PartAnswered
  <2> HIDE DEF got, ends
  <2>2. QED
    BY <2>1 DEF BoardInv, BoardTypeOK
<1>3. QED
  BY <1>1, <1>2 DEF GrantedStep

LEMMA ClickGranted ==
    ASSUME BoardInv, NEW a \in ActionName, Click(a)
    PROVE  GrantedStep
<1>1. /\ board.role \in RawRole /\ board.calls \in Seq(CallRecord)
      /\ a \in Offered(board.role)
  BY DEF Click, BoardInv, BoardTypeOK
<1>2. CASE a \in {"escrow", "inspect"}
  <2>1. /\ board'.path = Pushes[a] /\ board'.role = board.role
        /\ board'.calls = board.calls
    BY <1>2 DEF Click, Left, BoardInv, BoardTypeOK
  <2>2. MayOpen(board.role, Pushes[a])
    BY <1>1, <1>2, OffersGranted, ActionTable
  <2>3. QED
    BY <2>1, <2>2 DEF GrantedStep
<1>3. CASE a \notin {"escrow", "inspect"}
  <2>1. PICK call \in CallRecord :
           call = [action |-> a, role |-> board.role, pc |-> "sent"]
    BY <1>1 DEF CallRecord
  <2>2. board' = [board EXCEPT !.calls = Append(@, call)]
    BY <1>3, <2>1 DEF Click
  <2>3. board'.path = board.path /\ board'.calls = Append(board.calls, call)
    BY <2>2 DEF BoardInv, BoardTypeOK
  <2>4. \A n \in DOMAIN board'.calls \ DOMAIN board.calls : board'.calls[n] = call
    BY <1>1, <2>1, <2>3, Appended
  <2>5. can(board.role, CapabilityOf[call.action])
    BY <1>1, <2>1, OffersGranted
  <2>6. QED
    BY <2>3, <2>4, <2>5 DEF GrantedStep
<1>4. QED
  BY <1>2, <1>3

\* Whoever may export may read the reports.
LEMMA ExportersRead ==
    ASSUME NEW role \in RawRole, can(role, "gov.exportReports")
    PROVE  MayOpen(role, "/reports")
<1>1. PICK n \in UserRole : n = normalizeRole(role)
  BY RolesNormal
<1>2. QED
  BY <1>1, CapabilityTable, GateTable
     DEF MayOpen, can, UserRole, Everyone, Business, Capability

LEMMA CallAnsweredGranted ==
    ASSUME BoardInv, NEW n \in DOMAIN board.calls, CallAnswered(n)
    PROVE  GrantedStep
<1>1. /\ board.calls \in Seq(CallRecord) /\ board.role \in RawRole
      /\ board.calls[n] \in CallRecord /\ board.calls[n].pc = "sent"
  BY DEF CallAnswered, BoardInv, BoardTypeOK
<1>2. PICK answer \in Done, pc \in {"ok", "told", "silent"} :
        LET next == [board EXCEPT !.calls[n].pc = pc]
        IN  /\ answer = "ok" => pc = "ok"
            /\ board' = IF answer = "ok" /\ board.calls[n].action = "export"
                        THEN Left(next, Pushes[board.calls[n].action]) ELSE next
  BY DEF CallAnswered
<1>3. PICK call \in CallRecord : call = [board.calls[n] EXCEPT !.pc = pc]
  BY <1>1, <1>2 DEF CallRecord
<1>4. PICK calls : calls = [board.calls EXCEPT ![n] = call]
  OBVIOUS
<1>5. DOMAIN calls = DOMAIN board.calls /\ calls[n].pc = pc
  BY <1>1, <1>3, <1>4, Changed DEF CallRecord
<1>6. PICK next : next = [board EXCEPT !.calls = calls]
  OBVIOUS
<1>7. board' = IF answer = "ok" /\ board.calls[n].action = "export"
               THEN Left(next, Pushes[board.calls[n].action]) ELSE next
  BY <1>2, <1>3, <1>4, <1>6 DEF BoardInv, BoardTypeOK
<1>8. board'.calls = calls /\ board'.role = board.role
  BY <1>6, <1>7 DEF Left, BoardInv, BoardTypeOK
<1>9. CASE answer = "ok" /\ board.calls[n].action = "export"
  <2>1. board'.path = "/reports"
    BY <1>6, <1>7, <1>9, ActionTable DEF Left, BoardInv, BoardTypeOK
  <2>2. can(board.calls[n].role, "gov.exportReports")
    BY <1>9, ActionTable DEF BoardInv, CallsGranted
  <2>3. board.calls[n].role = board.role => MayOpen(board.role, "/reports")
    BY <1>1, <2>2, ExportersRead
  <2>4. board.calls[n].role # board.role => LateExport
    BY <1>1, <1>2, <1>5, <1>8, <1>9 DEF LateExport
  <2>5. QED
    BY <1>5, <1>8, <2>1, <2>3, <2>4 DEF GrantedStep
<1>10. CASE ~(answer = "ok" /\ board.calls[n].action = "export")
  <2>1. board'.path = board.path
    BY <1>6, <1>7, <1>10 DEF BoardInv, BoardTypeOK
  <2>2. QED
    BY <1>5, <1>8, <2>1 DEF GrantedStep
<1>11. QED
  BY <1>9, <1>10

LEMMA LinkGranted ==
    ASSUME BoardInv, NEW path, Link(path)
    PROVE  GrantedStep
<1>1. /\ board'.path = path /\ board'.role = board.role /\ board'.calls = board.calls
      /\ board.path = "/" /\ board.role \in RawRole
  BY DEF Link, Alive, Left, BoardInv, BoardTypeOK
<1>2. ~MayOpen(board.role, path)
        => normalizeRole(board.role) = "USER" /\ path \in DeniedToUser
  BY <1>1, ViewLinksAreOpen DEF ViewLinksOpen, Link
<1>3. QED
  BY <1>1, <1>2 DEF GrantedStep, PlainUserLink

LEMMA SidebarGranted ==
    ASSUME BoardInv, NEW path, Sidebar(path)
    PROVE  GrantedStep
<1>1. /\ board'.path = path /\ board'.role = board.role /\ board'.calls = board.calls
      /\ board.role \in RawRole
  BY DEF Sidebar, Left, Mount, BoardInv, BoardTypeOK
<1>2. path \in navItems[normalizeRole(board.role)] \cup {"/settings"}
  BY DEF Sidebar, SidebarLinks
<1>3. "/" \notin DOMAIN pageGate /\ "/settings" \notin DOMAIN pageGate
  BY GateTable
<1>4. MayOpen(board.role, path)
  BY <1>1, <1>2, <1>3, SidebarIsOpen DEF SidebarOpens, MayOpen
<1>5. QED
  BY <1>1, <1>4 DEF GrantedStep

LEMMA RoleChangesGranted ==
    ASSUME BoardInv, NEW role \in RawRole, RoleChanges(role)
    PROVE  GrantedStep
<1>1. board'.calls = board.calls /\ board'.path = board.path
  BY DEF RoleChanges, Mount, BoardInv, BoardTypeOK
<1>2. QED
  BY <1>1 DEF GrantedStep

LEMMA BoardGranted == BoardInv /\ BoardNext => GrantedStep
  BY PartsGranted, ClickGranted, CallAnsweredGranted, LinkGranted, SidebarGranted,
     RoleChangesGranted
     DEF BoardNext, BoardActs


-----------------------------------------------------------------------------
(* The frame *)

\* Results of another text are explained, whether the panel is open or not.
ResultsExplained ==
    shell.results # None /\ shell.results # shell.query =>
        shell.timer \/ shell.searches # <<>> \/ shell.late

ShellInv == ShellTypeOK /\ ResultsExplained /\ ScrollFollowsDrawer

LEMMA ShellIsHonest == ShellInv => FrameIsHonest
  BY DEF ShellInv, ResultsExplained, FrameIsHonest, PanelIsHonest, Panel

LEMMA Removed ==
    ASSUME NEW S, NEW s \in Seq(S), NEW n \in DOMAIN s
    PROVE  RemoveAt(s, n) \in Seq(S)
<1>1. /\ Len(s) \in Nat /\ n \in 1 .. Len(s)
      /\ \A i \in 1 .. Len(s) : s[i] \in S
  OBVIOUS
<1>2. SubSeq(s, 1, n - 1) \in Seq(S) /\ SubSeq(s, n + 1, Len(s)) \in Seq(S)
  BY <1>1, SubSeqProperties
<1>3. QED
  BY <1>2, ConcatProperties DEF RemoveAt

LEMMA MountedOK ==
    ASSUME NEW path \in Path, NEW timer \in BOOLEAN
    PROVE  /\ shell = [Mounted(path) EXCEPT !.timer = timer] => ShellInv
           /\ shell' = [Mounted(path) EXCEPT !.timer = timer] => ShellInv'
           /\ Mounted(path) = [Mounted(path) EXCEPT !.timer = TRUE]
<1>1. PICK searches \in Seq(Query) : searches = <<>>
  BY Emptied
<1> DEFINE frame(t) ==
      [path |-> path, query |-> None, timer |-> t, searches |-> searches,
       results |-> None, isSearching |-> FALSE, showResults |-> FALSE,
       drawer |-> FALSE, locked |-> FALSE, showTime |-> FALSE,
       showFilter |-> FALSE, late |-> FALSE]
<1>2. Mounted(path) = frame(TRUE)
  BY <1>1 DEF Mounted
<1>3. searches \in Seq(Query)
  BY <1>1
<1>4. ASSUME NEW t \in BOOLEAN
      PROVE  [frame(TRUE) EXCEPT !.timer = t] = frame(t)
  <2>1. PICK m \in [path : Path, query : {None}, timer : BOOLEAN,
                     searches : {searches}, results : {None}, isSearching : BOOLEAN,
                     showResults : BOOLEAN, drawer : BOOLEAN, locked : BOOLEAN,
                     showTime : BOOLEAN, showFilter : BOOLEAN, late : BOOLEAN] :
               m = frame(TRUE)
    OBVIOUS
  <2>2. [m EXCEPT !.timer = t] =
           [path |-> m.path, query |-> m.query, timer |-> t, searches |-> m.searches,
            results |-> m.results, isSearching |-> m.isSearching,
            showResults |-> m.showResults, drawer |-> m.drawer, locked |-> m.locked,
            showTime |-> m.showTime, showFilter |-> m.showFilter, late |-> m.late]
    OBVIOUS
  <2>3. QED
    BY <2>1, <2>2
<1>5. ASSUME shell = frame(timer) PROVE ShellInv
  <2>1. ShellTypeOK
    BY <1>3, <1>5 DEF ShellTypeOK
  <2>2. shell.results = None /\ shell.locked = FALSE /\ shell.drawer = FALSE
    BY <1>5
  <2>3. QED
    BY <2>1, <2>2 DEF ShellInv, ResultsExplained, ScrollFollowsDrawer, Framed
<1>6. ASSUME shell' = frame(timer) PROVE ShellInv'
  <2>1. ShellTypeOK'
    BY <1>3, <1>6 DEF ShellTypeOK
  <2>2. shell'.results = None /\ shell'.locked = FALSE /\ shell'.drawer = FALSE
    BY <1>6
  <2>3. QED
    BY <2>1, <2>2 DEF ShellInv, ResultsExplained, ScrollFollowsDrawer, Framed
<1> HIDE DEF frame
<1>7. QED
  BY <1>2, <1>4, <1>5, <1>6

LEMMA ShellMounts == ShellInit => ShellInv
  BY MountedOK DEF ShellInit, Path

LEMMA TimerFiresOK ==
    ASSUME ShellInv, TimerFires
    PROVE  ShellInv'
<1>1. CASE shell.query # None
  <2>1. shell.query \in Query /\ shell.searches \in Seq(Query)
    BY <1>1 DEF ShellInv, ShellTypeOK
  <2>2. PICK searches : searches = Append(shell.searches, shell.query)
    OBVIOUS
  <2>3. searches \in Seq(Query) /\ searches # <<>>
    BY <2>1, <2>2, AppendProperties
  <2>4. shell' = [shell EXCEPT !.timer = FALSE, !.isSearching = TRUE,
                               !.searches = searches]
    BY <1>1, <2>2 DEF TimerFires, ShellInv, ShellTypeOK
  <2>5. QED
    BY <2>3, <2>4 DEF ShellInv, ShellTypeOK, ResultsExplained, ScrollFollowsDrawer
<1>2. CASE shell.query = None
  <2>1. shell' = [shell EXCEPT !.timer = FALSE, !.results = None,
                               !.showResults = FALSE, !.late = FALSE]
    BY <1>2 DEF TimerFires
  <2>2. QED
    BY <2>1 DEF ShellInv, ShellTypeOK, ResultsExplained, ScrollFollowsDrawer
<1>3. QED
  BY <1>1, <1>2

LEMMA SearchAnsweredOK ==
    ASSUME ShellInv, NEW n \in DOMAIN shell.searches, SearchAnswered(n)
    PROVE  ShellInv'
<1>1. shell.searches \in Seq(Query)
  BY DEF ShellInv, ShellTypeOK
<1>2. PICK searches \in Seq(Query) : searches = RemoveAt(shell.searches, n)
  BY <1>1, Removed
<1>3. PICK text \in Query : text = shell.searches[n]
  BY <1>1
<1>4. PICK late \in BOOLEAN : late = (text # shell.query)
  OBVIOUS
<1>5. shell' = [shell EXCEPT !.searches = searches, !.results = text,
                             !.showResults = TRUE, !.isSearching = FALSE, !.late = late]
  BY <1>2, <1>3, <1>4 DEF SearchAnswered, ShellInv, ShellTypeOK
<1>6. ShellTypeOK'
  BY <1>5 DEF ShellInv, ShellTypeOK
<1>7. ResultsExplained'
  BY <1>4, <1>5 DEF ShellInv, ShellTypeOK, ResultsExplained
<1>8. ScrollFollowsDrawer'
  BY <1>5 DEF ShellInv, ShellTypeOK, ScrollFollowsDrawer
<1>9. QED
  BY <1>6, <1>7, <1>8 DEF ShellInv

LEMMA GoOK ==
    ASSUME ShellInv, NEW path \in Path, Go(path)
    PROVE  ShellInv'
<1>1. CASE path = shell.path
  BY <1>1 DEF Go, ShellInv, ShellTypeOK, ResultsExplained, ScrollFollowsDrawer
<1>2. CASE path # shell.path
  BY <1>2, MountedOK DEF Go
<1>3. QED
  BY <1>1, <1>2

LEMMA ShellSteps == ShellInv /\ ShellNext => ShellInv'
<1> SUFFICES ASSUME ShellInv, ShellNext PROVE ShellInv'
  OBVIOUS
<1> USE DEF ShellInv, ShellTypeOK, ResultsExplained, ScrollFollowsDrawer
<1>1. ASSUME NEW q \in Query \cup {None}, Type(q) PROVE ShellInv'
  BY <1>1 DEF Type
<1>2. ASSUME Focus \/ ClickOutside PROVE ShellInv'
  BY <1>2 DEF Focus, ClickOutside
<1>3. ASSUME NEW path \in {"/shipments", "/alerts", "/audits"}, Pick(path)
      PROVE  ShellInv'
  <2>1. CASE path = shell.path
    BY <1>3, <2>1 DEF Pick
  <2>2. CASE path # shell.path
    BY <1>3, <2>2, MountedOK DEF Pick, Path
  <2>3. QED
    BY <2>1, <2>2
<1>4. ASSUME NEW open \in BOOLEAN, SetDrawer(open) PROVE ShellInv'
  BY <1>4 DEF SetDrawer
<1>5. ASSUME ToggleTime \/ ToggleFilter \/ Choose PROVE ShellInv'
  <2>1. CASE ToggleTime
    BY <2>1 DEF ToggleTime
  <2>2. CASE ToggleFilter
    BY <2>2 DEF ToggleFilter
  <2>3. CASE shell' = [shell EXCEPT !.showTime = FALSE]
    BY <2>3
  <2>4. CASE shell' = [shell EXCEPT !.showFilter = FALSE]
    BY <2>4
  <2>5. QED
    BY <1>5, <2>1, <2>2, <2>3, <2>4 DEF Choose
<1>6. ASSUME NEW path \in Path, Leave(path) PROVE ShellInv'
  BY <1>6, GoOK DEF Leave
<1>7. ASSUME Return PROVE ShellInv'
  BY <1>7, GoOK DEF Return, Path
<1>8. QED
  BY <1>1, <1>2, <1>3, <1>4, <1>5, <1>6, <1>7, TimerFiresOK, SearchAnsweredOK
     DEF ShellNext, Answer


-----------------------------------------------------------------------------
(* The sign-in form *)

\* A code can be typed, and is remembered, only after the service has asked for one.
CodeAsked ==
    /\ login.showTotp => login.asked
    /\ login.totpCode # None => login.asked

LoginInv == LoginTypeOK /\ OneSubmission /\ CodeIsAskedFor /\ CodeAsked

\* The fields that are no part of the argument change as they like.
LEMMA LoginKeeps ==
    ASSUME LoginInv, LoginTypeOK', login'.sent = login.sent, login'.loading = login.loading,
           login.asked => login'.asked, CodeAsked'
    PROVE  LoginInv'
  BY DEF LoginInv, OneSubmission, CodeIsAskedFor

LEMMA LoginMountedOK ==
    ASSUME NEW p \in Person
    PROVE  /\ login = LoginMounted(p) => LoginInv
           /\ login' = LoginMounted(p) => LoginInv'
<1>1. PICK sent \in Seq(Credentials) : sent = <<>> /\ DOMAIN sent = {}
  BY Emptied
<1>2. sent \in Seq(Credentials) /\ Len(sent) = 0 /\ DOMAIN sent = {} /\ ~(sent # <<>>)
  BY <1>1
<1> DEFINE form == [isRegister |-> FALSE, person |-> p, totpCode |-> None,
                    showTotp |-> FALSE, error |-> None, loading |-> FALSE,
                    sent |-> sent, pushed |-> FALSE, asked |-> FALSE]
<1>3. LoginMounted(p) = form
  BY <1>1 DEF LoginMounted
<1>4. ASSUME login = form PROVE LoginInv
  BY <1>2, <1>4 DEF LoginInv, LoginTypeOK, OneSubmission, CodeIsAskedFor, CodeAsked
<1>5. ASSUME login' = form PROVE LoginInv'
  BY <1>2, <1>5 DEF LoginInv, LoginTypeOK, OneSubmission, CodeIsAskedFor, CodeAsked
<1> HIDE DEF form
<1>6. QED
  BY <1>3, <1>4, <1>5

LEMMA SubmitOK ==
    ASSUME LoginInv, Submit
    PROVE  LoginInv'
<1>1. /\ login.sent = <<>> /\ login.sent \in Seq(Credentials)
      /\ login.isRegister \in BOOLEAN /\ login.person \in Person
      /\ login.totpCode \in Person \cup {None}
  BY DEF Submit, LoginInv, LoginTypeOK, OneSubmission
<1>2. PICK request \in Credentials :
        request = [register |-> login.isRegister, person |-> login.person,
                   code |-> IF login.isRegister THEN None ELSE login.totpCode]
  BY <1>1 DEF Credentials
<1>3. PICK sent : sent = Append(login.sent, request)
  OBVIOUS
<1>4. /\ sent \in Seq(Credentials) /\ Len(sent) <= 1 /\ sent # <<>>
      /\ \A i \in DOMAIN sent : sent[i] = request
  BY <1>1, <1>2, <1>3
<1>5. login' = [login EXCEPT !.error = None, !.loading = TRUE, !.sent = sent]
  BY <1>2, <1>3 DEF Submit, LoginInv, LoginTypeOK
<1>6. /\ LoginTypeOK' /\ login'.sent = sent /\ login'.loading = TRUE
      /\ login'.asked = login.asked /\ login'.showTotp = login.showTotp
      /\ login'.totpCode = login.totpCode
  BY <1>4, <1>5 DEF LoginInv, LoginTypeOK
<1>7. request.code # None => login.asked /\ ~request.register
  BY <1>1, <1>2 DEF LoginInv, CodeAsked
<1>8. OneSubmission'
  BY <1>4, <1>6, Zenon DEF OneSubmission
<1>9. CodeIsAskedFor'
  <2> SUFFICES ASSUME NEW i \in DOMAIN sent
               PROVE  sent[i].code # None => login.asked /\ ~sent[i].register
    BY <1>6 DEF CodeIsAskedFor
  <2>1. sent[i] = request
    BY <1>4
  <2>2. QED
    BY <1>7, <2>1
<1>10. CodeAsked'
  BY <1>6 DEF LoginInv, CodeAsked
<1>11. QED
  BY <1>6, <1>8, <1>9, <1>10 DEF LoginInv

LEMMA SubmitAnsweredOK ==
    ASSUME LoginInv, SubmitAnswered
    PROVE  LoginInv'
<1>1. /\ login.sent \in Seq(Credentials) /\ login.sent # <<>> /\ Len(login.sent) <= 1
  BY DEF SubmitAnswered, LoginInv, LoginTypeOK, OneSubmission
<1>2. PICK sent : sent = Tail(login.sent)
  OBVIOUS
<1>3. /\ sent \in Seq(Credentials) /\ Len(sent) <= 1 /\ ~(sent # <<>>)
      /\ DOMAIN sent = {}
  <2>1. Len(sent) = 0
    BY <1>1, <1>2, LastTaken
  <2>2. Len(sent) <= 1
    BY <2>1
  <2>3. QED
    BY <1>1, <1>2, <2>2, LastTaken
<1>4. PICK answer \in {"ok", "TOTP code required", "refused"} :
        login' = [login EXCEPT
              !.sent = Tail(@), !.loading = FALSE,
              !.pushed = @ \/ answer = "ok",
              !.showTotp = @ \/ answer = "TOTP code required",
              !.asked = @ \/ answer = "TOTP code required",
              !.error = CASE answer = "ok" -> @
                          [] answer = "TOTP code required" -> "code"
                          [] OTHER -> "other"]
  BY DEF SubmitAnswered
<1>5. PICK error \in {None, "code", "other"} :
        error = CASE answer = "ok" -> login.error
                  [] answer = "TOTP code required" -> "code"
                  [] OTHER -> "other"
  BY Zenon DEF LoginInv, LoginTypeOK
<1>6. PICK pushed \in BOOLEAN, showTotp \in BOOLEAN, asked \in BOOLEAN :
        /\ pushed = (login.pushed \/ answer = "ok")
        /\ showTotp = (login.showTotp \/ answer = "TOTP code required")
        /\ asked = (login.asked \/ answer = "TOTP code required")
  BY Zenon
<1>7. login' = [login EXCEPT !.sent = sent, !.loading = FALSE, !.pushed = pushed,
                             !.showTotp = showTotp, !.asked = asked, !.error = error]
  BY <1>2, <1>4, <1>5, <1>6 DEF LoginInv, LoginTypeOK
<1>8. LoginTypeOK'
  <2>1. PICK codes, errors, sents :
          /\ codes = Person \cup {None} /\ errors = {None, "code", "other"}
          /\ sents = Seq(Credentials)
    OBVIOUS
  <2>2. login \in [isRegister : BOOLEAN, person : Person, totpCode : codes,
                   showTotp : BOOLEAN, error : errors, loading : BOOLEAN,
                   sent : sents, pushed : BOOLEAN, asked : BOOLEAN]
    BY <2>1 DEF LoginInv, LoginTypeOK
  <2>3. error \in errors /\ sent \in sents
    BY <1>3, <1>5, <2>1
  <2>4. login' \in [isRegister : BOOLEAN, person : Person, totpCode : codes,
                    showTotp : BOOLEAN, error : errors, loading : BOOLEAN,
                    sent : sents, pushed : BOOLEAN, asked : BOOLEAN]
    BY <1>7, <2>2, <2>3
  <2>5. QED
    BY <2>1, <2>4 DEF LoginTypeOK
<1>9. login'.sent = sent /\ login'.loading = FALSE
  BY <1>3, <1>7 DEF LoginInv, LoginTypeOK
<1>10. /\ login'.showTotp = showTotp /\ login'.asked = asked
       /\ login'.totpCode = login.totpCode
  BY <1>3, <1>7 DEF LoginInv, LoginTypeOK
<1>11. OneSubmission' /\ CodeIsAskedFor'
  BY <1>3, <1>9, Zenon DEF OneSubmission, CodeIsAskedFor
<1>12. CodeAsked'
  BY <1>6, <1>10 DEF LoginInv, CodeAsked
<1>13. QED
  BY <1>8, <1>11, <1>12 DEF LoginInv

LEMMA LoginMounts == LoginInit => LoginInv
  BY LoginMountedOK DEF LoginInit

LEMMA LoginSteps == LoginInv /\ LoginNext => LoginInv'
<1> SUFFICES ASSUME LoginInv, LoginNext PROVE LoginInv'
  OBVIOUS
<1>1. ASSUME NEW p \in Person, TypeEmail(p) PROVE LoginInv'
  BY <1>1, LoginKeeps DEF TypeEmail, LoginInv, LoginTypeOK, CodeAsked
<1>2. ASSUME NEW p \in Person, handleDemoFill(p) PROVE LoginInv'
  BY <1>2, LoginKeeps DEF handleDemoFill, LoginInv, LoginTypeOK, CodeAsked
<1>3. ASSUME TypeCode PROVE LoginInv'
  BY <1>3, LoginKeeps DEF TypeCode, LoginInv, LoginTypeOK, CodeAsked
<1>4. ASSUME ToggleMode PROVE LoginInv'
  BY <1>4, LoginKeeps DEF ToggleMode, LoginInv, LoginTypeOK, CodeAsked
<1>5. ASSUME LeaveLogin PROVE LoginInv'
  BY <1>5, LoginMountedOK DEF LeaveLogin
<1>6. QED
  BY <1>1, <1>2, <1>3, <1>4, <1>5, SubmitOK, SubmitAnsweredOK DEF LoginNext, LoginActs

-----------------------------------------------------------------------------
(* The settings page *)

\* A save is under way only while the button is disabled, and there is room for the
\* timer of its banner.
SaveHasRoom ==
    /\ Len(settings.sent) <= 1
    /\ settings.sent # <<>> => settings.saving /\ settings.timers < MaxSaves

SettingsInv == SettingsTypeOK /\ BannerIsEarned /\ SaveHasRoom

LEMMA SettingsMounts == SettingsInit => SettingsInv
<1> SUFFICES ASSUME SettingsInit PROVE SettingsInv
  OBVIOUS
<1>1. PICK sent \in Seq(Name) : sent = <<>> /\ DOMAIN sent = {}
  BY Emptied
<1>2. sent \in Seq(Name) /\ Len(sent) = 0 /\ ~(sent # <<>>)
  BY <1>1
<1>3. PICK n \in Name :
        settings = [user |-> n, draft |-> None, prefs |-> FALSE, saving |-> FALSE,
                    sent |-> sent, failed |-> FALSE, saved |-> FALSE, timers |-> 0,
                    kept |-> None]
  BY <1>1 DEF SettingsInit
<1>4. SettingsTypeOK
  BY <1>2, <1>3, FormsAssumption DEF SettingsTypeOK
<1>5. QED
  BY <1>2, <1>3, <1>4 DEF SettingsInv, BannerIsEarned, SaveHasRoom

LEMMA handleSaveOK ==
    ASSUME SettingsInv, handleSave
    PROVE  SettingsInv'
<1>1. /\ Shown \in Name /\ settings.sent \in Seq(Name) /\ settings.sent = <<>>
      /\ settings.timers < MaxSaves
  BY DEF handleSave, Shown, SettingsInv, SettingsTypeOK, SaveHasRoom
<1>2. PICK sent : sent = Append(settings.sent, Shown)
  OBVIOUS
<1>3. sent \in Seq(Name) /\ Len(sent) = 1
  BY <1>1, <1>2
<1>4. settings' = [settings EXCEPT !.saving = TRUE, !.sent = sent]
  BY <1>2 DEF handleSave, SettingsInv, SettingsTypeOK
<1>5. SettingsTypeOK'
  BY <1>3, <1>4 DEF SettingsInv, SettingsTypeOK
<1>6. /\ settings'.saving = TRUE /\ settings'.sent = sent
      /\ settings'.timers = settings.timers /\ settings'.kept = settings.kept
      /\ settings'.saved = settings.saved
  BY <1>4 DEF SettingsInv, SettingsTypeOK
<1>7. BannerIsEarned'
  BY <1>6 DEF SettingsInv, BannerIsEarned
<1>8. Len(sent) <= 1
  BY <1>3
<1>9. SaveHasRoom'
  BY <1>1, <1>6, <1>8, Zenon DEF SaveHasRoom
<1>10. QED
  BY <1>5, <1>7, <1>9 DEF SettingsInv

LEMMA SaveAnsweredOK ==
    ASSUME SettingsInv, SaveAnswered
    PROVE  SettingsInv'
<1>1. /\ settings.sent \in Seq(Name) /\ settings.sent # <<>> /\ Len(settings.sent) <= 1
      /\ settings.timers \in 0 .. MaxSaves /\ settings.timers < MaxSaves
  BY DEF SaveAnswered, SettingsInv, SettingsTypeOK, SaveHasRoom
<1>2. PICK sent : sent = Tail(settings.sent)
  OBVIOUS
<1>3. sent \in Seq(Name) /\ Len(sent) = 0 /\ ~(sent # <<>>)
  BY <1>1, <1>2, LastTaken
<1>4. PICK n \in Name : n = Head(settings.sent)
  BY <1>1, LastTaken
<1>5. settings.timers + 1 \in 0 .. MaxSaves /\ settings.timers + 1 > 0
  BY <1>1, FormsAssumption
<1>6. CASE settings' = [settings EXCEPT !.sent = Tail(@), !.saving = FALSE, !.saved = TRUE,
                                        !.timers = @ + 1, !.kept = Head(settings.sent)]
  <2>1. settings' = [settings EXCEPT !.sent = sent, !.saving = FALSE, !.saved = TRUE,
                                     !.timers = @ + 1, !.kept = n]
    BY <1>2, <1>4, <1>6 DEF SettingsInv, SettingsTypeOK
  <2>2. SettingsTypeOK'
    BY <1>3, <1>5, <2>1 DEF SettingsInv, SettingsTypeOK
  <2>3. settings'.kept = n /\ settings'.timers = settings.timers + 1 /\ settings'.sent = sent
    BY <2>1 DEF SettingsInv, SettingsTypeOK
  <2>4. n # None
    BY FormsAssumption
  <2>5. QED
    BY <1>3, <1>5, <2>2, <2>3, <2>4 DEF SettingsInv, BannerIsEarned, SaveHasRoom
<1>7. CASE settings' = [settings EXCEPT !.sent = Tail(@), !.failed = TRUE]
  <2>1. settings' = [settings EXCEPT !.sent = sent, !.failed = TRUE]
    BY <1>2, <1>7 DEF SettingsInv, SettingsTypeOK
  <2>2. SettingsTypeOK'
    BY <1>3, <2>1 DEF SettingsInv, SettingsTypeOK
  <2>3. /\ settings'.sent = sent /\ settings'.saved = settings.saved
        /\ settings'.timers = settings.timers /\ settings'.kept = settings.kept
    BY <2>1 DEF SettingsInv, SettingsTypeOK
  <2>4. QED
    BY <1>3, <2>2, <2>3 DEF SettingsInv, BannerIsEarned, SaveHasRoom
<1>8. QED
  BY <1>6, <1>7 DEF SaveAnswered

LEMMA SettingsSteps == SettingsInv /\ SettingsNext => SettingsInv'
<1> SUFFICES ASSUME SettingsInv, SettingsNext PROVE SettingsInv'
  OBVIOUS
<1> USE DEF SettingsInv, SettingsTypeOK, BannerIsEarned, SaveHasRoom
<1>1. ASSUME NEW n \in Name, Edit(n) \/ UserChanges(n) PROVE SettingsInv'
  BY <1>1 DEF Edit, UserChanges
<1>2. ASSUME ToggleSwitch PROVE SettingsInv'
  BY <1>2 DEF ToggleSwitch
<1>3. ASSUME BannerTimerFires PROVE SettingsInv'
  <2>1. settings.timers \in 0 .. MaxSaves /\ settings.timers > 0
    BY <1>3 DEF BannerTimerFires
  <2>2. settings.timers - 1 \in 0 .. MaxSaves /\ settings.timers - 1 < MaxSaves
    BY <2>1, FormsAssumption
  <2>3. settings' = [settings EXCEPT !.timers = settings.timers - 1, !.saved = FALSE]
    BY <1>3 DEF BannerTimerFires
  <2>4. /\ settings'.timers = settings.timers - 1 /\ settings'.saved = FALSE
        /\ settings'.sent = settings.sent /\ settings'.saving = settings.saving
        /\ SettingsTypeOK'
    BY <2>2, <2>3
  <2>5. QED
    BY <2>2, <2>4
<1>4. QED
  BY <1>1, <1>2, <1>3, handleSaveOK, SaveAnsweredOK DEF SettingsNext, SettingsActs


-----------------------------------------------------------------------------
(* The reports page *)

Listings(r) == {i \in DOMAIN reports.generated : reports.generated[i] = r}

Ended(r) ==
    {n \in DOMAIN reports.jobs : reports.jobs[n].report = r /\ reports.jobs[n].pc = "ok"}

ReportsInv == ReportsTypeOK /\ GeneratedIsReal

LEMMA PartsFinite ==
    ASSUME NEW S, NEW s \in Seq(S), NEW T, T \subseteq DOMAIN s
    PROVE  IsFiniteSet(T)
<1>1. Len(s) \in Nat /\ DOMAIN s = 1 .. Len(s)
  BY LenProperties
<1>2. IsFiniteSet(1 .. Len(s))
  BY <1>1, FS_Interval
<1>3. QED
  BY <1>1, <1>2, FS_Subset

\* No generation ends, and the list is left alone.
LEMMA NoneEnds ==
    ASSUME ReportsInv, ReportsTypeOK', reports'.generated = reports.generated,
           \A r \in Report : Ended(r)' = Ended(r),
           reports'.file # None => reports'.file.report \in ToSet(reports.generated)
    PROVE  ReportsInv'
<1>1. \A r \in Report : Cardinality(Listings(r)) = Cardinality(Ended(r))
  BY DEF ReportsInv, GeneratedIsReal, Listings, Ended
<1>2. \A r \in Report : Listings(r)' = Listings(r)
  BY DEF Listings
<1>3. \A r \in Report : (Cardinality(Listings(r)) = Cardinality(Ended(r)))'
  BY <1>1, <1>2
<1>4. QED
  BY <1>3 DEF ReportsInv, GeneratedIsReal, Listings, Ended

LEMMA ReportsMount == ReportsInit => ReportsInv
<1> SUFFICES ASSUME ReportsInit PROVE ReportsInv
  OBVIOUS
<1>1. PICK jobs \in Seq(Job) : jobs = <<>> /\ DOMAIN jobs = {}
  BY Emptied
<1>2. PICK generated \in Seq(Report) : generated = <<>> /\ DOMAIN generated = {}
  BY Emptied
<1>3. reports = [generating |-> None, jobs |-> jobs, generated |-> generated,
                 stats |-> None, category |-> "All", file |-> None]
  BY <1>1, <1>2 DEF ReportsInit
<1>4. jobs \in Seq(Job) /\ generated \in Seq(Report)
  OBVIOUS
<1>5. ReportsTypeOK
  BY <1>3, <1>4 DEF ReportsTypeOK
<1>6. reports.file = None
  BY <1>3
<1>7. ASSUME NEW r \in Report PROVE Listings(r) = {} /\ Ended(r) = {}
  <2>1. reports.jobs = jobs /\ reports.generated = generated
    BY <1>3
  <2>2. QED
    BY <1>1, <1>2, <2>1, Zenon DEF Listings, Ended
<1>8. QED
  BY <1>5, <1>6, <1>7 DEF ReportsInv, GeneratedIsReal, Listings, Ended

LEMMA handleGenerateOK ==
    ASSUME ReportsInv, NEW r \in Report, handleGenerate(r)
    PROVE  ReportsInv'
<1>1. reports.jobs \in Seq(Job)
  BY DEF ReportsInv, ReportsTypeOK
<1>2. PICK job \in Job : job = [report |-> r, pc |-> "sent"]
  BY DEF Job
<1>3. PICK jobs : jobs = Append(reports.jobs, job)
  OBVIOUS
<1>4. PICK k : k = Len(reports.jobs) + 1
  OBVIOUS
<1>5. /\ jobs \in Seq(Job) /\ DOMAIN jobs = DOMAIN reports.jobs \cup {k}
      /\ jobs[k] = job /\ \A n \in DOMAIN reports.jobs : jobs[n] = reports.jobs[n]
  BY <1>1, <1>2, <1>3, <1>4, Appended
<1>6. job.pc # "ok"
  BY <1>2
<1>7. reports' = [reports EXCEPT !.generating = r, !.jobs = jobs]
  BY <1>2, <1>3 DEF handleGenerate, ReportsInv, ReportsTypeOK
<1>8. /\ ReportsTypeOK' /\ reports'.generated = reports.generated
      /\ reports'.file = reports.file /\ reports'.jobs = jobs
  BY <1>5, <1>7 DEF ReportsInv, ReportsTypeOK
<1>9. \A x \in Report : Ended(x)' = Ended(x)
  BY <1>5, <1>6, <1>8, Zenon DEF Ended
<1>10. QED
  BY <1>8, <1>9, NoneEnds DEF ReportsInv, GeneratedIsReal

Moved(n, pc) == [reports.jobs EXCEPT ![n].pc = pc]

\* The job of which something has become known.
LEMMA JobMoves ==
    ASSUME ReportsInv, NEW n \in DOMAIN reports.jobs,
           NEW pc \in {"waiting", "failed", "ok"}, NEW jobs,
           jobs = Moved(n, pc)
    PROVE  /\ reports.jobs[n].report \in Report
           /\ jobs \in Seq(Job) /\ DOMAIN jobs = DOMAIN reports.jobs
           /\ jobs[n].report = reports.jobs[n].report /\ jobs[n].pc = pc
           /\ \A m \in DOMAIN reports.jobs : m # n => jobs[m] = reports.jobs[m]
<1>1. reports.jobs \in Seq(Job)
  BY DEF ReportsInv, ReportsTypeOK
<1>2. reports.jobs[n] \in Job
  BY <1>1
<1>3. PICK job \in Job : job = [reports.jobs[n] EXCEPT !.pc = pc]
  BY <1>2 DEF Job
<1>4. jobs = [reports.jobs EXCEPT ![n] = job]
  BY <1>3 DEF Moved
<1>5. job.report = reports.jobs[n].report /\ job.pc = pc /\ job.report \in Report
  BY <1>2, <1>3 DEF Job
<1>6. QED
  BY <1>1, <1>4, <1>5, Changed

LEMMA GenerateAnsweredOK ==
    ASSUME ReportsInv, NEW n \in DOMAIN reports.jobs, GenerateAnswered(n)
    PROVE  ReportsInv'
<1>1. PICK pc \in {"waiting", "failed"} : reports' = [reports EXCEPT !.jobs[n].pc = pc]
  BY DEF GenerateAnswered
<1>2. PICK jobs : jobs = Moved(n, pc)
  OBVIOUS
<1>3. /\ jobs \in Seq(Job) /\ DOMAIN jobs = DOMAIN reports.jobs /\ jobs[n].pc = pc
      /\ \A m \in DOMAIN reports.jobs : m # n => jobs[m] = reports.jobs[m]
  <2>1. pc \in {"waiting", "failed", "ok"}
    BY <1>1
  <2>2. QED
    BY <1>2, <2>1, JobMoves
<1>4. reports' = [reports EXCEPT !.jobs = jobs]
  BY <1>1, <1>2 DEF Moved, ReportsInv, ReportsTypeOK
<1>5. /\ ReportsTypeOK' /\ reports'.generated = reports.generated
      /\ reports'.file = reports.file /\ reports'.jobs = jobs
  BY <1>3, <1>4 DEF ReportsInv, ReportsTypeOK
<1>6. pc # "ok" /\ reports.jobs[n].pc # "ok"
  BY <1>1 DEF GenerateAnswered
<1>7. \A x \in Report : Ended(x)' = Ended(x)
  BY <1>3, <1>5, <1>6, Zenon DEF Ended
<1>8. QED
  BY <1>5, <1>7, NoneEnds DEF ReportsInv, GeneratedIsReal

\* One generation ends, and its report is listed once more.
LEMMA GenerateEndsOK ==
    ASSUME ReportsInv, NEW n \in DOMAIN reports.jobs, GenerateEnds(n)
    PROVE  ReportsInv'
<1>1. PICK jobs : jobs = Moved(n, "ok")
  OBVIOUS
<1>2. /\ jobs \in Seq(Job) /\ DOMAIN jobs = DOMAIN reports.jobs
      /\ jobs[n].report = reports.jobs[n].report /\ jobs[n].pc = "ok"
      /\ \A m \in DOMAIN reports.jobs : m # n => jobs[m] = reports.jobs[m]
      /\ reports.jobs[n].report \in Report
  BY <1>1, JobMoves
<1>3. PICK x \in Report : x = reports.jobs[n].report
  BY <1>2
<1>4. reports.generated \in Seq(Report) /\ reports.jobs \in Seq(Job)
  BY DEF ReportsInv, ReportsTypeOK
<1>5. PICK generated : generated = Append(reports.generated, x)
  OBVIOUS
<1>6. PICK k : k = Len(reports.generated) + 1
  OBVIOUS
<1>7. /\ generated \in Seq(Report) /\ k \notin DOMAIN reports.generated
      /\ DOMAIN generated = DOMAIN reports.generated \cup {k} /\ generated[k] = x
      /\ \A i \in DOMAIN reports.generated : generated[i] = reports.generated[i]
  BY <1>4, <1>5, <1>6, Appended
<1>8. reports' = [reports EXCEPT !.jobs = jobs, !.generating = None,
                                 !.generated = generated]
  BY <1>1, <1>3, <1>5 DEF Moved, GenerateEnds, ReportsInv, ReportsTypeOK
<1>9. /\ ReportsTypeOK' /\ reports'.generated = generated
      /\ reports'.file = reports.file /\ reports'.jobs = jobs
  BY <1>2, <1>7, <1>8 DEF ReportsInv, ReportsTypeOK
<1>10. reports.jobs[n].pc # "ok"
  BY DEF GenerateEnds
<1>11. ASSUME NEW r \in Report
       PROVE  (Cardinality(Listings(r)) = Cardinality(Ended(r)))'
  <2>1. /\ Cardinality(Listings(r)) = Cardinality(Ended(r))
        /\ IsFiniteSet(Listings(r)) /\ IsFiniteSet(Ended(r))
    <3>1. Listings(r) \subseteq DOMAIN reports.generated
          /\ Ended(r) \subseteq DOMAIN reports.jobs
      BY DEF Listings, Ended
    <3>2. QED
      BY <1>4, <3>1, PartsFinite DEF ReportsInv, GeneratedIsReal, Listings, Ended
  <2>2. CASE r = x
    <3>1. Listings(r)' = Listings(r) \cup {k} /\ k \notin Listings(r)
      BY <1>7, <1>9, <2>2, Zenon DEF Listings
    <3>2. Ended(r)' = Ended(r) \cup {n} /\ n \notin Ended(r)
      BY <1>2, <1>3, <1>9, <1>10, <2>2, Zenon DEF Ended
    <3>3. /\ Cardinality(Listings(r))' = Cardinality(Listings(r)) + 1
          /\ Cardinality(Ended(r))' = Cardinality(Ended(r)) + 1
      BY <2>1, <3>1, <3>2, FS_AddElement
    <3>4. QED
      BY <2>1, <3>3
  <2>3. CASE r # x
    <3>1. Listings(r)' = Listings(r)
      BY <1>7, <1>9, <2>3, Zenon DEF Listings
    <3>2. Ended(r)' = Ended(r)
      BY <1>2, <1>3, <1>9, <2>3, Zenon DEF Ended
    <3>3. QED
      BY <2>1, <3>1, <3>2
  <2>4. QED
    BY <2>2, <2>3
<1>12. reports'.file # None => (reports.file.report \in ToSet(reports.generated))'
  <2>1. ToSet(reports.generated) \subseteq ToSet(generated)
    BY <1>7 DEF ToSet
  <2>2. QED
    BY <1>9, <2>1 DEF ReportsInv, GeneratedIsReal
<1>13. QED
  BY <1>9, <1>11, <1>12 DEF ReportsInv, GeneratedIsReal, Listings, Ended

LEMMA ReportsSteps == ReportsInv /\ ReportsNext => ReportsInv'
<1> SUFFICES ASSUME ReportsInv, ReportsNext PROVE ReportsInv'
  OBVIOUS
<1>1. ASSUME NEW c \in {CategoryOf[r] : r \in Report} \cup {"All"},
             setActiveCategory(c)
      PROVE  ReportsInv'
  <2>1. /\ ReportsTypeOK' /\ reports'.generated = reports.generated
        /\ reports'.file = reports.file /\ reports'.jobs = reports.jobs
    BY <1>1 DEF setActiveCategory, ReportsInv, ReportsTypeOK
  <2>2. QED
    BY <2>1, NoneEnds DEF ReportsInv, GeneratedIsReal, Ended
<1>2. ASSUME NEW r \in Report, handleDownload(r) PROVE ReportsInv'
  <2>0. PICK numbers \in BOOLEAN : numbers = (reports.stats = "ok")
    OBVIOUS
  <2>1. PICK file \in [report : Report, numbers : BOOLEAN] :
           file = [report |-> r, numbers |-> numbers]
    OBVIOUS
  <2>2. reports' = [reports EXCEPT !.file = file] /\ r \in ToSet(reports.generated)
    BY <1>2, <2>0, <2>1 DEF handleDownload, ReportsInv, ReportsTypeOK
  <2>3. /\ ReportsTypeOK' /\ reports'.generated = reports.generated
        /\ reports'.file = file /\ reports'.jobs = reports.jobs
    BY <2>2 DEF ReportsInv, ReportsTypeOK
  <2>4. file.report = r
    BY <2>1
  <2>5. QED
    BY <2>2, <2>3, <2>4, NoneEnds DEF Ended
<1>3. ASSUME ReportStatsAnswered PROVE ReportsInv'
  <2>1. PICK answer \in {"ok", "error"} : reports' = [reports EXCEPT !.stats = answer]
    BY <1>3 DEF ReportStatsAnswered, StatsFetched
  <2>2. /\ ReportsTypeOK' /\ reports'.generated = reports.generated
        /\ reports'.file = reports.file /\ reports'.jobs = reports.jobs
    BY <2>1 DEF ReportsInv, ReportsTypeOK
  <2>3. QED
    BY <2>2, NoneEnds DEF ReportsInv, GeneratedIsReal, Ended
<1>4. QED
  BY <1>1, <1>2, <1>3, handleGenerateOK, GenerateAnsweredOK, GenerateEndsOK
     DEF ReportsNext, ReportsActs


-----------------------------------------------------------------------------
(* The visit *)

Inv ==
    /\ ShellInv /\ LoginInv /\ ReportsInv /\ SettingsInv
    /\ BoardInv /\ MapInv

\* A screen that is not followed keeps what is true of it.
LEMMA ScreensStay ==
    /\ ShellInv /\ UNCHANGED shell => ShellInv'
    /\ LoginInv /\ UNCHANGED login => LoginInv'
    /\ ReportsInv /\ UNCHANGED reports => ReportsInv'
    /\ SettingsInv /\ UNCHANGED settings => SettingsInv'
    /\ BoardInv /\ UNCHANGED board => BoardInv'
    /\ MapInv /\ UNCHANGED telemetry => MapInv'
<1>1. ShellInv /\ UNCHANGED shell => ShellInv'
  BY DEF ShellInv, ShellTypeOK, ResultsExplained, ScrollFollowsDrawer
<1>2. LoginInv /\ UNCHANGED login => LoginInv'
  BY DEF LoginInv, LoginTypeOK, OneSubmission, CodeIsAskedFor, CodeAsked
<1>3. ReportsInv /\ UNCHANGED reports => ReportsInv'
  BY DEF ReportsInv, ReportsTypeOK, GeneratedIsReal
<1>4. SettingsInv /\ UNCHANGED settings => SettingsInv'
  BY DEF SettingsInv, SettingsTypeOK, BannerIsEarned, SaveHasRoom
<1>5. BoardInv /\ UNCHANGED board => BoardInv'
  BY DEF BoardInv, BoardTypeOK, ShownIsComplete, LoadingOK, CallsGranted
<1>6. MapInv /\ UNCHANGED telemetry => MapInv'
  BY DEF MapInv, MapTypeOK, LayersAreFresh
<1>7. QED
  BY <1>1, <1>2, <1>3, <1>4, <1>5, <1>6

LEMMA InitInv == Init => Inv
  BY ShellMounts, LoginMounts, ReportsMount, SettingsMounts, BoardMounts, MapMounts
     DEF Init, Inv

LEMMA NextInv == Inv /\ [Next]_pageVars => Inv'
<1> SUFFICES ASSUME Inv, [Next]_pageVars PROVE Inv'
  OBVIOUS
<1>1. \/ ShellNext /\ UNCHANGED <<login, reports, settings, board, telemetry>>
      \/ LoginNext /\ UNCHANGED <<shell, reports, settings, board, telemetry>>
      \/ ReportsNext /\ UNCHANGED <<shell, login, settings, board, telemetry>>
      \/ SettingsNext /\ UNCHANGED <<shell, login, reports, board, telemetry>>
      \/ BoardNext /\ UNCHANGED <<shell, login, reports, settings, telemetry>>
      \/ TelemetryNext /\ UNCHANGED <<shell, login, reports, settings, board>>
      \/ UNCHANGED <<shell, login, reports, settings, board, telemetry>>
  BY DEF Next, pageVars
<1>2. QED
  BY <1>1, ScreensStay, ShellSteps, LoginSteps, ReportsSteps, SettingsSteps, BoardSteps,
     MapSteps
     DEF Inv

\* On whatever screen the visit is, what its page relies on holds after every click,
\* answer and timer.
THEOREM PagesInvariance == Spec => []Inv
  BY InitInv, NextInv, PTL DEF Spec

\* The state of every screen keeps its type; in particular the timers of the
\* settings page and the length the pulse closed over stay within their bounds.
THEOREM PagesTypes == Spec => []PagesTypeOK
<1>1. Inv => PagesTypeOK
  BY DEF Inv, ShellInv, LoginInv, ReportsInv, SettingsInv, BoardInv, MapInv,
         PagesTypeOK, FormsTypeOK
<1>2. QED
  BY <1>1, PagesInvariance, PTL

\* DashboardLayout.tsx: the panel shows another text's results only while the frame
\* still knows that it does, however many searches overtake one another, and the
\* page scrolls unless a drawer is over it.
THEOREM FramesAreHonest == Spec => []FrameIsHonest
<1>1. Inv => FrameIsHonest
  BY ShellIsHonest DEF Inv
<1>2. QED
  BY <1>1, PagesInvariance, PTL

\* login/page.tsx, reports/page.tsx, settings/page.tsx: one sign-in at a time, a code
\* only when asked for, one entry for each report that was generated, a banner only
\* for a save that was answered.
THEOREM FormsAreTrue == Spec => []FormsTellTheTruth
<1>1. Inv => FormsTellTheTruth
  BY DEF Inv, LoginInv, ReportsInv, SettingsInv, FormsTellTheTruth
<1>2. QED
  BY <1>1, PagesInvariance, PTL

\* The seven dashboards: a view shows all it asked for or nothing, in whatever order
\* the parts of its Promise.all are answered and whatever another tab does to the
\* role meanwhile.
THEOREM ViewsAreComplete == Spec => []ShownIsComplete
<1>1. Inv => ShownIsComplete
  BY DEF Inv, BoardInv
<1>2. QED
  BY <1>1, PagesInvariance, PTL

\* roles.config.ts, permissions.ts, Sidebar and the dashboards, whatever another tab
\* does to the role: a call was granted to the role it leaves under, and nobody lands
\* on a page that turns the role away but by the three links of the view a plain user
\* falls through to and by an export that was asked for under another role.
THEOREM CallsGrantedAlways == Spec => CallsAreGranted
<1>1. Inv /\ [Next]_pageVars => [GrantedStep]_board
  BY BoardGranted DEF Inv, Next, pageVars
<1>2. QED
  BY <1>1, PagesInvariance, PTL DEF Spec, CallsAreGranted, GrantedStep

\* LiveTelemetryMap.tsx: every layer on the map is the one a map drawn from nothing
\* would show, so no effect lacks a dependency.
THEOREM LayersFresh == Spec => []LayersAreFresh
<1>1. Inv => LayersAreFresh
  BY DEF Inv, MapInv
<1>2. QED
  BY <1>1, PagesInvariance, PTL

\* LiveTelemetryMap.tsx: whenever the pulse moves it is on the list, although the
\* list may have become shorter than the index since it moved before.
THEOREM PulseComesBackAlways == Spec => PulseComesBack
<1>1. Inv /\ [Next]_pageVars =>
        [telemetry'.now.index # telemetry.now.index =>
            telemetry'.now.index + 1 \in DOMAIN telemetry'.now.shipments]_telemetry
  BY IndexMoves DEF Inv, Next, pageVars
<1>2. QED
  BY <1>1, PagesInvariance, PTL DEF Spec, PulseComesBack
=============================================================================
