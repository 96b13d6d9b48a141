---------------------------- MODULE TelemetryMap ----------------------------
(***************************************************************************)
(* LiveTelemetryMap, the map of the AdminDashboard and of the shipments    *)
(* page: its layers and its interval are kept by effects, each with a      *)
(* cleanup and a list of dependencies; the parent gives it the shipments,  *)
(* the statistics and the selection.                                       *)
(*                                                                         *)
(* Lists and shipments are new objects with every answer, and dependencies *)
(* are compared as objects: version counts the lists.  Coordinates,        *)
(* colours and the camera are left out.                                    *)
(***************************************************************************)
EXTENDS Naturals, Sequences, SequencesExt, Screen

CONSTANTS
    Ship,         \* shipments
    Placed,       \* those whose origin and destination have coordinates
    List,         \* the lists of shipments the parent may give
    Cycle,        \* shipments the pulse goes through (10 in the code)
    MaxVersion    \* bound: lists given

ASSUME MapAssumption ==
    /\ None \notin Ship
    /\ Placed \subseteq Ship
    /\ List \subseteq Seq(Ship) /\ <<>> \in List   \* the list before the first answer
    /\ Cycle \in Nat \ {0}
    /\ MaxVersion \in Nat

VARIABLE telemetry   \* the last rendering, and what its effects have left on the map

-----------------------------------------------------------------------------

Lesser(a, b) == IF a < b THEN a ELSE b

\* The props and the state of a rendering.  selectedId is the parent's; the
\* selected shipment is looked up in the list.
Rendering == [shipments : List, version : 0..MaxVersion, stats : BOOLEAN,
              selectedId : Ship \cup {None}, showHeatmap : BOOLEAN, index : Nat]

Selected(r) == IF r.selectedId \in ToSet(r.shipments) THEN r.selectedId ELSE None

\* What each effect puts on the map, None when it returns early: a value that tells
\* one drawing from another.  tick is the interval, with the length it closed over.
DrawHeat(r)   == IF r.stats /\ r.showHeatmap THEN "heat" ELSE None
DrawRegion(r) == IF r.stats /\ ~r.showHeatmap THEN "regions" ELSE None
DrawRoutes(r) == IF r.shipments = <<>> THEN None
                 ELSE [of |-> ToSet(r.shipments) \cap Placed, bold |-> Selected(r)]

\* Faulty: the pulse goes through the whole list.
DrawTickUncapped(r) == IF r.shipments = <<>> \/ Selected(r) # None THEN 0
                       ELSE Len(r.shipments)

DrawTick(r)   == IF r.shipments = <<>> \/ Selected(r) # None THEN 0
                 ELSE Lesser(Len(r.shipments), Cycle)
DrawPulse(r)  ==
    LET ship == IF Selected(r) # None THEN Selected(r)
                ELSE IF r.index + 1 \in DOMAIN r.shipments THEN r.shipments[r.index + 1]
                ELSE None
    IN  IF ship \in Placed THEN [at |-> ship, big |-> Selected(r) # None] ELSE None

Layers(r) == [heat |-> DrawHeat(r), region |-> DrawRegion(r), routes |-> DrawRoutes(r),
              tick |-> DrawTick(r), pulse |-> DrawPulse(r)]

\* The shipment object that is selected: another one with every list.
SelectedObject(r) == <<Selected(r), IF Selected(r) = None THEN 0 ELSE r.version>>

\* Faulty: the pulse is drawn again by the interval and the selection only.
DependenciesShort(r) ==
    [heat   |-> <<r.stats, r.showHeatmap>>,
     region |-> <<r.stats, r.showHeatmap>>,
     routes |-> <<r.version, SelectedObject(r)>>,
     tick   |-> <<r.version, SelectedObject(r)>>,
     pulse  |-> <<r.index, SelectedObject(r)>>]

Dependencies(r) ==
    [heat   |-> <<r.stats, r.showHeatmap>>,
     region |-> <<r.stats, r.showHeatmap>>,
     routes |-> <<r.version, SelectedObject(r)>>,
     tick   |-> <<r.version, SelectedObject(r)>>,
     pulse  |-> <<r.index, r.version, SelectedObject(r)>>]

\* React runs the effects whose dependencies have changed: the cleanup takes the
\* layer away, the effect draws it from the new rendering.
Render(r) ==
    telemetry' = [now    |-> r,
                  layers |-> [l \in DOMAIN telemetry.layers |->
                     IF Dependencies(r)[l] = Dependencies(telemetry.now)[l]
                     THEN telemetry.layers[l] ELSE Layers(r)[l]]]

MapMounted == [shipments |-> <<>>, version |-> 0, stats |-> FALSE,
               selectedId |-> None, showHeatmap |-> FALSE, index |-> 0]

TelemetryInit == telemetry = [now |-> MapMounted, layers |-> Layers(MapMounted)]

\* The parent's list is answered, or an item of it is marked; the shipments page
\* has dropped the selection when it asked for another page.
GiveShipments(list, keep) ==
    /\ telemetry.now.version < MaxVersion
    /\ Render([telemetry.now EXCEPT !.shipments = list, !.version = @ + 1,
                                    !.selectedId = IF keep THEN @ ELSE None])

GiveStats == ~telemetry.now.stats /\ Render([telemetry.now EXCEPT !.stats = TRUE])

\* A row of the parent's table, or the cross of the card.
ClickRow(s) ==
    /\ s \in ToSet(telemetry.now.shipments)
    /\ Render([telemetry.now EXCEPT !.selectedId = IF @ = s THEN None ELSE s])

CloseCard ==
    /\ Selected(telemetry.now) # None
    /\ Render([telemetry.now EXCEPT !.selectedId = None])

ToggleHeatmap == Render([telemetry.now EXCEPT !.showHeatmap = ~@])

\* Faulty: the pulse goes on through the end of the list.
TickThrough ==
    /\ telemetry.layers.tick # 0
    /\ Render([telemetry.now EXCEPT !.index =
                  IF @ < Cycle THEN @ + 1 ELSE 0])

\* The interval of 3 s, with the length it closed over.
Tick ==
    /\ telemetry.layers.tick # 0
    /\ Render([telemetry.now EXCEPT !.index = (@ + 1) % telemetry.layers.tick])

TelemetryActs ==
    \/ \E list \in List, keep \in BOOLEAN : GiveShipments(list, keep)
    \/ GiveStats
    \/ \E s \in Ship : ClickRow(s)
    \/ CloseCard \/ ToggleHeatmap

TelemetryNext == TelemetryActs \/ Tick

-----------------------------------------------------------------------------
(* Properties *)

MapTypeOK ==
    /\ telemetry.now \in Rendering
    /\ DOMAIN telemetry.layers = {"heat", "region", "routes", "tick", "pulse"}
    /\ telemetry.layers.tick \in 0..Cycle

\* Every layer, and the length the interval has closed over, is what a map drawn
\* from nothing would show: no dependency is missing, no cleanup leaves the layer
\* of an older list, and the heat and the region circles are never both there.
LayersAreFresh == telemetry.layers = Layers(telemetry.now)

\* The pulse goes round: an index that a shorter list has left behind comes back
\* onto the list with the next step of the index, whatever came between.
PulseComesBack ==
    [][telemetry'.now.index # telemetry.now.index =>
          telemetry'.now.index + 1 \in DOMAIN telemetry'.now.shipments]_telemetry
=============================================================================
