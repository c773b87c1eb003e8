--------------------------- MODULE MCCapability ---------------------------
(* Capabilities: two threads, the second spawned at run time; one object   *)
(* (and its id before it exists), the rights GRANT and SEND, and an audit  *)
(* ring of two records that overflows.                                     *)
(* The desktop: two windows of 2 x 2 with a title bar on a screen of 3 x 4 *)
(* with a menu bar, so that windows overlap, leave the screen and cover    *)
(* the pointer.  Rectangles on a grid of 3 x 3, fed in twos.  Input: three *)
(* threads that register a window each, and the two PS/2 drivers.          *)
(* The parts share no state; part says which one a behaviour exercises.    *)
EXTENDS Capability, Desktop, InputRouting, Ps2

CONSTANTS s1, s2

VARIABLE part

MCThreads == {"t1", "t2"}
MCBoot    == {"t1"}
MCRights  == {"GRANT", "SEND"}
MCPolicy  == {"SEND"}
MCKinds   == {"File"}
MCHome    == (s1 :> <<0, 1>>) @@ (s2 :> <<1, 2>>)
MCMotions == {<<0, 0>>, <<1, 0>>, <<0, 1>>, <<-1, 1>>, <<2, -1>>}
MCRowSpans == {<<0, 1>>, <<1, 2>>}
MCTargets == {<<0, 0>>, <<9, 9>>}

mcvars == <<part, vars, geoVars, deskVars, routeVars, ps2Vars>>

MCInit ==
  /\ part \in {"capability", "geometry", "desktop", "routing", "ps2"}
  /\ Init /\ GeoInit /\ RouteInit /\ Ps2Init
  /\ \E order \in {<<>>, <<s1, s2>>} : DeskInit(order) /\ (part # "desktop" => order = <<>>)
  /\ part # "geometry" => gTarget = Rect(0, 0, 1, 1)
  /\ part # "ps2" => irq1

Only(p, A) == part = p /\ A /\ UNCHANGED part

MCNext ==
  \/ Only("capability", Next) /\ UNCHANGED <<geoVars, deskVars, routeVars, ps2Vars>>
  \/ Only("geometry", GeoNext) /\ UNCHANGED <<vars, deskVars, routeVars, ps2Vars>>
  \/ Only("desktop", DeskNext) /\ UNCHANGED <<vars, geoVars, routeVars, ps2Vars>>
  \/ Only("routing", RouteNext) /\ UNCHANGED <<vars, geoVars, deskVars, ps2Vars>>
  \/ Only("ps2", Ps2Next) /\ UNCHANGED <<vars, geoVars, deskVars, routeVars>>

MCSpec == MCInit /\ [][MCNext]_mcvars
=============================================================================
