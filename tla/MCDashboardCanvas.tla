-------------------------- MODULE MCDashboardCanvas --------------------------
(* Three components on three columns. *)
EXTENDS DashboardCanvasProperties

MCOrder == <<"a", "b", "c">>
MCSaved == "a" :> Rect(1, 1, 2, 1) @@ "b" :> Rect(1, 2, 1, 1) @@ "c" :> Rect(2, 3, 2, 1)
MCSpot == {<<3, 2>>, <<2, 5>>}
MCPull == {<<-1, 1>>}
=============================================================================
