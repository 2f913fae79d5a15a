------------------------ MODULE MCScenePresentation ------------------------
(* Small instances of the scene: the frames on their way to the physical    *)
(* screen, and the rectangles tmux's layout divides it into.  A behaviour   *)
(* picks one of them and runs it alone.                                     *)
EXTENDS ScenePresentation

VARIABLES
    part,                                           \* "frames" or "layout"
    floats, open, nodes, panes, dividers, verdict   \* TmuxLayout

Layout == INSTANCE TmuxLayout WITH
    Width <- 3, Height <- 3, Starts <- {0, 2}, Spans <- {1, 3}, MaxNodes <- 5, MaxDepth <- 2

\* Updates that may change, and name as damage, any part of the scene.
PartialDamage == {d \in [kind : Kinds, rows : SUBSET Rows] : d.rows # {}}

frameVars == <<next, waiting, current, begun, owed, reported, scene, presented, confirmed,
               frame, screen, lifecycle, gap, dropped>>
layoutVars == <<floats, open, nodes, panes, dividers, verdict>>

SceneInit ==
    /\ part \in {"frames", "layout"}
    /\ InitScene /\ Layout!Init
    /\ part = "frames" => floats = {}
    /\ part = "layout" => \A r \in Rows : scene[r] = CHOOSE v \in Values : TRUE

InFrames == part = "frames" /\ NextScene /\ UNCHANGED <<part, layoutVars>>
InLayout == part = "layout" /\ Layout!Next /\ UNCHANGED <<part, frameVars>>

SceneNext == InFrames \/ InLayout
SceneSpec == SceneInit /\ [][SceneNext]_<<part, frameVars, layoutVars>>

-----------------------------------------------------------------------------
(* An accepted layout covers every cell of the window once, by a pane or by *)
(* a border (tmux_panes.rs, the layout parser).                             *)
LayoutTiles == Layout!LayoutTiles
=============================================================================
