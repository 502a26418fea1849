----------------------------- MODULE MCInteraction -----------------------------
(* A button as the root screen, a ContextMenu around a button and a lone   *)
(* button as the screens pushed over it, and a Dialog over a Select.       *)
EXTENDS Interaction, TLC

CONSTANTS root, nav, home, screen, button, next, dialog, select

MCWidgets == {root, nav, home, screen, button, next, dialog, select}
MCParent == (root :> None @@ nav :> root @@ home :> nav @@ screen :> nav @@
             button :> screen @@ next :> nav @@ dialog :> root @@ select :> dialog)
MCKind == (root :> "box" @@ nav :> "navigator" @@ home :> "button" @@
           screen :> "context" @@ button :> "button" @@ next :> "button" @@
           dialog :> "dialog" @@ select :> "select")
MCRank == (root :> 1 @@ nav :> 2 @@ home :> 3 @@ screen :> 4 @@ button :> 5 @@
           next :> 6 @@ dialog :> 7 @@ select :> 8)
===============================================================================
