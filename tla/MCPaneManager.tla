----------------------------- MODULE MCPaneManager -----------------------------
(* The panes on their own, their calls made in any order. *)
EXTENDS PaneManager
===============================================================================
