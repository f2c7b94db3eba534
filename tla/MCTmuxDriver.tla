---- MODULE MCTmuxDriver ----
(* The tmux driver with two browser texts and one prompt typed in the pane.   *)
EXTENDS TmuxDriver
====
