---------------------------- MODULE MC_RemoteEngine ----------------------------
(* Small instances of RemoteEngine: two threads, a part of the structure    *)
(* and a cell.                                                              *)
EXTENDS RemoteEngine, TLC

MC_Op == Operation

MC_Quick == {op \in Operation : op.kind = "query"}

(* One thread over a network that breaks to a server that ends, and shuts   *)
(* down;  two threads, also over such a network;  changes of the workspace: *)
(* methods of several calls of which the server refuses one, workspaces     *)
(* that are loaded and scopes, undo and filled cells, and changes by two    *)
(* threads.                                                                 *)
MC_Settings ==
  {{"faults", "down", "errors", "close"}, {"interrupt"},
   {"threads", "faults", "down"}, {"threads", "close"},
   {"edits", "errors", "batch"}, {"edits", "errors", "load", "scope"}, {"edits", "fill", "undo"},
   {"edits", "threads"}}
================================================================================
