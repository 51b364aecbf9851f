----------------------------- MODULE MC_Transport -----------------------------
(* Small instances of Transport: three callers;  and for events two         *)
(* publishers, and a topic with a pattern.                                  *)
EXTENDS Transport, TLC

MC_Matches(p) == {p}

(* Callers that share a connection, one after the other, with late replies  *)
(* and with lost connections;  events;  and replies and events that cannot  *)
(* be sent.                                                                 *)
MC_Settings ==
  {{"slow"}, {"shared", "slow"}, {"shared", "lost"},
   {"events"}, {"events", "overlap"}, {"events", "slow"}, {"events", "lost"},
   {"events", "leave"}, {"shared", "unsent"}, {"events", "unsent"},
   {"events", "unserializable"}}
===============================================================================
