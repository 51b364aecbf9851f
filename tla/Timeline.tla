------------------------------- MODULE Timeline -------------------------------
(***************************************************************************)
(* What a store of snapshots promises, without bases, differences, chains, *)
(* branches or processes' memories: a snapshot is a payload that never     *)
(* changes and goes only when it is deleted.  SnapshotStore implements it. *)
(* A lossy store may fail to load a snapshot, but it never loads another   *)
(* payload in its place.                                                   *)
(***************************************************************************)

CONSTANTS
  Owner,      (* who uses the store                                         *)
  Snapshot,   (* the names of snapshots                                     *)
  Payload     (* what can be saved                                          *)

VARIABLES
  lossy,      (* snapshots may become unreadable                            *)
  content,    (* the payload of each snapshot there is                      *)
  readable,   (* the snapshots that can be loaded                           *)
  restoring   (* the payload each owner has been given back and not yet     *)
              (* saved again                                                *)

contentVars == <<lossy, content, readable, restoring>>

Init ==
  /\ lossy \in BOOLEAN
  /\ content = [s \in {} |-> s] /\ readable = {}
  /\ restoring = [o \in Owner |-> {}]

(* Every snapshot can be loaded, unless the store is lossy.                 *)
Loads ==
  \/ readable' = DOMAIN content'
  \/ lossy /\ readable' \subseteq DOMAIN content'

(* A new snapshot; an owner who is restoring saves what it was given.       *)
Create(o, s, w) ==
  /\ s \notin DOMAIN content
  /\ restoring[o] \subseteq {w}
  /\ content' = [t \in DOMAIN content \cup {s} |-> IF t = s THEN w ELSE content[t]]
  /\ Loads
  /\ UNCHANGED <<lossy, restoring>>

Delete(s) ==
  /\ s \in DOMAIN content
  /\ content' = [t \in DOMAIN content \ {s} |-> content[t]]
  /\ Loads
  /\ UNCHANGED <<lossy, restoring>>

(* A restore gives back what the snapshot was created from.                 *)
Restore(o, s) ==
  /\ s \in readable
  /\ restoring[o] = {}
  /\ restoring' = [restoring EXCEPT ![o] = {content[s]}]
  /\ UNCHANGED <<lossy, content, readable>>

Restored(o) ==
  /\ restoring' = [restoring EXCEPT ![o] = {}]
  /\ UNCHANGED <<lossy, content, readable>>

(* Rearranging the rows changes no content.                                 *)
Rearrange ==
  /\ Loads
  /\ UNCHANGED <<lossy, content, restoring>>

Next ==
  \/ \E o \in Owner, s \in Snapshot, w \in Payload : Create(o, s, w)
  \/ \E s \in DOMAIN content : Delete(s)
  \/ \E o \in Owner, s \in DOMAIN content : Restore(o, s)
  \/ \E o \in Owner : Restored(o)
  \/ Rearrange

Spec == Init /\ [][Next]_contentVars

=============================================================================
