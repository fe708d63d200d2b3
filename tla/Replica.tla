------------------------------ MODULE Replica ------------------------------
(***************************************************************************)
(* What a live list promises.  Somebody else owns the items and changes    *)
(* them (truth: the version of each); a view shows some version of each,   *)
(* 0 for an item it does not show.  On its own the view only moves towards *)
(* the truth; an answer to a request its user made may set it back.        *)
(***************************************************************************)
EXTENDS Integers

CONSTANT Items
VARIABLES truth, shown, asking

replica == <<truth, shown, asking>>

Shows(s) == s \in [Items -> Nat] /\ \A i \in Items : s[i] <= truth[i]

ReplicaInit == truth \in [Items -> Nat] /\ shown = [i \in Items |-> 0] /\ asking \in BOOLEAN

Change == /\ shown' = shown /\ asking' = asking
          /\ truth' \in [Items -> Nat] /\ \A i \in Items : truth'[i] >= truth[i]
Learn  == /\ truth' = truth /\ asking' = asking
          /\ Shows(shown') /\ \A i \in Items : shown'[i] >= shown[i]
Ask    == asking' = TRUE /\ UNCHANGED <<truth, shown>>
Reply  == asking /\ asking' \in BOOLEAN /\ truth' = truth /\ Shows(shown')

ReplicaNext == Change \/ Learn \/ Ask \/ Reply
ReplicaSpec == ReplicaInit /\ [][ReplicaNext]_replica
=============================================================================
