---------------------------- MODULE MCMembership ----------------------------
(* Membership for TLC: one member that always reacts in time and one that  *)
(* may outlast the promotion's wait.                                       *)
EXTENDS Membership
CONSTANTS prompt, slow

(* The behaviours the liveness properties are checked on.  Two members are *)
(* there together, and replace each other, as long as nobody is promoted   *)
(* and the room is not destroyed; for that the second one stays away.      *)
(* Nothing forces a member to come, a promotion or a destroy, so these are *)
(* behaviours of FairSpec.                                                 *)
Together == \A m \in Members : \E o \in Members \ {m} : pc[o] # "new"
Quiet == promotions = 0 /\ target = NoOne /\ ~ destroyed

QuietNext == Next /\ (Together => Quiet)'
QuietSpec == Init /\ [][QuietNext]_vars /\ Fairness
=============================================================================
