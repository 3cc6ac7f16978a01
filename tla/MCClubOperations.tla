-------------------------- MODULE MCClubOperations --------------------------
(* Instances of the club operation queue for TLC.                           *)
EXTENDS ClubOperations, TLC

(* Operation 1 stands alone or is the creation that operation 2 invites to. *)
NoCreation == [o \in Op |-> NoOp]
SecondInvites == [o \in Op |-> IF o = 2 THEN 1 ELSE NoOp]

WorkerSymmetry == Permutations(Worker)
=============================================================================
