--------------------------- MODULE MCReorderBuffer ---------------------------
(* The queues are alike, so the first subframe may be taken to go to the    *)
(* first queue: this halves the steerings without losing a behaviour.       *)
EXTENDS ReorderBuffer

CONSTANTS q1, q2

MCSteerings == {s \in [Subframes -> Queues] : s[<<FirstId, 0>>] = q1}

(* Of these, the ones in which the frame after an A-MSDU goes with its      *)
(* second subframe and the frame after that with its first.                 *)
MCFollow ==
  {s \in MCSteerings :
     \A id \in Amsdu : /\ id + 1 \in Ids => s[<<id + 1, 0>>] = s[<<id, 1>>]
                       /\ id + 2 \in Ids => s[<<id + 2, 0>>] = s[<<id, 0>>]}

(* The ones in which every frame goes to another queue than the one before. *)
MCApart ==
  {s \in MCSteerings :
     \A id \in Ids : id + 1 \in Ids => s[<<id + 1, 0>>] # s[<<id, 0>>]}
==============================================================================
