----------------------------- MODULE AtomicVolume -----------------------------
(* What the roothealth journal promises of the volume it repairs: a repair    *)
(* transaction is there wholly or not at all.  `vol` is the volume a later    *)
(* boot will be given; `prev` is the volume from before the last transaction  *)
(* for as long as that transaction can still be taken back.                   *)
CONSTANTS Targets, Contents,
          Outcome(_, _)   \* Outcome(v, w): some plan turns volume v into w
VARIABLES vol, prev

Volumes == [Targets -> Contents]

Init == vol \in Volumes /\ prev = vol

(* All writes of a transaction take effect at once.                           *)
Commit == /\ prev = vol
          /\ vol' \in Volumes
          /\ Outcome(vol, vol')
          /\ prev' = vol

(* A committed transaction becomes final ...                                  *)
Accept == vol' = vol /\ prev' = vol

(* ... or, before that, is taken back as a whole.                             *)
Revert == vol' = prev /\ prev' = prev

Next == Commit \/ Accept \/ Revert

Spec == Init /\ [][Next]_<<vol, prev>>
=============================================================================
