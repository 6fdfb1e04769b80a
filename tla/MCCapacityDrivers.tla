------------------------- MODULE MCCapacityDrivers -------------------------
(* Model of CapacityDrivers for TLC: scaled loop bounds and object sizes. *)
EXTENDS CapacityDrivers

MCBound == [d \in DOMAIN Scenario |->
              CASE d = "public" -> 4 [] d = "corrected" -> 6 [] d = "quiet" -> 2
                [] d \in {"measurement", "compare"} -> 3 [] OTHER -> 1]
MCBytes == [commits |-> 1, trees |-> 2, blobs |-> 3]
MCBench == {Off,
            [Off EXCEPT !.conflict = "once"],
            [Off EXCEPT !.lost = TRUE],
            [Off EXCEPT !.lost = TRUE, !.fail_after_ack = TRUE],
            [Off EXCEPT !.conflict = "always"]}
=============================================================================
