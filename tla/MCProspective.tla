---------------------------- MODULE MCProspective ----------------------------
(* Two markets: "m" goes up first and has an episode of two fills downwards, *)
(* and a fill later that decides Y30; "n" turns once.  "h" is of before.     *)
EXTENDS ProspectiveCohort

Buy(id, market, dir, sec) ==
  [id |-> id, market |-> market, dir |-> dir, sec |-> sec, buy |-> TRUE, valid |-> TRUE]
MCFills == {Buy(1, "m", "up", 1), Buy(2, "m", "down", 2), Buy(3, "m", "down", 3),
            Buy(4, "m", "down", 6), Buy(5, "n", "up", 2), Buy(6, "n", "down", 3)}
Series(start) == [scope |-> TRUE, aligned |-> TRUE, start |-> start, end |-> 6]
MCLate == {f \in MCFills : f.id = 3}
MCOf == [m |-> Series(1), n |-> Series(1), h |-> Series(0)]
\* Up to the first opposite; or more, which takes too many windows.
MCRanges == {[start |-> 1, end |-> 7], [start |-> 1, end |-> 13]}
MCBaseline == [h |-> Blank("SAME_SECOND_AMBIGUITY")]

\* BOUND: the other programs do not run during a sync; they read nothing that
\* it writes but the store, and that only between calls.  Nor does a checkpoint
\* run beside a build that has not written its first file.
OneAtATime == /\ pc = "idle" \/ (build.pc = "idle" /\ check.pc = "idle")
              /\ build.pc = "features" => check.pc = "idle"
=============================================================================
