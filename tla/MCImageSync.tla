------------------------------ MODULE MCImageSync ------------------------------
(* The installations of file sync that are checked, with the frames of their   *)
(* night: f1 and f2 never saved (0), saved (2), or saved and then stamped (4). *)
EXTENDS ImageSync

CONSTANTS f1, f2

Site(sides, a, b, operator) ==
  [sides |-> sides, last |-> [f \in Frames |-> IF f = f1 THEN a ELSE b], operator |-> operator]

Sites == {
  Site({"push"}, 4, 0, FALSE),
  Site({"push"}, 2, 0, TRUE),
  Site({"push"}, 2, 2, FALSE),
  Site({"pull"}, 4, 0, FALSE),
  Site({"pull"}, 2, 2, FALSE),
  Site({"push", "pull"}, 2, 0, FALSE)}
================================================================================
