--------------------------- MODULE MCAlertEngine ---------------------------
(* Values of the constants of AlertEngine for TLC. *)
EXTENDS AlertEngine

\* Day 4 is a Friday, day 5 a Saturday.  The late print of day 4 is written in
\* UTC in winter, five hours ahead: its own date is already day 5.
MCMoment ==
    { [day |-> 4, minute |-> 569,  ahead |-> 0],
      [day |-> 4, minute |-> 570,  ahead |-> 300],
      [day |-> 4, minute |-> 1150, ahead |-> 300],
      [day |-> 4, minute |-> 1200, ahead |-> 0],
      [day |-> 5, minute |-> 700,  ahead |-> 0],
      [day |-> 7, minute |-> 959,  ahead |-> 240] }

MCRules ==
    { [operator |-> o, frequency |-> f, expires_at |-> x] :
          o \in {"crossing-down", "greater-than"}, f \in Frequency, x \in {4, None} }

MCPrice == 1..2
MCBarDate == {1, 2}
MCBoth == {"regular", "extended"}
=============================================================================
