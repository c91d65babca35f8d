------------------------------ MODULE MCWatch ------------------------------
(* Values of the constants of Watch for TLC. *)
EXTENDS Watch

CONSTANTS A, B, once_a, every_a, once_b

MCPrice == 1..2

\* Friday before the open, Friday in the session, Monday in the session.
MCTimeline ==
    << [day |-> 4, minute |-> 500, ahead |-> 0],
       [day |-> 4, minute |-> 600, ahead |-> 240],
       [day |-> 7, minute |-> 600, ahead |-> 240] >>

\* A computed level and a fixed one, two triggers of one symbol, and one that
\* expires on the Friday.
MCRuleOf ==
    [n \in {once_a, every_a, once_b} |->
        IF n = every_a
        THEN [operator |-> "greater-than", frequency |-> "every_time", expires_at |-> 4]
        ELSE [operator |-> "crossing-down", frequency |-> "once", expires_at |-> None]]

MCDefinition ==
    [n \in Name |->
        [symbol |-> IF n = once_b THEN B ELSE A,
         rule   |-> MCRuleOf[n],
         value  |-> IF n = once_a THEN None ELSE 1]]

MCMoment == {MCTimeline[i] : i \in DOMAIN MCTimeline}
MCRules == {DefaultRule} \cup {MCRuleOf[n] : n \in Name}

MCStoredLevel == [s \in Symbol |-> [close |-> 2, low |-> 1]]
=============================================================================
