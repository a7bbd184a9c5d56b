---- MODULE MCChat ----
(* An instance of ChatTurn for TLC. *)
EXTENDS ChatTurn

Says(told, signal) ==
    [req |-> [k \in Requirements |-> IF k \in DOMAIN told THEN told[k] ELSE 0],
     signal |-> signal, neutral |-> FALSE]

\* A first message with the trip, one that says nothing of it, a choice.
ThreeWords == {Says([trip |-> 1], "none"), Says(<<>>, "none"), Says(<<>>, "free")}
====
