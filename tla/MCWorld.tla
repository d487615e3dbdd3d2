------------------------------ MODULE MCWorld ------------------------------
(***************************************************************************)
(* A map of seven by seven in four chunks of unequal sides, with two or    *)
(* three seas and as many cities as there is room for.                     *)
(***************************************************************************)
EXTENDS World

MCSquares == (0..Size - 1) \X (0..Size - 1)

\* Squares for seas: two that touch, one of them on the border, and one in the
\* way of a city.
MCSeaSquares == {<<0, 1>>, <<1, 1>>, <<3, 2>>}

\* All kinds of terrain, and squares that differ from their mirrors.
MCRolls == {[s \in MCSquares |-> CASE s[1] > s[2] /\ s[1] < 4 -> "Forest"
                                   [] s[1] > s[2] -> "Water"
                                   [] s[1] = s[2] -> "Mountain"
                                   [] OTHER -> "Field"]}
\* Resources that differ from a square to its mirror; below the diagonal everything a
\* terrain may yield.
MCFinds == {[s \in MCSquares |-> IF s[1] < s[2] THEN {"Farm"}
                                 ELSE {"Fish", "Animal", "Mining", "Fruit"}]}
=============================================================================
