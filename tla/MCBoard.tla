------------------------------ MODULE MCBoard ------------------------------
(* Board on the smallest map that holds two cities, most of it under water. *)
EXTENDS Board, TLC

TwoCapitals == 1 :> <<1, 2>> @@ 2 :> <<4, 3>>

\* Between the cities; recruits of tribe 1 arrive on the first mountain.
Fields    == {<<1, 2>>, <<2, 2>>, <<3, 3>>, <<3, 4>>, <<4, 3>>}
Mountains == {<<2, 1>>, <<2, 3>>}

Land == [s \in Squares |-> IF s \in Fields THEN "Field"
                           ELSE IF s \in Mountains THEN "Mountain" ELSE "Water"]

Mines == [s \in Squares |-> IF s = <<2, 3>> THEN {"Mining"}
                            ELSE IF s = <<2, 2>> THEN {"Fruit"} ELSE {}]

Bare == [s \in Squares |-> {}]
=============================================================================
