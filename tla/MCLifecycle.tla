------------------------------ MODULE MCLifecycle ------------------------------
(* Lifecycle for TLC: an older and a newer build, one log, one private room.  *)
EXTENDS Lifecycle, TLC

(* It does not matter which ID is drawn first. *)
Symmetry == Permutations(Devices)

OneLog == <<[messages |-> {1, 2}, room |-> "lobby", reactions |-> {1}],
            [messages |-> {2}, room |-> "none", reactions |-> {2}]>>

OneFact == {[id |-> 1, room |-> "lobby"]}

(* The newer build adds a line to the version of the older one, and has two  *)
(* more versions.                                                            *)
TwoChangelogs ==
  <<<<[version |-> 1, lines |-> {"a"}]>>,
    <<[version |-> 3, lines |-> {"d"}], [version |-> 2, lines |-> {"c"}],
      [version |-> 1, lines |-> {"a", "b"}]>>>>

Versions == <<1, 2>>
Servers == [owner |-> "home", pest |-> "home"]
Two == <<"owner", "aide">>

(* A room others made, as against the first or second one with a person. *)
Den == {<<"den", 0>>}
=============================================================================
