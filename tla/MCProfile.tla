------------------------------ MODULE MCProfile ------------------------------
(***************************************************************************)
(* An instance of Profile for TLC: two topics, one of them written in two  *)
(* ways, a code that is too long, and two goals that differ in case.       *)
(***************************************************************************)
EXTENDS Profile, TLC

Spelled == "go" :> "go" @@ "Go" :> "go" @@ "ml" :> "ml" @@ "-" :> "" @@ "long" :> "long"
Cases == "lead" :> "lead" @@ "Lead" :> "lead"

Text(stack, interests, anti, goals) ==
  [stack |-> stack, interests |-> interests, anti |-> anti, goals |-> goals]
Texts == {Text(<<"Go">>, <<"ml", "Go">>, <<"go", "long">>, <<"lead", "Lead">>),
          Text(<<>>, <<"-", "go", "Go">>, <<>>, <<>>)}
Lacks == {<<"ml", "Go", "long", "ml">>, <<"go">>}
Picks == {NotGiven, [interests |-> <<"Go">>, anti |-> NotGiven],
          [interests |-> <<>>, anti |-> <<"ml">>]}

NoChange == [addInterests |-> <<>>, removeInterests |-> <<>>, addAnti |-> <<>>,
             removeAnti |-> <<>>, addGoals |-> <<>>, removeGoals |-> <<>>]
Edits == {[NoChange EXCEPT !.addInterests = <<"Go", "ml">>],
          [NoChange EXCEPT !.addAnti = <<"go">>],
          [NoChange EXCEPT !.addInterests = <<"ml">>, !.addAnti = <<"ml">>],
          [NoChange EXCEPT !.addGoals = <<"Lead">>, !.removeInterests = <<"ml">>],
          [NoChange EXCEPT !.removeGoals = <<"Lead">>, !.removeAnti = <<"Go">>]}

(* Each names a topic once.                                                *)
ClearEdits == {c \in Edits : ~NamedTwice(c)}

Interchangeable == Permutations(Updates)
=============================================================================
