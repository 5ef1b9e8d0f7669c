---------------------------- MODULE MCViewStore ----------------------------
(***************************************************************************)
(* Instances of ViewStore for TLC.                                         *)
(***************************************************************************)
EXTENDS ViewStore, TLC

CONSTANTS c1, c2, c3

\* The calls differ in nothing but their names.
AnyOrder == Permutations(Calls)

Input(name, view, order) == [name |-> name, view |-> view, order |-> order]

\* Two views out of order; a name sent twice, once with blanks, before a third.
PlainPuts == {
    <<Input(<<"a">>, "v1", 2), Input(<<"b">>, "v2", 1)>>,
    <<Input(<<" ", "a">>, "v2", 0), Input(<<"a", " ">>, "v1", 0),
      Input(<<" ">>, "v1", 1), Input(<<"b">>, "v1", 0), Input(<<"c">>, "v1", 1)>>}

\* A name of three characters whose second is a blank, cut after the blank.
CutPuts == {
    <<Input(<<"a", " ", "b">>, "v1", 1), Input(<<"a">>, "v2", 2)>>,
    <<Input(<<"b">>, "v2", 0)>>}

\* No file yet, a file nobody can decode, and one edited by hand.
SomeOldFiles == {
    NoFile, Malformed,
    [items |-> <<[name |-> <<"b", " ">>, view |-> "v1"],
                 [name |-> <<"b">>, view |-> "v2"]>>, version |-> 2]}
=============================================================================
