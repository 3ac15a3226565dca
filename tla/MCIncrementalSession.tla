------------------------ MODULE MCIncrementalSession ------------------------
(* An image of four declarations in three files: boot and its private helper *)
(* in the first, mid and leaf in files of their own.                         *)
EXTENDS IncrementalSession

C(calls, consts, lit, pub, size) ==
  [calls |-> calls, consts |-> consts, lit |-> lit, pub |-> pub, size |-> size]

MCDecls == 1..4
MCFileOf == <<1, 1, 2, 3>>

Boot(calls, consts) == C(calls, consts, 1, TRUE, 1)
Helper(lit) == C({}, {}, lit, FALSE, 1)
Mid(consts) == C({}, consts, 1, TRUE, 1)
PrivateLeaf(lit) == C({}, {}, lit, FALSE, 1)
PublicLeaf(lit, consts, size) == C({}, consts, lit, TRUE, size)

MCSources ==
  { \* nothing is used: literal edits of private declarations are local
    <<Boot({}, {}), Helper(1), Mid({}), PrivateLeaf(1)>>,
    <<Boot({}, {}), Helper(1), Mid({}), PrivateLeaf(2)>>,
    \* mid grows before the reused leaf
    <<Boot({}, {}), Helper(1), C({}, {}, 1, TRUE, 2), PrivateLeaf(1)>>,
    \* the helper is evaluated at compile time
    <<Boot({}, {2}), Helper(1), Mid({}), PrivateLeaf(1)>>,
    <<Boot({}, {2}), Helper(2), Mid({}), PrivateLeaf(1)>>,
    \* the helper runs
    <<Boot({2}, {}), Helper(1), Mid({}), PrivateLeaf(1)>>,
    <<Boot({2}, {}), Helper(1), Mid({}), PrivateLeaf(2)>>,
    \* boot leads to leaf through mid; leaf changes its literal, what it
    \* exposes, its size, its visibility
    <<Boot({}, {3}), Helper(1), Mid({4}), PublicLeaf(1, {}, 1)>>,
    <<Boot({}, {3}), Helper(1), Mid({4}), PublicLeaf(2, {}, 1)>>,
    <<Boot({}, {3}), Helper(1), Mid({4}), PublicLeaf(1, {3}, 1)>>,
    <<Boot({}, {3}), Helper(1), Mid({4}), PublicLeaf(1, {}, 2)>>,
    <<Boot({}, {3}), Helper(1), Mid({4}), PrivateLeaf(1)>> }

MCPackages == {[shape |-> 1, id |-> 1], [shape |-> 1, id |-> 2], [shape |-> 2, id |-> 1]}
=============================================================================
