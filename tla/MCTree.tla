--------------------------------- MODULE MCTree ---------------------------------
(* A small device for TLC: a root, a matrix, the node of its target names (one as a
   parameter, one as a node with a name below it), the node of its parameters, a
   metered parameter and a function. *)
EXTENDS Tree, TLC

Root == <<1>>
Matrix == <<1, 1>>
Targets == <<1, 2>>
Params == <<1, 3>>
Meter == <<1, 4>>
Preset == <<1, 5>>

Element(path, kind, contents) == [path |-> path, kind |-> kind, contents |-> contents]
Node(path, identifier) == Element(path, "node", [identifier |-> identifier])
Value(path, v) == Element(path, "parameter", [value |-> v])
Online(b) == <<Element(Root, "node", [online |-> b])>>

TheMatrix ==
    Element(Matrix, "matrix",
        [count |-> "target" :> 2, signals |-> "source" :> {3},
         labels |-> <<<<2>>>>, params |-> Params])

TheMeter == Element(Meter, "parameter", [value |-> "-60", stream |-> "s1"])

NameOf0(v) == <<Value(Append(Targets, 0), v)>>
NameOf1 ==
    <<Element(Append(Targets, 1), "node", [identifier |-> "other"]),
      Element(Targets \o <<1, 0>>, "parameter", [identifier |-> "label", value |-> "B"])>>
ParamsOfTargets == <<Node(Append(Params, 0), "targets")>>

Directory ==
    <<TheMatrix, Node(Targets, "targets"), Node(Params, "other"), TheMeter,
      Element(Preset, "function", [identifier |-> "other"])>>

TheDocuments ==
    {<<Node(Root, "other")>>, Directory, NameOf0("A"), NameOf0("B"), NameOf1, ParamsOfTargets,
     Online(TRUE), Online(FALSE)}

\* Subscribed by an earlier session, a name is pushed before its directory is asked for.
EarlyPush == {<<Node(Root, "other")>>, Directory, NameOf0("A")}

\* The names arrive in two documents.
Pieces == {<<Node(Root, "other")>>, Directory, NameOf0("A"), NameOf1}

===============================================================================
