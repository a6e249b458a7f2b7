--------------------------- MODULE MCTopologicalSort ---------------------------
(* Lists of up to four templates, with a repeated name, an unknown or a     *)
(* repeated dependency.                                                      *)
EXTENDS TopologicalSort

NameLists == {<<>>, <<"a">>, <<"a", "b", "a">>, <<"a", "b", "c">>, <<"a", "b", "c", "d">>}

DepLists ==
  {<<>>, <<"a", "a">>, <<"a", "x">>, <<"a", "b">>, <<"b", "c">>, <<"d", "a">>}
    \cup {<<d>> : d \in {"a", "b", "c", "d"}}

MCInputs ==
  UNION {{[i \in DOMAIN names |-> [name |-> names[i], deps |-> deps[i]]] :
            deps \in [DOMAIN names -> DepLists]} : names \in NameLists}
=============================================================================
