---------------------------- MODULE MCPredicates ----------------------------
(***************************************************************************)
(* Every pair of a granted and a requested predicate over one path, one    *)
(* number and one name, alone and in pairs of pointers or scopes.          *)
(***************************************************************************)
EXTENDS Predicates, FiniteSets

Number(n) == [type |-> "number", v |-> n]
Path(s) == [type |-> "string", v |-> s]

PathText == {<<"a">>, <<"a", "b">>, <<"b">>}
PathPred ==
  {[ptr |-> "path", op |-> "eq", value |-> Path(s)] : s \in PathText}
    \cup {[ptr |-> "path", op |-> "in", values |-> {Path(s) : s \in set}] :
            set \in (SUBSET PathText) \ {{}}}
    \cup {[ptr |-> "path", op |-> "path_prefix", value |-> s] : s \in PathText}

NumberPred ==
  {[ptr |-> "version", op |-> "eq", value |-> Number(n)] : n \in 0 .. 2}
    \cup {[ptr |-> "version", op |-> "in", values |-> {Number(n) : n \in set}] :
            set \in (SUBSET (0 .. 2)) \ {{}}}
    \cup {[ptr |-> "version", op |-> "int_range", min |-> ends[1], max |-> ends[2]] :
            ends \in {e \in (0 .. 2) \X (0 .. 2) : e[1] <= e[2]}}

Where == {{}} \cup {{p} : p \in PathPred \cup NumberPred}
Wide == {[ptr |-> "path", op |-> "path_prefix", value |-> <<"a">>]}
NarrowVersion == {[ptr |-> "version", op |-> "int_range", min |-> 1, max |-> 1]}

ScopeOn(tool, where) == [tool |-> tool, where |-> where]
MCRequest ==
  {{ScopeOn("read", w)} : w \in Where}
    \cup {{ScopeOn("read", Wide \cup w)} : w \in Where}
    \cup {{ScopeOn("read", Wide), ScopeOn("delete", w)} : w \in Where}
MCGrants ==
  {{ScopeOn("read", w)} : w \in Where}
    \cup {{ScopeOn("read", w), ScopeOn("delete", NarrowVersion)} : w \in Where}

\* One or both fields are present, and a field may hold a value of another type.
MCArgs ==
  [{"path"} -> {Path(s) : s \in PathText} \cup {Number(1)}]
    \cup [{"version"} -> {Number(n) : n \in 0 .. 2} \cup {Path(<<"a">>)}]
    \cup {[f \in {"path", "version"} |-> IF f = "path" THEN Path(s) ELSE Number(n)] :
            s \in PathText, n \in 0 .. 2}
=============================================================================
