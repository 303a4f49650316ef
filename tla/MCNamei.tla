------------------------------- MODULE MCNamei -------------------------------
(* Namei.tla for two tasks in the root and one directory of it, and for two *)
(* tasks in a root that has no room for a fourth entry. *)
EXTENDS Namei

CONSTANTS t1, t2

MCTask == {t1, t2}
MCPath == [t \in MCTask |-> IF t = t1 THEN {<<"a">>, <<"a", "c">>} ELSE {<<"b">>, <<"d">>}]
MCCommon == {<<"a">>, <<"a", "c">>}
MCTree == {<<<<"a", "dir">>>>, <<<<"b", "reg">>>>}

FullPath == [t \in MCTask |-> IF t = t1 THEN {<<"b">>, <<"c">>} ELSE {<<"d">>}]
FullCommon == {<<"b">>, <<"c">>, <<"d">>}
FullTree == {<<<<"b", "reg">>>>}
==============================================================================
