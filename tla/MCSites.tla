------------------------------- MODULE MCSites -------------------------------
(* The instance of Sites for TLC: two folders that differ in case, a third   *)
(* site, a name no label may have, and one that is too long.                 *)
EXTENDS Sites

MCNames     == {<<"a">>, <<"A">>, <<"b", "1">>, <<"b", "-">>, <<"a", "b", "a">>}
MCUserLines == <<"u1", "u2">>
=============================================================================
