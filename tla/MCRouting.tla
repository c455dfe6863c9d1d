------------------------------ MODULE MCRouting ------------------------------
EXTENDS Routing
SomePaths == {<<"a", "">>, <<"*", "b">>, <<"**", "a">>}
SomeMounts == {<<"p">>}
SomeTargets ==
  {<<"a">>, <<"", "a", "">>, <<"p", "a", "b">>, <<"p", "..", "a">>}
UnicodePaths == {<<"é">>, <<"é", "*">>}
UnicodeTargets == {<<"é">>, <<"é", "x">>}
=============================================================================
