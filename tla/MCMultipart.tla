----------------------------- MODULE MCMultipart -----------------------------
EXTENDS Multipart
Leaf(body, length) == [body |-> body, length |-> length, within |-> <<>>, crlf |-> TRUE]
Nested(parts, crlf) == [body |-> <<>>, length |-> FALSE, within |-> parts, crlf |-> crlf]
Contents == {<<>>, <<"C", "L", "-">>, <<"x", "-", "b">>, <<"C", "C", "L">>}
Parts == {Leaf(body, length) : body \in Contents, length \in BOOLEAN}
SomeMessages ==
  {<<>>} \cup {<<Leaf(body, FALSE)>> : body \in {<<>>, <<"x", "-", "b">>}} \cup {<<p, Leaf(<<"x", "C">>, FALSE)>> : p \in Parts}
  \cup {<<Nested(<<p>>, TRUE), Leaf(<<"x">>, TRUE)>> : p \in {Leaf(<<"x">>, TRUE), Leaf(<<"C">>, FALSE)}}
  \cup {<<Nested(<<Leaf(<<"x">>, FALSE)>>, FALSE)>>}
NoEpilogue == {<<Nested(<<Leaf(<<"x">>, TRUE)>>, FALSE), Leaf(<<"x">>, FALSE)>>}
=============================================================================
