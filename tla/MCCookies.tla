------------------------------ MODULE MCCookies ------------------------------
EXTENDS Cookies

Pair(name, value) == [kind |-> "pair", key |-> name, val |-> value]
Attr(key, val) == [kind |-> "attr", key |-> key, val |-> val]
Odd(kind) == [kind |-> kind, key |-> "path", val |-> <<"b">>]
Token(is, n) == [is |-> is, n |-> n]
\* "Thu, 01-Jan-1970 00:00:02 GMT", "Thu Jan  1 00:00:02 1970" and a date that is none
Rfc850 == <<Token("number", 1), Token("month", 1), Token("number", 70), Token("time", 2)>>
Asctime == <<Token("month", 1), Token("number", 1), Token("time", 2), Token("number", 1970)>>
NoYear == <<Token("number", 1), Token("month", 1), Token("time", 2)>>

Org == <<"org", "a">>
Sub == <<"org", "a", "s">>
Address == <<"192.0.2.1">>
Addresses == {Address}
SomeHosts == {<<>>, Org, Sub, Address}
SomePaths == {Root, <<"b">>, <<"b", "">>}

\* What a server makes of two calls on one response.
Options == [domain : {<<>>, Org}, path : {Root}, maxage : {NONE, 1}, expires : {NONE, 2}, secure : {FALSE}]
Calls == {"set", "del"} \X Options
Called(cs, call, value) == IF call[1] = "set" THEN SetCookie(cs, "n", value, call[2]) ELSE DelCookie(cs, "n", call[2])
ServerHeaders ==
  {Output("n", Called(Called(Nothing, first, "1"), second, "2")["n"]) : first \in Calls, second \in Calls}

SomeHeaders ==
  {<<Pair("n", "1"), Attr("path", <<"b", "">>), Attr("max-age", 1)>>,
   <<Pair("n", "2"), Attr("domain", <<"org", "a", "">>), Attr("secure", TRUE)>>,
   <<Pair("n", "3"), Attr("max-age", BAD), Attr("expires", ParseDate(Rfc850))>>,
   <<Odd("dollar"), Pair("n", "4"), Attr("expires", ParseDate(Asctime)), Odd("bad"), Odd("attr"), Pair("m", "1"), Odd("none"), Pair("x", "1")>>}

\* The last call on a response decides what the client does: it sends a cookie
\* that was set, though it was deleted before, and not one that was deleted.
LastCallWins ==
  \A first, second \in Calls :
    LET cs == Called(Called(Nothing, first, "1"), second, "2")
        j == Updated(EmptyJar, Parsed(Output("n", cs["n"])), Org, Root)
    IN  calls = 0 /\ now = 0 =>
          Filtered(j, [host |-> Org, path |-> Root, secure |-> TRUE]) = IF second[1] = "del" THEN {} ELSE {[name |-> "n", value |-> "2"]}
=============================================================================
