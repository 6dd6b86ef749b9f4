----------------------------- MODULE MCPeriodic -----------------------------
(* Small instances of Periodic for TLC.                                     *)
EXTENDS Periodic

Cfg(spec, type, payload) == [spec |-> spec, type |-> type, payload |-> payload, rest |-> "h"]

a == Cfg(<<"*">>, <<"x">>, <<"y">>)
a2 == [a EXCEPT !.rest = "i"]
b == Cfg(<<"*">>, <<"x">>, <<"z">>)
bad == Cfg(<<"?">>, <<"x">>, <<>>)
none == Cfg(<<>>, <<"x">>, <<>>)
MCBadSpec == {<<"?">>}

\* Lists of different configs; one that cron refuses, one that is invalid, and one
\* whose headers alone change.
Distinct == {<<>>, <<a>>, <<b, a2>>, <<bad, b>>, <<a, none>>}

\* A change of the headers alone.
Unhashed == {<<a>>, <<a2>>}

\* The same config twice.
Twice == {<<>>, <<a, a>>}

\* Two configs whose type and payload are one text, cut at different places.
Shifted == {<<>>, <<a>>, <<Cfg(<<"*">>, <<"x", "y">>, <<>>)>>}
=============================================================================
