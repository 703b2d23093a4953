----------------------------- MODULE MCComponents -----------------------------
(* Small instances of the components.                                      *)
EXTENDS Components

MCChain == <<"p", "q", "p">>

\* The default list, and one of all that the default leaves out.
MCStatusLists == {{"retryable"}, {"504", "denied", "fatal"}}

\* One key asked for twice with a different request in between, and with a
\* different key in between.
Ask(k, p) == [key |-> k, print |-> p]
MCAsks == {<<Ask("k", "a"), Ask("k", "b"), Ask("k", "a")>>,
           <<Ask("k", "a"), Ask("l", "a"), Ask("k", "a")>>}

MCKinds == {<<"path">>, <<"body">>, <<"unary">>}

\* Three calls in one choice, and in two that take turns.
MCLayouts == {<<0, 0, 0>>, <<0, 1, 0>>}

MCLegacy == [a |-> 1, b |-> 0]

\* A priced request and one without a price.
MCQuote == {[bounded |-> TRUE, amount |-> 1], [bounded |-> FALSE, amount |-> 0]}
=============================================================================
