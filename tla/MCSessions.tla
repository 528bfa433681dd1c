----------------------------- MODULE MCSessions -----------------------------
\* Instances of Sessions for TLC: an account at each of two providers.
EXTENDS Sessions, TLC

CONSTANTS google, github, here, there

Accounts == {<<google, 1>>, <<github, 1>>}

Ask(what) == [what |-> what, id |-> TRUE]
Notify(what) == [what |-> what, id |-> FALSE]

\* A switch of user before an act, a batch of three of the other kinds, and
\* an empty one.
Requests ==
    {<<>>, <<Notify("auth"), Ask("act")>>, <<Ask("malformed"), Notify("act"), Ask("read")>>}

\* The second account needs a second attempt to derive its key.
OneMiss == {<<<<github, 1>>, 0>>}
=============================================================================
