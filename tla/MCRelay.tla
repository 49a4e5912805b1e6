------------------------------ MODULE MCRelay -------------------------------
EXTENDS Relay
\* Complete requests: with a Host line, with a dropped line and bytes behind
\* the header, and one whose header is too long.  Then: not GET, broken off
\* after a kept and after a dropped line, a dropped line longer than MAXLINE,
\* nothing.
MCRequests == {
    <<"G", "n", "H", "r", "n", "r", "n">>,
    <<"G", "n", "U", "n", "x", "n", "r", "n", "x">>,
    <<"G", "n", "x", "x", "n", "r", "n">>,
    <<"x", "n">>,
    <<"G", "n", "x">>,
    <<"G", "n", "U", "n">>,
    <<"G", "n", "U", "x", "x", "x", "x", "x", "x", "x", "x", "r", "n", "r", "n">>,
    <<>>}
Upto(n) == [i \in 1 .. n |-> i]
\* Nothing, less than a piece, a NUL inside, the limit, and one byte more.
MCAnswers == {Upto(0), Upto(4), [Upto(11) EXCEPT ![3] = 0], Upto(20), Upto(21)}
=============================================================================
