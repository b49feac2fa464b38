------------------------------ MODULE MCSummary ------------------------------
(* Small instances of SummaryService for TLC. *)
EXTENDS SummaryService

\* Two seconds, a minute and a half, ten minutes, a negative value, no header.
MCRetryAfters == {4, 180, 1200, -6, NoHeader}

\* Empty, short, one that is halved twice, one with a message no budget holds
\* unless its picture's description is shorter, one message too many; pictures in
\* messages that a description pushes over the budget.
MCWindows ==
    {[chars |-> <<>>, pictures |-> <<>>],
     [chars |-> <<2>>, pictures |-> <<1>>],
     [chars |-> <<1, 1, 1, 1>>, pictures |-> <<2, 4>>],
     [chars |-> <<3, 2, 1, 3>>, pictures |-> <<>>],
     [chars |-> <<1, 1, 8>>, pictures |-> <<3>>],
     [chars |-> <<1, 1, 1, 1, 1>>, pictures |-> <<1>>]}
MCContents == {<<"a">>, <<"b", "a">>}
MCUsages == {3, NoUsage}
===============================================================================
