----------------------------- MODULE MCListPage -----------------------------
EXTENDS ListPage

R(delivery, temp, humid, route, fraud, origin, order) ==
    [delivery |-> delivery, temp |-> temp, humid |-> humid, route |-> route,
     fraud |-> fraud, origin |-> origin, order |-> order]

\* Two items of one order, one held and one released; two pages of each list.
MCRow1 == R("Late", 1, 0, 0, 1, 0, 1)
MCRow2 == R("OnTime", 0, 0, 0, 0, 0, 1)
MCRow3 == R("Other", 0, 1, 1, 0, 0, 2)
MCUsed == {<<MCRow1, MCRow2, MCRow3>>}

\* Every sequence of at most three of six kinds of row.
MCRows == {MCRow1, MCRow2, MCRow3, R("Canceled", 0, 1, 0, 0, 0, 2),
           R("Advance", 0, 0, 0, 0, 1, 2), R("Late", 1, 1, 1, 1, 1, 2)}
MCDeployment == UNION {[1..n -> MCRows] : n \in 0..3}
=============================================================================
