------------------------- MODULE MCAnalyticsSignals -------------------------
EXTENDS AnalyticsSignals

Sale(id, client, date, positive) ==
    [id |-> id, client |-> client, date |-> date, positive |-> positive]

(* Client 1 has bought on days 1, 2 and 3 and is overdue from day 5 on;      *)
(* client 2 has bought on two days and brought something back on a third.    *)
SmallSales == {Sale(1, 1, 1, TRUE), Sale(2, 2, 1, TRUE), Sale(3, 1, 2, TRUE),
               Sale(4, 2, 2, TRUE), Sale(5, 1, 3, TRUE), Sale(6, 2, 3, FALSE)}
SmallRows  == {[client |-> 1, date |-> 4, positive |-> TRUE],
               [client |-> 2, date |-> 3, positive |-> TRUE]}
WholesaleOnly == [c \in ClientKeys |-> {"wholesale"}]
SmallDirectories ==
    {WholesaleOnly,
     [c \in ClientKeys |-> IF c = 1 THEN BuyerTypes ELSE {"corporate"}],
     Unavailable}
=============================================================================
