---------------------------- MODULE MCSalesIntake ----------------------------
EXTENDS SalesIntake

File == INSTANCE SalesFile WITH ScanLimit <- 1000, HeadRows <- 3

Head1(key)  == [k |-> "heading", v |-> [exact |-> {key}, packed |-> {}, affixes |-> {}]]
(* "N doc. (1C)": found by the longest alias it starts with.                *)
HeadLong    == [k |-> "heading", v |-> [exact |-> {}, packed |-> {},
                  affixes |-> {<<5, "document_number">>, <<4, "client">>}]]
Text(s)     == [k |-> "text", v |-> s]
Money(n)    == [k |-> "amount", v |-> n]
Number(n)   == [k |-> "number", v |-> n]
Date(y, m, d) == [k |-> "date", v |-> Rfm!Day([y |-> y, m |-> m, d |-> d])]
Return      == [k |-> "excluded", v |-> 0]
Items(s)    == [k |-> "items", v |-> s]
Empty       == [k |-> "empty", v |-> 0]

(* A page of 1C without closing tags, cut off in its last row; the heading  *)
(* stands in two rows.  A sale whose totals are those of its positions, a   *)
(* return, and a sale of a client known for long.                           *)
Line(cells) == <<[k |-> "tr", v |-> 0]>>
    \o [i \in 1 .. 2 * Len(cells) |-> IF i % 2 = 1 THEN [k |-> "td", v |-> 0] ELSE cells[i \div 2]]
Page == [suffix |-> ".html", signature |-> "text", sheets |-> <<>>,
         tags |-> Line(<<Text("period")>>)
               \o Line(<<Head1("sale_date"), HeadLong, Text("x"), Head1("client")>>)
               \o Line(<<Text("x"), Text("x"), Head1("department"), Text("x"),
                         Head1("total_amount"), Head1("products")>>)
               \o Line(<<Date(2024, 2, 10), Text("n1"), Text("shop"), Text("ann"), Empty,
                         Items(<<[full |-> TRUE, quantity |-> 2, price |-> 300, base |-> 400]>>)>>)
               \o Line(<<Date(2024, 2, 11), Return, Text("shop"), Text("ann"), Money(700)>>)]

(* A workbook under a page's name: its first sheet has no heading.  The     *)
(* page's sale again, one paid in part with a certificate on the first day  *)
(* of the period, and one before it.                                        *)
Columns5 == <<Head1("sale_date"), Head1("document_number"), Head1("department"),
              Head1("client"), Head1("total_amount"), Head1("certificate_amount")>>
Book == [suffix |-> ".html", signature |-> "zip", tags |-> <<>>,
         sheets |-> << <<<<Text("x")>>>>,
            << Columns5,
               <<Date(2023, 2, 28), Text("n2"), Text("shop"), Text("bob"), Money(900), Money(200)>>,
               <<Date(2024, 2, 10), Text("n1"), Text("shop"), Text("ann"), Money(600)>> >> >>]

(* The layout of old exports: headings nobody can read, known positions.    *)
Old == [suffix |-> ".xls", signature |-> "ole", tags |-> <<>>,
        sheets |-> << << [i \in 1 .. 18 |-> Text("x")],
            [i \in 1 .. 18 |->
               CASE i = 2 -> Date(2022, 5, 1) [] i = 3 -> Text("n3") [] i = 4 -> Text("ann")
                 [] i = 5 -> Text("shop") [] i = 6 -> Number(500) [] OTHER -> Empty] >> >>]

(* A page that was cut off above its heading.                               *)
Torn == [Page EXCEPT !.tags = SubSeq(@, 1, 5)]

(* No document number in its only row.                                      *)
Flawed == [suffix |-> ".xlsx", signature |-> "zip", tags |-> <<>>,
           sheets |-> << << Columns5, <<Date(2024, 2, 12), Empty, Text("shop"), Text("ann"), Money(100)>> >> >>]

Contents == [page |-> Page, book |-> Book, old |-> Old, torn |-> Torn, flawed |-> Flawed]
Parsing  == [c \in DOMAIN Contents |-> File!Read(Contents[c], FALSE)]
TornAndPage == <<"torn", "page">>
OneBook     == <<"book">>
SharedSale == {{"n1"}}
LeapDay    == << [y |-> 2024, m |-> 2, d |-> 28], [y |-> 2024, m |-> 2, d |-> 29] >>

(* The arithmetic of a snapshot for every set of these sales, on both days:  *)
(* ties, a client who comes twice, the edges of the period and of the last   *)
(* 30 days, a sale before the period and one without a client.              *)
Bought(y, m, d, who, n) == [date |-> Rfm!Day([y |-> y, m |-> m, d |-> d]), client |-> who, amount |-> n]
Ledger == {Bought(2023, 2, 28, {"bob"}, 900), Bought(2023, 3, 1, {"eve"}, 600),
           Bought(2024, 2, 10, {"ann"}, 600), Bought(2024, 1, 29, {"ann"}, 300),
           Bought(2024, 1, 30, {"dan"}, 600), Bought(2022, 5, 1, {"dan"}, 500),
           Bought(2024, 2, 29, {"kim"}, 100), Bought(2024, 2, 28, {"leo"}, 900),
           Bought(2024, 2, 28, {}, 700)}
ASSUME ScoresAssumption == ScoresAgree(Parsed) /\ ScoresAgree(Ledger)
=============================================================================
