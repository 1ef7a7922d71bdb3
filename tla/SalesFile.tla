------------------------------ MODULE SalesFile ------------------------------
(***************************************************************************)
(* importer/parser.py: what an exported file of sales says.  A file is     *)
(*   [suffix, signature, sheets, tags]                                     *)
(* sheets are the rows of a workbook, tags the mark-up of an HTML page.  A *)
(* cell is [k, v]: its kind and what the conversions of the code make of   *)
(* it; amounts are in hundredths.  An optional value is a set with at most *)
(* one element, an exception the empty set.                                *)
(***************************************************************************)
EXTENDS Integers, Sequences, FiniteSets, FiniteSetsExt, SequencesExt, Functions

CONSTANTS ScanLimit,     \* rows in which a heading is looked for (1000)
          HeadRows       \* neighbouring rows one heading may be split over (3)

Legacy == <<"row_number", "sale_date", "document_number", "client", "department",
            "total_amount", "base_amount", "discount_percent", "reason", "author",
            "price_type", "discount_card_percent", "discount_card_number", "social",
            "certificate_amount", "promotion", "phone", "products">>
Columns  == ToSet(Legacy)
REQUIRED == {"sale_date", "document_number", "department", "total_amount"}

Nothing   == [k |-> "empty", v |-> 0]
Filled(c) == c.k # "empty"

------------------------------------------------------------- (* Reading *)
(* Cells and rows of a page: a heading of a row or a cell closes what is    *)
(* still open, the end of a truncated page closes the last row, an empty    *)
(* row is dropped.                                                          *)
CloseCell(s) == [s EXCEPT !.row = @ \o s.cell, !.cell = <<>>]
CloseRow(s)  ==
    LET done == CloseCell(s) IN
    [done EXCEPT !.rows = IF done.row = <<>> THEN @ ELSE Append(@, done.row),
                 !.row = <<>>, !.open = FALSE]
Tag(s, t) ==
    CASE t.k = "tr"              -> [CloseRow(s) EXCEPT !.open = TRUE]
      [] t.k = "td" /\ s.open    -> [CloseCell(s) EXCEPT !.cell = <<Nothing>>]
      [] t.k = "/td"             -> CloseCell(s)
      [] t.k = "/tr"             -> CloseRow(s)
      [] s.cell # <<>> /\ t.k \notin {"td", "/td"} -> [s EXCEPT !.cell = <<t>>]
      [] OTHER                   -> s
HtmlRows(tags) ==
    CloseRow(FoldLeft(Tag, [rows |-> <<>>, row |-> <<>>, cell |-> <<>>, open |-> FALSE],
                      tags)).rows

(* The signature goes before the suffix: a workbook may be called .html.    *)
WorkbookRows(file) ==
    IF file.suffix \in {".xlsx", ".xls"} \/ file.signature \in {"zip", "ole"}
    THEN file.sheets
    ELSE IF file.suffix \in {".html", ".htm"} THEN <<HtmlRows(file.tags)>> ELSE <<>>

------------------------------------------------------------- (* Heading *)
(* A heading cell carries the column of its exact text, of its packed text, *)
(* and the columns of the aliases it starts or ends with, with their length.*)
IdentifyColumn(c) ==
    IF c.k # "heading" THEN {}
    ELSE IF c.v.exact # {} THEN c.v.exact
    ELSE IF c.v.packed # {} THEN c.v.packed
    ELSE {x[2] : x \in {y \in c.v.affixes : \A z \in c.v.affixes : z[1] <= y[1]}}

Mapping(found) ==
    [key \in UNION Range(found) |-> Max({i \in DOMAIN found : found[i] = {key}})]

(* The columns named in one row or in the rows just above it.               *)
Merged(mapped, i) ==
    LET window  == {j \in DOMAIN mapped : i - HeadRows < j /\ j <= i} IN
    [key \in UNION {DOMAIN mapped[j] : j \in window} |->
        mapped[Max({j \in window : key \in DOMAIN mapped[j]})][key]]

LooksLikeLegacySale(row) ==
    /\ Len(row) >= Len(Legacy)
    /\ row[2].k = "date" /\ row[6].k \in {"number", "amount"}
    /\ Filled(row[3]) /\ Filled(row[5])

LegacyHeader(rows, i) ==
    /\ Len(rows[i]) >= Len(Legacy) /\ i < Len(rows)
    /\ Cardinality({j \in DOMAIN Legacy : Filled(rows[i][j])}) >= 14
    /\ LooksLikeLegacySale(rows[i + 1])

(* The first row that completes the required columns, or else the first one *)
(* above a sale in the layout of old exports.                               *)
HeaderIn(rows, mapped) ==
    LET scanned == {i \in DOMAIN rows : i <= ScanLimit}
        named   == {i \in scanned : REQUIRED \subseteq DOMAIN Merged(mapped, i)}
        legacy  == {i \in scanned : LegacyHeader(rows, i)} IN
    {[at |-> i, columns |-> Merged(mapped, i)] : i \in {x \in named : \A y \in named : x <= y}}
    \cup {[at |-> i, columns |-> [key \in Columns |-> CHOOSE j \in DOMAIN Legacy : Legacy[j] = key]]
            : i \in {x \in legacy : named = {} /\ \A y \in legacy : x <= y}}
FindHeader(rows) ==
    HeaderIn(rows, [j \in DOMAIN rows |->
                      Mapping([i \in DOMAIN rows[j] |-> IdentifyColumn(rows[j][i])])])

(* read_sales: the filled rows below the heading of the first sheet that    *)
(* has one, each as a function from columns to cells.                       *)
Below(rows, header) ==
    SelectSeq(SubSeq(rows, header.at + 1, Len(rows)),
              LAMBDA r : \E i \in DOMAIN r : Filled(r[i]))
Raw(rows, columns) ==
    [n \in DOMAIN rows |->
       [key \in DOMAIN columns |->
          IF columns[key] \in DOMAIN rows[n] THEN rows[n][columns[key]] ELSE Nothing]]
FirstUsable(sheets, headers) ==
    {Raw(Below(sheets[i], h), h.columns) : <<i, h>> \in
       {<<i, h>> \in (DOMAIN sheets) \X UNION Range(headers) :
          h \in headers[i] /\ \A j \in 1 .. i - 1 : headers[j] = {}}}
SalesIn(sheets) == FirstUsable(sheets, [i \in DOMAIN sheets |-> FindHeader(sheets[i])])
ReadSales(file) == SalesIn(WorkbookRows(file))

---------------------------------------------------------------- (* Rows *)
Get(raw, key) == IF key \in DOMAIN raw THEN raw[key] ELSE Nothing

IncludeForFilename(aviators, raw) ==
    aviators => /\ Get(raw, "department").k = "text"
                /\ Get(raw, "department").v = "aviators"

(* Returns and internal documents, by the prefix of their number.           *)
IncludeDocument(raw) == Get(raw, "document_number").k # "excluded"

(* A workbook keeps 17% as the number 0.17, a text export as the text 17%.  *)
Decimal(c, percent) ==
    IF c.k \notin {"number", "amount"} THEN {}
    ELSE IF percent /\ c.k = "number" /\ c.v # 0 /\ c.v \in -100 .. 100
    THEN {c.v * 100} ELSE {c.v}
Garbled(c) == c.k = "garbled"

(* The totals of a document whose positions are all written in full.        *)
ExplicitItemTotals(c) ==
    {[total |-> FoldLeft(LAMBDA sum, p : sum + p.quantity * p.price, 0, c.v),
      base  |-> FoldLeft(LAMBDA sum, p : sum + p.quantity * p.base, 0, c.v)]
     : x \in {y \in {1} : /\ c.k = "items" /\ c.v # <<>>
                          /\ \A i \in DOMAIN c.v : c.v[i].full}}

(* Totals nobody wrote; a row that has none either way is an error.         *)
Restored(raw) ==
    IF \E key \in {"total_amount", "base_amount", "discount_percent"} : Filled(Get(raw, key))
    THEN {raw}
    ELSE {[key \in DOMAIN raw \cup {"total_amount", "base_amount"} |->
             CASE key = "total_amount" -> [k |-> "amount", v |-> t.total]
               [] key = "base_amount"  -> [k |-> "amount", v |-> t.base]
               [] OTHER                -> raw[key]]
          : t \in ExplicitItemTotals(Get(raw, "products"))}

Gross(raw) ==
    IF /\ ~Filled(Get(raw, "total_amount"))
       /\ Decimal(Get(raw, "discount_percent"), TRUE) = {-10000}
       /\ Decimal(Get(raw, "base_amount"), FALSE) # {}
    THEN {0} ELSE Decimal(Get(raw, "total_amount"), FALSE)

Fingerprint(raw, amount) ==
    <<raw["sale_date"].v, raw["document_number"].v, raw["department"].v, amount>>

(* normalize_sale: the sale of a row, or nothing where the code raises.     *)
(* fps are the fingerprints a sale already stored may have: its own and,    *)
(* with a certificate, the one it had before certificates were subtracted.  *)
(* What a certificate has paid: a negative amount is left alone.            *)
Certificate(paid) == IF \E x \in paid : x > 0 THEN paid ELSE {0}
Complete(raw) ==
    /\ Get(raw, "sale_date").k = "date"
    /\ Filled(Get(raw, "document_number")) /\ Filled(Get(raw, "department"))
    /\ \A key \in DOMAIN raw : ~Garbled(raw[key])
NormalizeSale(row) ==
    {[fp     |-> Fingerprint(raw, gross - paid),
      fps    |-> {Fingerprint(raw, gross - paid), Fingerprint(raw, gross)},
      date   |-> raw["sale_date"].v,
      amount |-> gross - paid,
      client |-> IF Get(raw, "client").k = "text" THEN {Get(raw, "client").v} ELSE {}]
     : <<raw, gross, paid>> \in
         UNION {{raw} \X Gross(raw) \X Certificate(Decimal(Get(raw, "certificate_amount"), FALSE))
                : raw \in {r \in Restored(row) : Complete(r)}}}

(* What an import makes of a file: whether it finds its rows, and of each   *)
(* whether it is passed over and, if not, its sale.                         *)
Outcome(raw, aviators) ==
    IF IncludeForFilename(aviators, raw) /\ IncludeDocument(raw)
    THEN [skip |-> FALSE, sale |-> NormalizeSale(raw)] ELSE [skip |-> TRUE, sale |-> {}]
Outcomes(found, aviators) ==
    [readable |-> found # {},
     rows     |-> IF found = {} THEN <<>>
                  ELSE LET raws == CHOOSE r \in found : TRUE IN
                       [n \in DOMAIN raws |-> Outcome(raws[n], aviators)]]
Read(file, aviators) == Outcomes(ReadSales(file), aviators)
=============================================================================
