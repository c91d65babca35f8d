------------------------- MODULE TiingoFundamentals -------------------------
(***************************************************************************)
(* build_symbol_fundamentals (src/mrmkt/ext/tiingo_fundamentals.py): how   *)
(* the filings and daily rows that Tiingo answers with become statements,  *)
(* share counts and market caps.  A filing has a date and, per section,    *)
(* rows of a code and a value; the values themselves are not looked at.    *)
(***************************************************************************)
EXTENDS Integers, Sequences, FiniteSets, SequencesExt

CONSTANTS
    Code, \* the data codes
    Null  \* no value or code, or a date that cannot be parsed

Kinds == {"income", "balance", "cashflow"}

Required(kind) ==
    CASE kind = "income" -> {"netinc"}
      [] kind = "balance" -> {"totalAssets", "totalLiabilities"}
      [] kind = "cashflow" -> {"ncfo", "capex", "freeCashFlow", "payDiv"}

\* _code_map: the codes of a section that have a value.
Codes(section) == {row.code : row \in {r \in ToSet(section) : r.code # Null /\ r.value # Null}}

\* Deviation: a section with some of its codes is taken, the others filled in.
ReportsAny(filing, kind) == Required(kind) \cap Codes(filing[kind]) # {}

\* A section that lacks a required code is no statement.
Reports(filing, kind) == Required(kind) \subseteq Codes(filing[kind])

\* The filings with a date that give a statement of the kind, by their positions.
Kept(filings, kind) ==
    {i \in DOMAIN filings : filings[i].date # Null /\ Reports(filings[i], kind)}

\* Positions in order of the dates there.
ByDate(filings, kept) ==
    CHOOSE order \in Bijection(1..Cardinality(kept), kept) :
        \A i, j \in DOMAIN order : i < j => filings[order[i]].date <= filings[order[j]].date

\* incomes, balances, cashflows: a statement is known by its kind and filing date, and
\* an annual report and its last quarter are filed on one date.
StatementsOfKind(filings, kind) ==
    LET order == ByDate(filings, Kept(filings, kind))
    IN [i \in DOMAIN order |-> <<kind, filings[order[i]].date>>]

StatementsOf(filings) ==
    StatementsOfKind(filings, "income")
        \o StatementsOfKind(filings, "balance") \o StatementsOfKind(filings, "cashflow")

\* shares_by_date is filled from balance sheets that are no statement, too.
SharesOf(filings) ==
    {f.date : f \in {g \in ToSet(filings) : g.date # Null /\ "sharesBasic" \in Codes(g.balance)}}

CapsOf(days) == {d.date : d \in {e \in ToSet(days) : e.date # Null /\ e.marketCap # Null}}
=============================================================================
