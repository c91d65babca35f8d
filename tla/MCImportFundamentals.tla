------------------------ MODULE MCImportFundamentals ------------------------
(* Values of the constants of FilingsImport for TLC. *)
EXTENDS FilingsImport

CONSTANTS A, B, C

MCDate == 1..4
MCSelection == {<<>>, <<A>>, <<A, B>>, <<B, C, A>>}

MCCode == UNION {Required(kind) : kind \in Kinds} \cup {"sharesBasic"}
Has(code) == [code |-> code, value |-> 1]
Lacks(code) == [code |-> code, value |-> Null]
Filed(date, income, balance, cashflow) ==
    [date |-> date, income |-> income, balance |-> balance, cashflow |-> cashflow]
Cap(date, value) == [date |-> date, marketCap |-> value]

\* A files a year and its last quarter on day 2, with a share count but no balance
\* sheet, an income whose value is null on day 3, and something without a date.
\* B has one filing, C none.
MCFilings == [s \in Symbol |->
    CASE s = A -> <<Filed(3, <<Lacks("netinc")>>, <<Has("sharesBasic")>>, <<Has("capex")>>),
                    Filed(2, <<Has("netinc")>>, <<Has("totalAssets"), Has("sharesBasic")>>, <<>>),
                    Filed(2, <<Has("netinc"), Lacks("netinc")>>, <<>>, <<>>),
                    Filed(Null, <<Has("netinc")>>, <<Has("sharesBasic")>>, <<>>)>>
      [] s = B -> <<Filed(1, <<>>, <<Has("totalAssets"), Has("totalLiabilities"), Has("sharesBasic")>>, <<>>)>>
      [] s = C -> <<>>]

\* A has a cap before any filing, and one without a date.
MCDaily == [s \in Symbol |->
    CASE s = A -> <<Cap(1, 1), Cap(3, 1), Cap(2, 1), Cap(4, 1), Cap(Null, 1)>>
      [] s = B -> <<Cap(2, 1), Cap(3, Null)>>
      [] s = C -> <<>>]

MCStatement == {<<kind, d>> : kind \in Kinds, d \in MCDate}
MCStatements == [s \in Symbol |-> StatementsOf(MCFilings[s])]
MCShares == [s \in Symbol |-> SharesOf(MCFilings[s])]
MCCaps == [s \in Symbol |-> CapsOf(MCDaily[s])]
MCTraded == [s \in Symbol |-> CASE s = A -> {1, 2, 4} [] s = B -> {2} [] s = C -> {}]
=============================================================================
