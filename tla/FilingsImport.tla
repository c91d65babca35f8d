---------------------------- MODULE FilingsImport ----------------------------
(***************************************************************************)
(* The fundamentals import fed by Tiingo: ImportFundamentals with the      *)
(* statements, share counts and caps that TiingoFundamentals makes of the  *)
(* filings and daily rows of each symbol.                                  *)
(***************************************************************************)
EXTENDS ImportFundamentals, TiingoFundamentals

CONSTANTS
    Filings, \* get_fundamentals_statements, per symbol
    Daily    \* get_fundamentals_daily, per symbol

Entry == [code: Code \cup {Null}, value: Int \cup {Null}]
Filing == [date: Date \cup {Null}, income: Seq(Entry), balance: Seq(Entry), cashflow: Seq(Entry)]

ASSUME FeedAssumption ==
    /\ Null \notin Code /\ \A kind \in Kinds : Required(kind) \subseteq Code
    /\ \A s \in Symbol :
        /\ Filings[s] \in Seq(Filing)
        /\ Statements[s] = StatementsOf(Filings[s])
        /\ Shares[s] = SharesOf(Filings[s])
        /\ Caps[s] = CapsOf(Daily[s])

Given(filing, kind, code) == \E r \in ToSet(filing[kind]) : r.code = code /\ r.value # Null

\* "A statement section missing a required code is skipped, never zero-filled", and a
\* success has the rest: a stored statement stands on a filing of its date that gives
\* all its required values, every day's value has a cap that was given, and a run that
\* answers with success leaves out no statement of a filing, even if the batch was
\* begun by a run that was killed (build_symbol_fundamentals, _store_symbol).
FilingsAreStored ==
    /\ SuccessIsComplete
    /\ \A row \in statements :
           \E f \in ToSet(Filings[row[1]]) :
               f.date = row[2][2] /\ \A code \in Required(row[2][1]) : Given(f, row[2][1], code)
    /\ \A v \in values :
           \E d \in ToSet(Daily[v.symbol]) : d.date = v.date /\ d.marketCap # Null
    /\ phase = "success" =>
           \A s \in ToSet(selected) \ UNION {ToSet(b) : b \in ToSet(failed)}, kind \in Kinds :
               \A f \in ToSet(Filings[s]) :
                   f.date # Null /\ (\A code \in Required(kind) : Given(f, kind, code))
                       => <<s, <<kind, f.date>>>> \in statements
=============================================================================
