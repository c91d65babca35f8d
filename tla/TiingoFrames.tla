---------------------------- MODULE TiingoFrames ----------------------------
(***************************************************************************)
(* What a quote stream makes of a websocket frame (tiingo_stream.py).  A   *)
(* frame is the elements of one "A" message: top-of-book dicts and         *)
(* positional arrays for any ticker, of which a worker wants one.  A price *)
(* is "number", "junk" (no number can be made of it) or "none".            *)
(***************************************************************************)
EXTENDS Sequences, SequencesExt, FiniteSets

Price == {"number", "junk", "none"}

\* ref stands for refPrice of an array, and for the first of mid, tngoLast and
\* last of a dict; a short array carries reference prices only.
ElementOf(T) ==
    [shape: {"dict", "array", "short", "other"}, ticker: T, bid: Price, ask: Price,
     ref: Price]

\* The fallback is for an absent side, not for one that is no number.
Side(side, ref) == IF side = "none" THEN ref ELSE side

\* One _handle_message step: does the element become a quote of s?
Usable(e, s) ==
    /\ e.shape \in {"dict", "array"}
    /\ e.ticker = s
    /\ Side(e.bid, e.ref) = "number"
    /\ Side(e.ask, e.ref) = "number"

\* The elements of a frame that become quotes of s.
UsableIn(frame, s) == Cardinality({i \in DOMAIN frame : Usable(frame[i], s)})

=============================================================================
