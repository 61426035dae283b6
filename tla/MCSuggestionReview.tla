------------------------- MODULE MCSuggestionReview -------------------------
(***************************************************************************)
(* Small instances of SuggestionReview: two tickers at a close of 83, a    *)
(* support near the market that rounds up above it, one in reach below it, *)
(* an old support the price has fallen through, and a resistance.          *)
(***************************************************************************)
EXTENDS SuggestionReview, TLC

CONSTANTS t1, t2, near, deep, lost, top

TwoTickers == <<t1, t2>>

Types  == near :> "support" @@ deep :> "support" @@ lost :> "support" @@ top :> "resistance"
Prices == near :> 82 @@ deep :> 71 @@ lost :> 90 @@ top :> 85

\* Far under, slightly under the target within the band, over.
Gaps == {[usd |-> 340, band |-> "under", room |-> 500],
         [usd |-> 120, band |-> "in_band", room |-> 240],
         [usd |-> -200, band |-> "over", room |-> -80]}

\* The graph misses the close of t2.
OnlyFirst == {{t1}}

AllOrNone == {{}, Level}

=============================================================================
