------------------------- MODULE MCHypothesisLedger -------------------------
EXTENDS HypothesisLedger

CONSTANTS new, old   \* an event after the close, and one an older version began

MCSession == (new :> "after_close") @@ (old :> "intraday")
MCChange == [e \in {new, old} |-> [p \in Prices |-> 1]]
MCMatures == [e \in {new, old} |-> [h \in Horizons |-> Order[h] - 1]]
MCRank == (new :> "A") @@ (old :> "B")

Definition(id, version, dimension, horizon, target, stop) ==
  [id |-> id, version |-> version, dimension |-> dimension, horizon |-> horizon,
   target |-> target, stop |-> stop]

R1 == Definition("rank", 1, "rank", "D5", "A", None)
R1s == [R1 EXCEPT !.stop = "halves"]
R2s == [R1s EXCEPT !.version = 2]
G1 == Definition("gap", 1, "reaction", "D1", "GU_continued", None)

MCLegacyDesign == [hypotheses |-> {R1, G1}, policy |-> "fifty"]
MCJudgement ==
  [s \in {"as_frozen", "stricter"} |->
     [d \in {"rank", "reaction"} |->
        IF s = "stricter" /\ d = "reaction" THEN "invalid" ELSE "valid"]]
BothKnown == (new :> {"pre_event_close", "immediate_post_announcement"})
               @@ (old :> Prices \ {"fifth_business_day_close"})

\* Three stages, late prices, reviews, corrections; the registry stays.
Growth ==
  [designs |-> {}, standards |-> {"as_frozen"},
   known |-> [BothKnown EXCEPT ![new] = {"pre_event_close"}],
   arrivals |-> (new :> {"immediate_post_announcement", "next_business_day_close",
                         "fifth_business_day_close", "corporate_action"})
                  @@ (old :> {"fifth_business_day_close"}),
   reviews |-> (new :> {[value |-> 1, basis |-> "declared"], [value |-> 1, basis |-> "other"]})
                 @@ (old :> {}),
   days |-> 2]

\* Registries frozen and edited, the standard moving, while evidence arrives.
Rules ==
  [designs |-> {[hypotheses |-> {R1s, G1}, policy |-> "fifty"],
                [hypotheses |-> {R2s, G1}, policy |-> "fifty"],
                [hypotheses |-> {R1, G1}, policy |-> "hundred"]},
   standards |-> {"as_frozen", "stricter"},
   known |-> BothKnown,
   arrivals |-> (new :> {"next_business_day_close"}) @@ (old :> {"superseded_baseline"}),
   reviews |-> [e \in {new, old} |-> {}],
   days |-> 1]

MCScopes == {Growth, Rules}

\* The designs here keep the dimensions of their definitions.
ASSUME DesignsKeepDimensions == DimensionsStay
=============================================================================
