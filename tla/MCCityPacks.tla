---------------------------- MODULE MCCityPacks ----------------------------
EXTENDS CityPacks, TLC
CONSTANTS o1, o2, o3, o4, o5, w1, w2, w3, w4, w5, x1, x2, x3
MCPlace == {o1, o2, o3, o4, o5, w1, w2, w3, w4, w5}
MCInside == MCPlace \ {o5}
MCWiki == {w1, w2, w3, w4, w5}
\* o1: a church without a word of the hints; o2: a street for walkers; o3 and o4:
\* a museum and its yard; w1 and w2: near namesakes; w3 and w5: soft, w5 the
\* better one, at the place of w1; w4: an address; o5: a park beyond the radius
MCName == (o1 :> {}) @@ (o2 :> {"street"}) @@ (o3 :> {"hint", "museum"}) @@ (o4 :> {"hint"})
    @@ (o5 :> {"hint", "park"})
    @@ (w1 :> {"hint", "quay"}) @@ (w2 :> {"hint", "quay", "naberezhnaya"}) @@ (w3 :> {})
    @@ (w4 :> {"hint", "house"}) @@ (w5 :> {"positive"})
MCTags == [p \in MCPlace |-> CASE p = o1 -> {"temple"} [] p = o2 -> {"pedestrian"}
                               [] p = o3 -> {"museum"} [] p \in {o4, o5} -> {"other"} [] OTHER -> {}]
MCKey == [p \in MCPlace |-> p]
MCSpot == [p \in MCPlace |-> IF p = w5 THEN w1 ELSE p]
MCAlike == {{o3, o4}, {w1, w2}}
MCSitelinks == [p \in MCPlace |-> 2]
MCReturns == [direct |-> {w1, w2}, wide |-> {w3, w4, w5}, quays |-> {w1, w2}, widequays |-> {w1, w2}]
MCPhrases == {x1, x2, x3}
MCFlaws == [x \in MCPhrases |-> IF x = x3 THEN {"nohint"} ELSE {}]
MCLikeness == [x \in MCPhrases |-> [p \in MCPlace |->
    CASE p \in {o3, w1} -> 950 [] p \in {o2, w2} -> IF x = x1 THEN 600 ELSE 730 [] OTHER -> 100]]
=============================================================================
