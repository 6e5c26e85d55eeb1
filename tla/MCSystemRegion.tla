--------------------------- MODULE MCSystemRegion ---------------------------
(***************************************************************************)
(* TLC's instances of SystemRegion.                                        *)
(***************************************************************************)
EXTENDS SystemRegion

FewInit == Init /\ \A c \in Components : value[c] \in Others(c, OtherNames) \cup {Val("link", "A", "rel")}

MCSpec == FewInit /\ [][Next]_vars
MCLive == MCSpec /\ Fairness
=============================================================================
