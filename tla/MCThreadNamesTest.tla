------------------------- MODULE MCThreadNamesTest -------------------------
EXTENDS ThreadNamesTest, TLC

MCContents == {Empty, nameP, nameC, nameC2, DefName}
MCCut == [n \in MCContents |-> n]

=============================================================================
