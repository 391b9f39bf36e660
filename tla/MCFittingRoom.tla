--------------------------- MODULE MCFittingRoom ---------------------------
(* The tab of the fitting room and another one; two drafts besides none.    *)
EXTENDS FittingRoom

CONSTANTS t1, t2

TwoTabs   == {t1, t2}
TwoDrafts == {"blue", "linen"}
=============================================================================
