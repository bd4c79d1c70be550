---------------------------- MODULE MCRuleServer ----------------------------
(***************************************************************************)
(* Instances of RuleServer for TLC.  The texts are one that starts         *)
(* everywhere (t1), one more (t2) to tell a reverted commit from a kept    *)
(* one, one NewDirectory refuses (t3) and one that is not JSON (t4).       *)
(***************************************************************************)
EXTENDS RuleServer

CONSTANTS r1, h1, h2, d1, d2, t1, t2, t3, t4

OneRule     == {r1}
NoRules     == {}
OneHandler  == {h1}
TwoHandlers == {h1, h2}
TwoDirs     == {d1, d2}
OneText     == {t1}
TwoTexts    == {t1, t2}
FourTexts   == {t1, t2, t3, t4}
NoTexts     == {}
Refused     == {t3}
NotJSON     == {t4}
Reliable    == {"ok"}
Refusing    == {"ok", "refused"}
=============================================================================
