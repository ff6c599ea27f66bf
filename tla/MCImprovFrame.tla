---------------------------- MODULE MCImprovFrame ----------------------------
EXTENDS ImprovFrame

SmallPrefix == <<6, 4>>
=============================================================================
