---------------------------- MODULE MCLedControl ----------------------------
EXTENDS LedControl

MCModes == {"connecting", "available", "busy", "play"}
=============================================================================
