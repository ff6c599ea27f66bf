--------------------------- MODULE MCWifiStation ---------------------------
EXTENDS WifiStation
=============================================================================
