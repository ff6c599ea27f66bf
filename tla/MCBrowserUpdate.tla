--------------------------- MODULE MCBrowserUpdate ---------------------------
EXTENDS BrowserUpdate
=============================================================================
