--------------------------- MODULE MCAppLifecycle ---------------------------
EXTENDS AppLifecycle
TwoSites == <<"tcp", "unix">>
=============================================================================
