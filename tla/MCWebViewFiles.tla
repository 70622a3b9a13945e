--------------------------- MODULE MCWebViewFiles ---------------------------
EXTENDS WebViewFiles

CONSTANTS p1, p2

MCPaths == {p1, p2}

=============================================================================
