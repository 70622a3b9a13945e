---------------------------- MODULE MCWebViewPage ----------------------------
(***************************************************************************)
(* WebViewPage for TLC: two values a script can report, one child frame,   *)
(* a frame stack of depth two and a history of up to three entries.        *)
(***************************************************************************)
EXTENDS WebViewPage

CONSTANTS v1, v2, f1

MCValues == {v1, v2}

MCFrameIds == {f1}

=============================================================================
