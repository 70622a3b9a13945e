-------------------------- MODULE MCWebViewHolder --------------------------
(***************************************************************************)
(* WebViewHolder for TLC: two windows, one of them with an out-of-process  *)
(* frame that itself contains one; the other window is non-blocking.       *)
(***************************************************************************)
EXTENDS WebViewHolder, TLC

CONSTANTS page, other, frame, inner

MCViews == {page, other, frame, inner}

MCParent ==
    (page :> NoView) @@ (other :> NoView) @@ (frame :> page) @@ (inner :> frame)

MCNonBlocking == {other}

=============================================================================
