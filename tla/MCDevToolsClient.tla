-------------------------- MODULE MCDevToolsClient --------------------------
(***************************************************************************)
(* DevToolsClient for TLC: the browser-wide client and one page, which has *)
(* the two listeners of the sources; the root has a listener that handles  *)
(* events whenever a command has succeeded.                                *)
(***************************************************************************)
EXTENDS DevToolsClient

CONSTANTS browser, page

MCClients == {browser, page}

MCListeners ==
    [c \in MCClients |->
        IF c = page THEN <<"MobileEmulationOverrideManager", "BidiTracker">>
        ELSE <<"MockCommandListener">>]

MCEventKinds ==
    {kDialog,
     <<"Page.frameNavigated", "main">>,
     <<"Runtime.bindingCalled", "no payload">>,
     <<"Inspector.targetCrashed", "none">>,
     <<"Inspector.detached", "none">>}

=============================================================================
