----------------------------- MODULE MCBrowser -----------------------------
(* Two sign-ons from outside with the same two completions, and sign-ons in the     *)
(* embedded window.                                                                *)
EXTENDS Browser, TLC

CONSTANTS t1, t2, t3, c1, c2

Request(mode, kind, protocol, allowed, pins) ==
    [mode |-> mode, kind |-> kind, protocol |-> protocol, allowed |-> allowed, pins |-> pins]

MCTasks == {t1, t2, t3}
MCCookies == {c1, c2}
MCPlatforms == {"linux", "windows"}

Embedding == Request("Auto", "Webview", "gp", FALSE, FALSE)
System    == Request("Auto", "Webview", "gp", TRUE, FALSE)
Manual    == Request("Manual", "Webview", "gp", FALSE, FALSE)

Outside == {(t1 :> System) @@ (t2 :> Manual) @@ (t3 :> None)}
Inside ==
    {(t1 :> None) @@ (t2 :> None) @@ (t3 :> Embedding),
     (t1 :> None) @@ (t2 :> None) @@ (t3 :> Request("Auto", "Webview", "anyconnect", FALSE, FALSE)),
     (t1 :> Request("Auto", "External", "anyconnect", FALSE, FALSE)) @@ (t2 :> None)
        @@ (t3 :> Request("Embedded", "External", "anyconnect", FALSE, TRUE))}

\* Sign-ons from outside are the same on all systems.
MCScenarios == [p \in MCPlatforms |-> IF p = "linux" THEN Outside \cup Inside ELSE Inside]

MCMaxCommands == (t1 :> 3) @@ (t2 :> 2) @@ (t3 :> 1)
============================================================================
