---------------------------- MODULE SignOnWindow ----------------------------
(***************************************************************************)
(* What the client relies on of the embedded sign-on window: the life of   *)
(* the helper process (apps/desktop/src-tauri/src/auth_window.rs), the     *)
(* order of its messages, and its private profile directory.  AuthWindow   *)
(* has the adapters and the web engine inside it and implements this       *)
(* module; Browser composes this module with the client's transactions.    *)
(***************************************************************************)
EXTENDS Naturals, Sequences

CONSTANTS
    Platforms,  \* of {"linux", "macos", "windows"}
    WireLimit   \* messages for the client on the socket

ASSUME WindowAssumption == Platforms \subseteq {"linux", "macos", "windows"} /\ WireLimit \in Nat \ {0}

VARIABLES
    platform,
    proc,       \* "none", "starting", "hello", "open", "running", "ready", "broken", "leaving", "removing", "gone"
    renderers,  \* processes of the web engine, which use the directory too
    wire,       \* kinds of the messages on their way to the client
    orders,     \* messages of the client on their way to the window
    directory   \* the private profile of the web view: "none", "present"

windowVars == <<platform, proc, renderers, wire, orders, directory>>

WindowInit ==
    /\ platform \in Platforms /\ proc = "none" /\ renderers = FALSE
    /\ wire = <<>> /\ orders = <<>> /\ directory = "none"

Alive == {"starting", "hello", "open", "running", "ready", "broken", "leaving", "removing"}
Room == Len(wire) < WireLimit

\* What the process knew goes with it.
Exits == proc' = "gone" /\ orders' = <<>>

----------------------------------------------------------------------------
(* The window                                                              *)

\* open_request: the helper says who it is, and waits for its request.
Connects ==
    /\ proc = "starting" /\ proc' = "hello"
    /\ UNCHANGED <<platform, renderers, wire, orders, directory>>

\* It makes a profile of its own before anything is shown, or gives up.
Opens ==
    /\ proc = "hello"
    /\ \/ /\ orders # <<>> /\ Head(orders) = "Open" /\ orders' = Tail(orders)
          /\ directory = "none" /\ directory' = "present" /\ proc' = "open"
       \/ Exits /\ UNCHANGED directory
    /\ UNCHANGED <<platform, renderers, wire>>

\* The view is built, with its processes, and its handlers are attached; or it is
\* broken, or closes, or was never built.
Attaches ==
    /\ proc = "open"
    /\ \/ proc' \in {"running", "broken", "leaving"} /\ renderers' = TRUE
       \/ proc' = "removing" /\ renderers' \in BOOLEAN
    /\ UNCHANGED <<platform, wire, orders, directory>>

\* Ready is the first message, and the only one of its kind.
GetsReady ==
    /\ proc = "running" /\ Room /\ proc' = "ready" /\ wire' = Append(wire, "Ready")
    /\ UNCHANGED <<platform, renderers, orders, directory>>

\* A broken window is never ready.
Says ==
    /\ Room
    /\ \/ proc = "ready" /\ \E kind \in {"Page", "Certificate", "Failed"} : wire' = Append(wire, kind)
       \/ proc = "broken" /\ wire' = Append(wire, "Failed")
    /\ UNCHANGED <<platform, proc, renderers, orders, directory>>

\* A decision, or Close.
Reads ==
    /\ proc \in {"running", "ready", "broken"} /\ orders # <<>> /\ orders' = Tail(orders)
    /\ proc' = IF Head(orders) = "Close" THEN "leaving" ELSE proc
    /\ UNCHANGED <<platform, renderers, wire, directory>>

Shuts ==
    /\ proc \in {"running", "ready", "broken"} /\ proc' = "leaving"
    /\ UNCHANGED <<platform, renderers, wire, orders, directory>>

\* The last word, if the client is still there; after it nothing is said.
Leaves ==
    /\ proc = "leaving" /\ proc' = "removing"
    /\ \/ Room /\ \E kind \in {"Closed", "Failed"} : wire' = Append(wire, kind)
       \/ UNCHANGED wire
    /\ UNCHANGED <<platform, renderers, orders, directory>>

RemovesOwn ==
    /\ proc = "removing" /\ Exits /\ directory' \in {"none", directory}
    /\ UNCHANGED <<platform, renderers, wire>>

Crashes ==
    /\ proc \in Alive /\ Exits
    /\ UNCHANGED <<platform, renderers, wire, directory>>

\* The renderers go when they notice that the helper has gone.
RenderersExit ==
    /\ renderers /\ proc = "gone" /\ renderers' = FALSE
    /\ UNCHANGED <<platform, proc, wire, orders, directory>>

WindowNext == Connects \/ Opens \/ Attaches \/ GetsReady \/ Says \/ Reads \/ Shuts \/ Leaves
                \/ RemovesOwn \/ Crashes \/ RenderersExit

----------------------------------------------------------------------------
(* The client's side of the connection and of the process                  *)

Starts ==
    /\ proc = "none" /\ proc' = "starting"
    /\ UNCHANGED <<platform, renderers, wire, orders, directory>>

Orders(order) ==
    /\ proc \in {"hello", "open", "running", "ready", "broken", "leaving", "removing"} /\ orders' = Append(orders, order)
    /\ UNCHANGED <<platform, proc, renderers, wire, directory>>

Hears ==
    /\ wire # <<>> /\ wire' = Tail(wire)
    /\ \/ UNCHANGED orders
       \/ Head(wire) = "Certificate" /\ \E order \in {"Accept", "Reject"} : orders' = Append(orders, order)
    /\ UNCHANGED <<platform, proc, renderers, directory>>

ClientNext == Starts \/ Hears \/ \E order \in {"Open", "Close"} : Orders(order)

WindowSpec == WindowInit /\ [][WindowNext \/ ClientNext]_windowVars
============================================================================
