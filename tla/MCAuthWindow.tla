---------------------------- MODULE MCAuthWindow ----------------------------
(* The sign-on window on the three systems, with two navigations. *)
EXTENDS AuthWindow

MCPlatforms == {"linux", "macos", "windows"}
MCSites == {"vpn", "idp", "other"}
============================================================================
