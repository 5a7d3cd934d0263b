----------------------------- MODULE MCHostAndRobot -----------------------------
(* Configurations of two sites for TLC: a site gives everything, or blanks the *)
(* place for programs.  The session that follows has messages 003 and 004 on,   *)
(* as recipeHandler_config.xml has, without which the host's knowledge is not   *)
(* promised.                                                                   *)
EXTENDS HostAndRobot, TLC

MCSiteNames == {"Singapore", "Penang"}
MCKeys == {"ProgLocation", "EVID003", "EVID004"}
MCValues == {"", "true", "/prog"}
MCSiteParams == {"ProgLocation" :> "/prog" @@ "EVID003" :> "true" @@ "EVID004" :> "true",
                 "ProgLocation" :> ""}
================================================================================
