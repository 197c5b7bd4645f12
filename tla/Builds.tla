-------------------------------- MODULE Builds --------------------------------
(***************************************************************************)
(* The two builds of src/transport: one with raw IPv4 sockets, one for a   *)
(* platform without them, whose send_spoofed only answers that it is not   *)
(* supported.  A host runs one of them, for as long as it is up.           *)
(***************************************************************************)
EXTENDS Transport

VARIABLE build   \* "linux", with what RawSupported says, or "other"

Other == INSTANCE Transport WITH RawSupported <- FALSE

BuildInit == Init /\ build \in {"linux", "other"}

BuildNext ==
    \/ build = "linux" /\ Next /\ UNCHANGED build
    \/ build = "other" /\ Other!Next /\ UNCHANGED build

BuildSpec == BuildInit /\ [][BuildNext]_<<vars, build>>

(* CapabilityVerdict for either build: one that has no raw sockets at all never
   recommends setcap.  (The two builds of send_spoofed, classify_raw_open.) *)
VerdictOfBuild ==
    IF build = "linux" THEN CapabilityVerdict ELSE Other!CapabilityVerdict
===============================================================================
