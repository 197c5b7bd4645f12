------------------------------ MODULE SnmpErrors ------------------------------
(***************************************************************************)
(* The error classes of src/error.rs and the functions that map what the   *)
(* kernel answers to one of them.  An errno is the string of its name; an  *)
(* errno no function tells apart from another ("EMFILE", "ENOBUFS", ...)   *)
(* is any string outside the sets named here.                              *)
(*                                                                         *)
(* Definitions marked "seeded fault", here and in the other modules, are    *)
(* variants of the one that follows with a plausible bug.  No specification *)
(* uses them: they show that a property notices the bug.                    *)
(***************************************************************************)
EXTENDS Naturals

(* enum Error, without its payloads. *)
ErrorClass == {"Usage", "RawSocketDenied", "Unsupported", "PayloadExceedsMtu",
               "Routing", "Encode", "Other"}

(* Error::exit_code: POSIX getopts' 2 for a usage error, 1 for the rest. *)
exit_code(e) == IF e = "Usage" THEN 2 ELSE 1

(* The errnos std maps to the ErrorKinds HostUnreachable, NetworkUnreachable
   and AddrNotAvailable. *)
UnreachableKinds == {"EHOSTUNREACH", "ENETUNREACH", "EADDRNOTAVAIL"}

(* What the kernel answers when a privilege is missing or a policy refuses. *)
Denials == {"EPERM", "EACCES"}

(* Socket::new(RAW) and set_header_included_v4: a denial is a missing
   CAP_NET_RAW. *)
classify_raw_open(errno) ==
    IF errno \in Denials THEN "RawSocketDenied" ELSE "Other"

(* send_to on the raw socket: a denial is no longer a missing capability. *)
classify_raw_send(errno) ==
    CASE errno = "EMSGSIZE"                     -> "PayloadExceedsMtu"
      [] errno \in UnreachableKinds \cup Denials -> "Routing"
      [] OTHER                                  -> "Other"

(* Seeded fault: every denial of a bind blames the command line. *)
classify_any_denial(errno, src_port) ==
    IF errno \in {"EACCES", "EADDRINUSE"} THEN "Usage" ELSE "Other"

(* bind on the UDP socket; src_port is a port number, or 0 for None. *)
classify_bind_io(errno, src_port) ==
    CASE errno = "EACCES" /\ src_port \in 1 .. 1023 -> "Usage"
      [] errno = "EADDRINUSE"                       -> "Usage"
      [] OTHER                                      -> "Other"

(* send_to on the UDP socket. *)
map_send_io(errno) ==
    IF errno \in UnreachableKinds THEN "Routing" ELSE "Other"
===============================================================================
