------------------------------ MODULE KeyAndMessage ----------------------------
(***************************************************************************)
(* The localized key (KeyStretch) and the message it protects (V3Message), *)
(* which share no state: a behaviour is a call of password_to_key, with or *)
(* without the cut for a cipher, or the build of a message, the other      *)
(* resting where a call that was refused left it.                          *)
(***************************************************************************)
EXTENDS KeyStretch

CONSTANTS Requests, EngineIdLen, HostEngineId, Times, Salts, None

VARIABLES msg_pc, req, now, m, scoped, unsigned, wire, outcome

msg_vars == <<msg_pc, req, now, m, scoped, unsigned, wire, outcome>>

Message == INSTANCE V3Message WITH pc <- msg_pc

ASSUME MessageAssumption == Requests \subseteq Message!Request
-------------------------------------------------------------------------------
(* A passphrase that was refused, and an engine-ID that was. *)
NoKeyCall ==
    /\ pw = << >> /\ engine \in EngineIds /\ auth = "Sha1" /\ priv = NoPriv
    /\ pc = "usage" /\ stream = << >> /\ written = 0 /\ key = NoKey

NoMessage ==
    /\ req = CHOOSE r \in Requests : r.authoritative = "bad"
    /\ msg_pc = "end" /\ now = 0 /\ outcome = "Usage"
    /\ m = [authoritative |-> None, context |-> None, security |-> None,
            auth_key |-> None, priv_key |-> None, salt |-> None, time |-> None,
            msg_id |-> None, request_id |-> None]
    /\ scoped = None /\ unsigned = None /\ wire = None

AInit == \/ Init /\ NoMessage
         \/ Message!Init /\ NoKeyCall

ANext == \/ Next /\ UNCHANGED msg_vars
         \/ Message!Next /\ UNCHANGED vars

ASpec == AInit /\ [][ANext]_<<vars, msg_vars>> /\ WF_vars(Next)
-------------------------------------------------------------------------------
(* v3.rs:15-20: the receiver's tag is the tag of the message. *)
ReceiverVerifies == Message!ReceiverVerifies

(* v3.rs:107-130: the receiver decrypts the trap in the context asked for. *)
TrapRecovered == Message!TrapRecovered

(* v3.rs:22-27, 83-142: the flags tell what the message is. *)
FlagsTell == Message!FlagsTell
================================================================================
