------------------------------- MODULE Arguments --------------------------------
(***************************************************************************)
(* The readers of the command line's words, which share no state: the      *)
(* AGENT (AgentText), hexadecimal text (EngineIdText), the positional      *)
(* arguments and triplets (TrapPdu), and the uptime of the host that       *)
(* stands for one left empty (HostUptime).  A behaviour is a call of one.  *)
(***************************************************************************)
EXTENDS HostUptime, Sequences, FiniteSets

CONSTANTS Commands, I32, U32, U64, MAX_BIT_POSITION, HostUptimes

VARIABLES cmd, pdu_pc, head, varbinds, bindings, outcome

pdu_vars == <<cmd, pdu_pc, head, varbinds, bindings, outcome>>

Pdu == INSTANCE TrapPdu WITH pc <- pdu_pc

Optional(r) == r = << >> \/ r = <<r[1]>>

(* The dots of a text separate at least one token. *)
Argument(raw) ==
    /\ Optional(raw.num) /\ Optional(raw.addr) /\ Optional(raw.hex) /\ Optional(raw.bits)
    /\ raw.oid \in Seq(Int) /\ raw.oid # << >>

ASSUME PduAssumption ==
    /\ \E n \in U32 : n \in Nat /\ U32 = 0 .. n
    /\ MAX_BIT_POSITION \in U32
    /\ \A c \in Commands : /\ c.args \in Seq({c.args[k] : k \in DOMAIN c.args})
                          /\ \A k \in DOMAIN c.args : Argument(c.args[k])
-------------------------------------------------------------------------------
CONSTANTS Char, MAX_HEX, MIN_ENGINE_ID, MAX_ENGINE_ID, MAC_OCTETS

VARIABLES text, parser, hex_pc, cleaned, out, answers

hex_vars == <<text, parser, hex_pc, cleaned, out, answers>>

HexText == INSTANCE EngineIdText WITH MAX_TEXT <- MAX_HEX, pc <- hex_pc, result <- answers

(* No octets are no engine-ID. *)
ASSUME HexAssumption ==
    MAX_HEX \in Nat /\ MIN_ENGINE_ID \in Nat \ {0} /\ MAX_ENGINE_ID \in Nat

-------------------------------------------------------------------------------
CONSTANTS Word, Ports, MAX_AGENT, V4, V6, MAX_ADDRS

VARIABLES agent, agent_pc, sought, addrs, dst

agent_vars == <<agent, agent_pc, sought, addrs, dst>>

AgentArg == INSTANCE AgentText WITH MAX_TEXT <- MAX_AGENT, pc <- agent_pc, answer <- addrs

(* A port is a number. *)
ASSUME AgentAssumption ==
    /\ MAX_AGENT \in Nat /\ MAX_ADDRS \in Nat
    /\ Ports \cap {":", "[", AgentArg!DEFAULT_TRAP_PORT} = {}

-------------------------------------------------------------------------------
(* The end of a call of each: with no arguments, with an empty text, with an empty
   AGENT, and on a platform without an uptime. *)

NoTrap ==
    /\ cmd = [version |-> "v2c", args |-> << >>] /\ pdu_pc = "end" /\ outcome = "Usage"
    /\ head = << >> /\ varbinds = << >> /\ bindings = << >>

NoText ==
    /\ text = << >> /\ parser = "mac" /\ hex_pc = "end" /\ cleaned = << >> /\ out = << >>
    /\ answers = [user |-> HexText!Empty, octets |-> HexText!Ok(<< >>), mac |-> HexText!NotMac]

NoAgent ==
    /\ agent = << >> /\ agent_pc = "usage" /\ addrs = << >> /\ dst = AgentArg!NoDst
    /\ sought = [host |-> << >>, port |-> AgentArg!DEFAULT_TRAP_PORT]

NoHost ==
    /\ platform = "other" /\ up = 0 /\ boot = Zero /\ wall = Zero
    /\ boottime = Zero /\ now = Zero /\ pc = "done" /\ result = 0

AInit ==
    \/ Pdu!Init /\ NoText /\ NoAgent /\ NoHost
    \/ HexText!Init /\ NoTrap /\ NoAgent /\ NoHost
    \/ AgentArg!Init /\ NoTrap /\ NoText /\ NoHost
    \/ Init /\ NoTrap /\ NoText /\ NoAgent

ANext ==
    \/ Pdu!Next      /\ UNCHANGED <<hex_vars, agent_vars, vars>>
    \/ HexText!Next  /\ UNCHANGED <<pdu_vars, agent_vars, vars>>
    \/ AgentArg!Next /\ UNCHANGED <<pdu_vars, hex_vars, vars>>
    \/ Next          /\ UNCHANGED <<pdu_vars, hex_vars, agent_vars>>

ASpec == AInit /\ [][ANext]_<<pdu_vars, hex_vars, agent_vars, vars>>
-------------------------------------------------------------------------------
(* lib.rs:53-129: which arguments make a trap, and which error the others get. *)
TripletsDecide == Pdu!TripletsDecide

(* varbind.rs, pdu.rs: the receiver reads what was typed. *)
ReadAsTyped == Pdu!ReadAsTyped

(* engine.rs:82-137, varbind.rs:115-153: the digits of a text decide. *)
DigitsDecide == HexText!DigitsDecide

(* engine.rs:252-269 and the two above: the three readers agree. *)
SameOctets == HexText!SameOctets

(* cli.rs:359-390: the destination is one that the text names. *)
DestinationAsRead == AgentArg!DestinationAsRead
================================================================================
