# snmptrap-rs in TLA+

A model of [snmptrap-rs](../src/README.md), the command that sends one SNMPv1,
v2c or v3 trap over UDP, if asked from a source address that is not the
host's. The specifications are translated from the Rust source in `src/src`,
model-checked with TLC, and the core is proved with TLAPS. `PROJECT.json` maps
every definition to the lines it stands for.

## Inventory

The program is small and sequential; what makes it hard is around it. Several
invocations run at once on a host (a script that sends traps from many "fake"
devices), they share the kernel's port table with each other and with other
programs, the network may fail in many ways and duplicate, the routing table and
the interfaces change while the program looks at them, and a receiver compares
what different processes say. Below that are functions whose boundaries decide, silently,
whether a receiver takes the trap: a checksum, a signature over an encoding, a key, an OID.

| Part | State | Operations | Hard behaviour | What makes it correct |
|---|---|---|---|---|
| `transport/raw.rs` `send_spoofed`, `transport/unprivileged.rs` `send` | socket, source port, retry budget, last error | size check, open, set-up, bind, the retry loop, the verdict | EINTR that costs no budget; a failed attempt that got out; other holders of a port; u16 lengths | duplicates within `--retries`, all alike; the verdict is the last failure's; no port leaks; the loop ends |
| `error.rs`, `main.rs` | the error, the exit status | classifiers, `exit_code`, `report_to_stderr` | the same errno means different things at different calls | capability, MTU and usage are blamed only when they are the reason |
| `lib.rs` `run` and the builders | command line, payload | parse, resolve, build, dump, send | many early returns; a socket opened during the build | exit status 0 only when a trap left; nothing opened for a bad command line |
| `helpers.rs` `egress_ipv4_for` | a socket | bind, connect, read the address | the route may change afterwards; takes a port | the agent address is that of the datagrams while the route stays; the port is given back |
| `lib.rs` `process_uptime_seconds` | a `OnceLock` per process | first call sets it | threads race; boots are always 1; receivers keep a clock | time never goes back within a process; who can be refused |
| `cli.rs` `validate`, `lib.rs` `build_v3_security`, `usm.rs`, `v3.rs` | the v3 flags, the keys | validation, key derivation, signature | `expect`s and assertions far from the checks they rely on | no panic; the protection asked for |
| `engine.rs` `resolve` | the candidates | list, sort, read one by one | interfaces change between reads | the best interface that stayed; one engine-ID per host |
| `raw.rs` `ip_checksum` and the headers | accumulator, index | add words, add the odd byte, fold, complement | carries; a sum of zero; no error is ever seen by the sender | the receiver's sum accepts both headers |
| `v3.rs` `build_v3_trap_message`, `lib.rs` `build_v3_payload` | the message, two encodings | resolve the engine-IDs, derive, encrypt, encode, sign, encode again | two engine-IDs; time and salt in two places; BER lengths that jump | the receiver verifies, decrypts and reads the trap |
| `usm.rs` `password_to_key` | hasher, count | stretch, localize, cut | the last chunk | the key a receiver has |
| `lib.rs` argument parsing, `varbind.rs`, `pdu.rs` | the arguments parsed so far | parse left to right, refuse duplicates, build | limits of OIDs, BITS and numbers; two error classes | what is read is what was typed |
| `helpers.rs` `host_uptime_centiseconds` | two clock readings | read, subtract, cap | the clock is set in between; floats | the uptime is that of the host |
| `engine.rs`, `varbind.rs` hexadecimal | the digits left | clean, check, decode | three readers written apart | the digits decide; the three agree |
| `cli.rs` `resolve_agent_string` | none | split, look up, pick | colons; resolvers that answer with IPv6 first | the destination that was named |
| `debug.rs` | none | print the dump | stderr cannot be written | it costs neither the trap nor the exit status |
| clap, rasn, hmac, aes; tests, CI | | libraries | | not modelled |

Calls go one way: `main` -> `run` -> `Cli`, a builder (which calls `engine`, `usm`,
`v3`, `pdu`, `varbind`, `helpers`) -> the dump -> one of the transports. There is
no shared memory but the `OnceLock`. Invocations interact through the kernel
(ports) and through the receiver (engine-ID and clock).

## Modules

| Module | Models | State and actions against the code |
|---|---|---|
| `SnmpErrors` | `error.rs` and the four classifiers | operators on the name of an errno |
| `TrapSend` | nothing: the abstract promise of a transport | an invocation fixes a limit on its failures, then is refused, accepted or gives up; each attempt adds at most one copy |
| `Transport` | `transport/` | one action per system call or early return. `pc` is the place in the function, `budget`, `last_err`, `src_port` its variables, `sock` the socket it owns, `result` what it returns. `bound` is the kernel's port table; `wire` and `errs` are history. The operators under "The kernel" say what each call may answer |
| `Builds` | the two `send_spoofed`, one per platform | `build` says which one a host has; that without raw sockets is `Transport` with `RawSupported` false |
| `SnmpTrap` | `main.rs`, `run`, the builders, `egress_ipv4_for`, `report_to_stderr` | extends `Transport`: a run goes through `stage`; at `"send"` it takes the steps of `Transport`. The command line is reduced to the version, where addresses come from and the set of checks that fail; `Checks` keeps their order |
| `EngineClock` | `process_uptime_seconds`, `ENGINE_BOOTS_PER_INVOCATION` | `start` is the `OnceLock`; a thread reads it (`ReadStart`) and later builds its message (`BuildAndSend`). `Receive` is a receiver with the window of RFC 3414, 3.2 (7b), external to the code |
| `Usm` | the enums and lengths of `usm.rs` | constants that `V3Setup`, `V3Message` and `KeyStretch` share |
| `V3Setup` | `Cli::validate`, `build_v3_security`, the assertions of `usm.rs` and `v3.rs` | the phases between argv and the encoded message; a step that would panic leads to the outcome `"panic"` |
| `EngineId` | `engine::resolve`, `host_mac_linux` | `ReadDir` lists, `ReadAddress` reads one file; `Hotplug` is the host |
| `Checksum` | `ip_checksum`, `build_ipv4_header`, `build_udp_datagram` | `AddWord`, `AddLast` and `Fold` are the iterations of the loops, over `i` and `sum`; `Finish` writes the header. `exact` and `carries` are history: the sum in unbounded integers |
| `V3Message` | `build_v3_payload`, `build_v3_security`, `v3.rs`, the primitives of `usm.rs` | `m` is the `V3TrapMessage`, with the variant of its `V3Security`, which `flag_byte`, `Signs`, `Encrypts` and `auth_len` each ask in a match of their own; `scoped`, `unsigned` and `wire` the three encodings, one action per step between them; time passes between any two. An encoding is a tree with the length BER gives it; a digest, a tag or a ciphertext is a term |
| `KeyStretch` | `password_to_key`, `incremental_digest`, `priv_key_from_password` | `Update` is an iteration of the loop, `stream` what the hasher got |
| `TrapPdu` | the parsing in the builders of `lib.rs`, `varbind.rs`, `pdu.rs` | `Positional` parses one argument, `Triplet` one var-bind, `Build` makes one binding. An argument is the set of readings its text has |
| `HostUptime` | `host_uptime_centiseconds` for the three kinds of platform | `ReadProc` is Linux: the decimal fraction, the product with 100.0, each rounded to the nearest float, and the cast. `ReadBoottime` and `ReadClock` are the two system calls of macOS, with `Pass` in between |
| `EngineIdText` | `EngineId::parse_user_input`, `parse_hex_string`, `parse_mac_text` | the same text goes through the three; `cleaned` and `out` are the locals of each |
| `AgentText` | `resolve_agent_string` | an AGENT is a sequence of words and colons; `Lookup` is the resolver and the choice of an address |
| `MC*` | | instances for TLC |
| `KeyAndMessage`, `Arguments` | nothing of their own | hold `KeyStretch` and `V3Message`, and the four readers of the command line's words, as instances with separate variables; a behaviour is a call of one of them, the others resting where a call of theirs ended. The proofs and the runs share them |
| `*_proofs` | | theorems; `KeyAndMessage_proofs` and `Arguments_proofs` are for the modules those two hold |

`SnmpTrap` composes the program with the transports (`EXTENDS Transport`) and is
shown to implement it again, with an egress lookup seen as another program's
socket (`Sockets == INSTANCE Transport`). `Transport` implements `TrapSend`. Both
refinements are model-checked and proved.

The remaining modules each stand for a function that `SnmpTrap` takes as one step with
an outcome: `TrapPdu`, `V3Message`, `KeyStretch` and `HostUptime` for its `build`,
`AgentText` for its `agent`, and `Checksum` for what a raw `Attempt` of `Transport` puts
on the wire.

Definitions marked "seeded fault" are variants of the definition that follows,
with a plausible bug. No specification uses them; `PROJECT.json` pairs each
property with one that breaks it, which shows that the property can fail.

## Runs

| Run | Question | Result |
|---|---|---|
| `transport` | Is the retry loop, its verdict, the headers and the port table right for two invocations of either build, and is it a `TrapSend`? | holds, 2 million states |
| `trap_one` | For every kind of command line: exit status, sockets, agent address; does every run end, whatever interrupts its sends? | holds, 250 000 states |
| `trap_two` | Do two runs with egress lookups give their ports back, is neither blamed for the port of its own lookup, and is the program a `Transport`, in a build without raw sockets too? | holds, 650 000 states |
| `trap_route_doc` | Is an unreachable network an `Error::Routing`, as `error.rs:23` says? | violated: the egress lookup makes it `Other` |
| `clock` | Is engineTime monotonic over threads; which traps can a strict receiver refuse, in whatever order they reach it? | holds, 3 million states |
| `clock_doc` | Is engineTime the time since process start, as the README says? | violated: since the first v3 build |
| `v3_setup` | Can a command line that was accepted panic, or protect less than asked? | holds, all flag combinations |
| `v3_setup_doc` | Is `-A` required when `-a` is set, as the README says? | violated under noAuthNoPriv |
| `engine_id` | Is the engine-ID that of the primary interface, stable, and found in any case? | holds, 1 million states |
| `checksum` | Does a receiver accept both headers, and does the folding end? | holds |
| `v3_message` | Is the passphrase hashed as RFC 3414 has it; does a receiver verify, decrypt and read the trap, whatever the lengths and the engine-IDs? | holds, 140 000 states |
| `arguments` | Which command lines make a trap, which error do the others get, what is read back; which octets, which destination and which uptime do the texts stand for? | holds, 650 000 states |

Three more disagreements met while modelling have no run of their own. For an engine-ID of 65
hex digits `engine.rs:107` gives the length as 65 / 2, so the error says that 32 octets are more
than 32. A character outside ASCII is reported by `engine.rs:181` as the character of its
first octet, which the text does not contain. And `cli.rs:360` strips `udp:` whatever
follows, so that `udp:1620` is the host `1620`, not the port 1620 of a host named `udp`.

### Bounds

- Invocations: two. Properties relate one invocation to itself or to one other
  holder of a port, and "another program" can hold any port as well.
- Ports: a privileged one, a pinned one, and two of the dynamic range, of which
  one is the kernel's only ephemeral port, so that it runs out.
- Requests: both transports, pinned and free ports, 0 and 1 retries (one retry
  shows mixed failures and duplicates; the proofs are for every number), payloads
  on both sides of an Ethernet MTU and of the 65507 bytes of a datagram; one path
  is as wide as loopback so that only the program's own check stops the larger.
- Errnos: one representative per class that a classifier tells apart, and one
  (`ENOBUFS`, `EMFILE`) of the rest.
- `SnmpTrap`: every check failing alone, two failing together, help, dump and a broken
  stderr; two addresses and no route. Runs that differ only in fields the control flow
  does not look at are left out. `trap_two` is a build without raw sockets: a raw
  socket takes no port, so the competition it is about loses nothing. The other verdicts of
  that build are the business of `transport`. `AgentAddrCoherent` leaves out the runs whose route
  changed after the lookup: the code keeps the address it read, which is then stale, and
  nothing in the repository promises better.
- The two builds: in `transport` a behaviour is of one or the other, chosen at its start,
  with the same requests.
- `EngineClock`: a clock of three seconds, a window of one and a cap of one, so that both
  can be exceeded, and a capped message can be refused for its cap alone; two messages in
  flight, which may be delivered in either order, again and again, late, or never.
  Processes and threads are symmetric.
- `V3Setup`: every combination of level, user, protocols and passwords of length
  0, 7, 8 or absent. `V3Setup` and the modules of a single function below end with it, so
  their runs do not check deadlock.
- `EngineId`: three interfaces, one virtual, one physical, in an order that makes
  each rule of the sort decide; two MAC addresses.
- `Checksum`: bytes of eight values, so that words, carries and the wrap of the accumulator
  are reached by five bytes of payload; every value of one 16-bit field, so that the sum
  takes every value, the full and the empty word too. The proofs are for every base.
- `V3Message`: engine-IDs of 5, 11 and 32 octets, user names, context names and traps
  whose lengths take the security parameters and the message over 127 and over 255
  octets; two salts and three times, one of which is an octet longer.
- `TrapPdu`: integers of eight and sixteen bits and a cap of 20 on BITS, which keep the
  order of the limits; each limit from both sides; two triplets, so that a fault in the
  second is told against the first.
- `KeyStretch`: a stream of 20 octets and passphrases that divide it, that do not, of its
  length and longer. `HostUptime`: seconds of eight microseconds and four
  hundredths for the two clocks of macOS; for Linux floats of an eight-bit mantissa and uptimes
  of a few hundredths, some of which lose one to the roundings. A mantissa four bits shorter
  already puts the trap ahead of its host.
- `EngineIdText`: every text of six characters over an alphabet with one of each class
  the code tells apart; engine-IDs and MAC addresses of two octets.
- `AgentText`: every AGENT of five words, and three addresses of either family.

### Fairness

A process that can run does (`WF` of its own steps). An attempt to send may be
interrupted, which `send_to` answers with EINTR before it has sent anything, and
the loop goes round; the program installs no signal handler, so this is rare at
worst, and the assumption is only that a call that is tried again and again is
answered at last (`SF` of the answer, in `TrapFairness`). Nothing is assumed of other
programs, the routing table, the interfaces or the network. `Checksum` and `KeyStretch` are loops on one
thread that wait for nobody: weak fairness of their steps says that they run.

## Proofs

Each property was checked by TLC before it was proved, and so were `CallInv`, `TrapInv`,
`Progress`, `PduInv` and `HexInv`, the invariants with the most to get wrong. The
assumptions are the named `ASSUME`s of the modules, which the runs evaluate.

| Module | Properties proved | Inductive invariant |
|---|---|---|
| `Transport_proofs` | `TypeOK`, `CopiesWithinBudget`, `CopiesIdentical`, `LastErrorDecides`, `PortsReleased`, `LengthsExact`, `CapabilityVerdict`, `VerdictOfBuild`, `MtuVerdict`, `UsageBlamesPort`, `VerdictFinal`, `ImplementsTrapSend` | `CallInv`, `VerdictInv` |
| `SnmpTrap_proofs` | `ExitStatus`, `SocketsOnlyWhenNeeded`, `AgentAddrCoherent`, `LookupReleased`, `UsageBlamesOthers`, `ImplementsTransport`, and those of `Transport` for whole runs | `TrapInv` |
| `V3Setup_proofs` | `NoPanic`, `ProtectedAsAsked`, `OnlyShortDigestsRefusedLate` | `PhaseInv` |
| `EngineClock_proofs` | `ClockMonotonic`, `RejectionNeedsOlderProcess` | each message has the one start of its process |
| `EngineId_proofs` | `PrimaryInterface`, `StableEngineId` | what is still to be read |
| `Checksum_proofs` | `NothingLost`, `FieldCompletes`, `NeverUnchecked`, `ReceiverAccepts` | bounds of the sum, `Progress` |
| `KeyAndMessage_proofs` | `StreamExact`, `KeyUsable`; `ReceiverVerifies`, `TrapRecovered`, `FlagsTell` | the stream so far; `MessageInv` |
| `Arguments_proofs` | `UptimeExact`; `TripletsDecide`, `ReadAsTyped`; `DestinationAsRead`; `DigitsDecide`, `SameOctets` | `Computed`; `PduInv`; `AgentInv`; `HexInv` |

`Transport_proofs` is for any set of invocations, ports and requests and any
number of retries. Hardly any of its properties is inductive. `CallInv` is, together with `TypeOK`:

- `PhaseInv`: the place in the code determines whether there is a socket, a port
  and a verdict;
- `PortInv`: nothing is tried before the source port is chosen, it is chosen once,
  and every datagram on the wire is the one datagram of the call;
- `BudgetInv`: the budget left and the failures seen add up to `retries + 1`, the
  last error is that of the last failure, and there are no more copies than
  failures and acceptances;
- `SizeInv`: what passed the size check, and what the path lets through;
- `HolderInv`: a port held by an invocation is the source port of its live socket.

There is one lemma per action. The two verdicts of the raw socket need more: that
the capability found at `socket()` is remembered until the socket is closed, and
that nothing is blamed on the MTU before the first attempt. `VerdictInv` says so,
and is inductive on top of `CallInv`. The assumptions of `Transport` are that
ports are those of UDP, that the requests are what `Cli` can produce, and that a denial of a
socket is decided by the capability, a size error by the size. `VerdictOfBuild` is
`CapabilityVerdict` for whichever build runs: with raw sockets a behaviour is one of `Transport`, and
without them no step gives the verdict of a missing capability.
For `ImplementsTrapSend`, a lemma per step of
`TrapSend` says when a step of an invocation matches it, and one takes
each action of `Transport` to such a step or to a stutter.

`SnmpTrap_proofs` is for any number of whole runs. `TrapInv` says of each what its stage
implies: the checks that were passed (`CheckInv`), whether its transport was called and with what
(`CourseInv`), where its agent address is from (`AddrInv`), and which port its lookup holds
(`ProbeInv`, with `ProbeKnown` for the other direction). The steps of
the transports are taken over from `Transport_proofs`, whose lemmas are about actions and not about
its specification; the lookups, which `Transport` does not have, keep `CallInv` because they are
holders of a port that are no invocation. `ImplementsTransport` then hides them: the refinement
mapping turns each of their ports into another program's. `UsageBlamesOthers` follows from the
stages: a run whose transport binds has no lookup left, so the port in its way is held by
another run or another program.

`V3Setup_proofs` is for every command line,
not only the lengths the run enumerates: what `validate()` accepted carries, phase
by phase, exactly what the next `expect` or assertion needs, and passwords long enough
for every derivation, which leaves the builder one refusal of its own.

`Checksum_proofs` is for every base of a byte and every datagram that passes the size
check. The invariant bounds the exact sum by a full word for each pair of bytes, so that the
u32 never wraps (`NothingLost`), and says that a fold takes away a multiple of 2^16 - 1.
From these, the sum and its field make such a multiple (`FieldCompletes`).
`ReceiverAccepts` sums the words of the finished datagram again, with a recursive function. Its
lemmas need induction: that the recursion defines a function, and that putting the field in
the place of its zeros adds it to the sum, wherever it is. The library's induction theorems
take a predicate as a parameter, which the provers cannot instantiate; `SetInduction` takes the
set of numbers for which it holds, and follows from the order of the numbers being well founded
(`LeastNumber`).

`KeyAndMessage_proofs` shows what is hashed octet by octet: the invariant says that the stream
so far repeats the passphrase, and that before its end it is a whole number of copies.
`MessageInv` says from which engine-ID, time and salt each field of the message, the
encryption and the tag were made, as far as the build has come, and that the variant is that of the
level, from which each of the four matches is answered (`FourMatches`). `ReceiverVerifies` then rests on
the tag being as long as its zeros, so that no length around it changes; a sum
of lengths is a fold, and is compared with another over equal lists only.

In `Arguments_proofs`, `UptimeExact` is the arithmetic of the two clocks for all their values,
and for Linux that of a float twice rounded: the quotient and the product are each off by half a
unit of a mantissa that is larger than the uptime, together by less than one of the hundredths (`TwiceRounded`),
so that what is left of the product after the cast is the uptime or one less. `FloatAssumption` says that the
mantissa has room for the uptimes and that the floats exist.
`PduInv` says that the fields and var-binds parsed so far are what the words say, that no word
before the one in hand was bad, and that the bindings built so far are the readings
of the first var-binds; the readings themselves are lemmas on OIDs, whose first two
arcs share a number, and on BITS. `PduAssumption`
says that the unsigned integers are `0 .. n`, that the cap on BITS is one of them, and
that an argument has at most one reading of each kind. `AgentInv` says that what is looked up is a way to
read the AGENT as soon as it is a name at all, and a name when there is a way; the lemmas
show that the only colon of a text is where it is split, and that a text that was written from a host
and a port is split into them. `AgentAssumption` keeps the words that are ports apart from the
colon, the bracket and the default port.

`HexInv` follows a text through the three readers: what the length check and the decoder
work on is the text without its separators, what is decoded so far are its first characters, two to an
octet, and a verdict given is that of the whole text. Two facts about the recursions of `EngineIdText` carry it, both
for every length, by `SetInduction` again: the k-th octet that the filter keeps is the
k-th character that is no separator, counted as `DigitsDecide` counts them (`Ranked`, `KeptRanked`), and the
parts of a split, joined, are the text without its colons (`PartedRule`). So a text that reads
as a MAC address has the octets its digits have in the filter of the other two (`MacAlike`), and a
text that `-E` accepts keeps the same digits under both filters (`KeptAlike`), which is `SameOctets`.
`HexAssumption` says that the limits are numbers and that an empty engine-ID is below
the smaller: the code answers no octets before it counts them.

The type invariants of `EngineClock`, `V3Setup`, `EngineId`, `Checksum`, `KeyStretch` and
`HostUptime`, and `CallInv`, `TrapInv`, `CapabilityVerdict`, `VerdictFinal`, `FieldCompletes` and `KeyUsable`, are theorems
only: no run repeats them.

Only model-checked: liveness, which is beyond the prover (`InvocationEnds`, `Resolves`,
`FoldingEnds`, `Derived`). What each of the four rests on is a statement about steps, and that is proved
for every instance; that the steps are then taken is the fairness TLC assumes:

- `AttemptsRunOut`: interruptions apart, each step of a call brings it closer to its end, so that it takes at
  most `2 * retries + 7` of them, and nothing other calls or programs do takes it back;
- `NeverStuck`: while candidates are left, the sort has a first one, and the list never grows again,
  whatever the interfaces do;
- `FoldsShrink`: every fold makes the sum smaller, whatever its carry;
- `ChunksAdvance`: every chunk is at least an octet and none passes the end, since the length
  check of `usm.rs` keeps an empty passphrase from the loop, which would go round for ever on it.

## Not modelled

- BER encoding, digests, ciphers and argument parsing are libraries. `V3Message` and
  `TrapPdu` have the lengths and the packing of BER that the code relies on, as external
  definitions. How rasn packs a second arc close to 2^32 is its own affair.
- The BSD build writes two fields of the IP header in the kernel's byte order and sums
  them so; `Checksum` is the Linux build.
- The layout of the dump that `debug.rs` prints, the wording of errors, and the `FromStr`
  of protocols, levels and versions: tables of strings. DNS resolution is one answer. The octets of the engine-ID formats, and
  where a long host name is cut, are data no other part looks at.
- Tests, containers and CI are not part of the program.

## Plan

Everything the first plan named is done, and every safety property of a run is a
theorem. What could follow is the BSD byte order as a parameter of `Checksum`.
