# A verification development for the AGT daemon

These TLA+ modules model the parts of the Rust workspace in which state is kept
across calls, tasks or restarts: the action log, the escalation manager, the
agent registry and the rotation of the keys registered in it, the discovery of
shadow agents, the compliance decision, the MCP gateway, the files of policies and
keys, the client of a remote registry with its cache, and seven smaller services
(the circuit breaker, expiring states, credentials, risk scores, namespaces, a
WebSocket connection, and policies in a remote store). TLC
checks them on small instances; TLAPS proves the results listed under *Proofs* for
every value of the constants. `PROJECT.json` maps each definition to the lines it
models and lists the runs, the mutants that each property must catch, the hazards
of the code, the disagreements found and the theorems.

    tlc -config MCEscalation.cfg MCEscalation     # one run
    tlapm EscalationProofs.tla                    # the proofs of one module

## The system

One process, the daemon (`crates/daemon`), serves HTTP and gRPC. Its handlers run
on tokio tasks and share, behind `Arc`s, the components below. Agents and gateways
are other processes, which use the library crates and call the daemon. The CLI
(`crates/cli`) signs approvals, calls the daemon and reads the action log
directly. Nothing is replicated: what survives a restart is a handful of files.

| component | state | operations | what is hard | what makes it correct |
|---|---|---|---|---|
| action log, `ext/compliance` | a JSON-lines file, a `BufWriter`, the hash of the last record behind a mutex, a checkpoint file with that hash | `append`, `open`, `load_history`, `verify_chain` | a crash or error between the four writes of `append`; a restart that trusts the checkpoint; readers that take no lock | what was acknowledged stays; a report of tampering has a cause |
| compliance rules, `execute_action` | the history taken from the log | `evaluate`, `is_compliant`, the handler | history read, rules evaluated twice, record appended: three steps that interleave with other requests and with time | a read of the audit log is refused after a write; every answer is on record |
| escalation manager, `core/runtime` and `core/mesh` | the map of pending requests, the audit log's `BufWriter` | `request_escalation`, `approve`, `deny`, `list_pending`, `log_event` | awaits between taking the request, reading the ring, reading the key and exporting; dropped tasks; the audit log's lock is taken after the event is made; write errors are ignored and may cut a line short; loss of the map | one decision per request; an approval was authorised; what the audit log says was decided, once, and not before its time |
| agent registries | a map; a file of registrations | `register`, `get_ring`, `get_attestation`, `open` | map and file updated one after the other with no common lock; torn lines | a restart restores what was acknowledged and recent |
| agent identity and key rotation | the two halves of a key pair, in memory, in a JSON file and in a key store; the key `HttpAgentRegistry` signs with; the registered key | `rotate_keys`, `save`, `load`, `register`, `verify_request_signature` | the new key is registered by a request the old one signs; lost answers, late handlers, failed writes, restarts of either side; any registered agent may register any DID | unless another agent registers it, the agent can always speak for itself, and a replaced key cannot |
| discovery manager, alert bridge, watch stream | map of agents, broadcast channel, the bridge task, one stream per watcher | `report_presence`, `register_agent`, `list_shadows`, `watch_shadows` | lag of a receiver, replay before subscription, checks that are stale when reported, restart | one alert per finding, in order, logged, delivered; none after a registration that was announced |
| circuit breaker, `core/sre` | state, failure count, time of the last failure | `is_allowed`, `record_success`, `record_failure` | outcomes that arrive late or unasked | exact admission; recovery |
| SIEM exporter | none; one POST per record | `export`, `export_escalation` | failure of the receiver | a decision reaches the SIEM |
| HTTP daemon | `AgentServer`: the above behind `Arc`s | middleware, handlers | dropping of handlers at an await | see the parts |
| MCP gateway and rate limiter | the time of the last admitted request of each agent; the policy store and the action log | proxy, limit, decide, log, forward | two loads of the policy in one call, with a change between them; concurrent calls of an agent; a log append that fails after the call was received; an upstream that refuses the call; a handler dropped at an await | requests are spaced; what is forwarded was allowed; the log says what was forwarded, and leaves out no more than failed |
| MCP policy enforcer | the tools with the ring each requires; policies in a store | `register_tool`, `set_policy`, `evaluate` | for the gateway, which registers no tools, the policy it loads a second time | as for the gateway |
| policy stores | policies, in memory, on file, over HTTP or gRPC | `save`, `load`, `delete` | two saves that share one temporary file; the file replaced or removed between the look and the read; a look that fails and passes for "not there"; a kill while saving; over the network a lost answer and a late request | a load returns a policy that was saved, and a recent one |
| key stores | keys per DID, in memory, on file or over HTTP | `save`, `load`, `delete` | as for policies; over HTTP the key and the attestation that must match it are read one after the other | a key is not half written; a loaded key is registered |
| HTTP registry and attestation cache | cached attestations with a time to live, refreshed a random time before it ends | `get_attestation`, `get_ring`, `register`, `verify_request_signature` | answers that overtake each other; a cached attestation of a key that has been replaced | staleness is bounded |
| credentials | issued credentials with status and expiry; the clones holders keep | `issue`, `validate`, `revoke`, `is_valid` | nobody tells the holder of a clone of a revocation | a revoked credential is valid nowhere but in clones that were there |
| risk scores | signals, never forgotten; the score as last calculated | `add_signal`, `recalculate`, `get_score` | signals age out of the day that counts while the score stays; saturating arithmetic in any order | the score is never better than the signals deserve |
| namespaces | members per namespace | `create_namespace`, `add_member`, `can_communicate` | the answer depends on the order of a `HashMap` | strangers are kept apart, whatever the order |
| state backend, stateless kernel, `core/os` | map of entries, some with a deadline | `get`, `set`, `delete`, `execute` | expiry on reading; an entry set anew; a deadline beyond the clock's range, which poisons the lock | nobody can tell when an expired entry is removed |
| WebSocket transport | state and stream | `connect`, `disconnect`, `send`, `receive` | state and stream are set before and after an await; dropped futures; a peer that closes | state and stream agree |
| lifecycle manager | lifecycle state per agent | one insertion into a map | its file is not a module of the crate: it is not compiled | |
| CLI | none | log and escalation commands | payloads that must match the daemon's | the daemon accepts what it signs |
| gRPC conversions, generated code, empty crates | none | | | |

How they interact: the HTTP middleware looks an agent up in the registry and
reports it to discovery; discovery sends to a broadcast channel, from which the
bridge appends alerts to the action log and the watch streams serve clients;
`execute_action` reads its history from the same log, appends to it and exports
to the SIEM; the escalation manager reads the registry twice for each approval
and writes an audit log of its own. The gateway reads a policy store that the
policy service writes, appends to an action log and calls the upstream server.
A process on another host takes attestations and private keys from the daemon's
registry, and caches the attestations; an agent registers its keys there, with
requests the daemon verifies against the key it holds. The remaining services are
structs of the library that whoever embeds them calls.

The CLI wires these together in ways the models do not fix: they take the
registry, the stores and the keys as their embedder gives them. `agt daemon` signs
attestations with a fresh key, while clients, and the daemon itself, verify with
`AGT_REGISTRY_PUBKEY` (`KeyRotation` has both cases: `attests`); and `agt`'s gateway
starts with an empty registry in memory, so that it takes no request until its
embedder registers an agent.

## Modules

| module | models | its state and actions in the code |
|---|---|---|
| `JsonlFile` | a JSON-lines file at the grain at which a crash can tear it | a record's text is three pieces: two parts of the JSON and the newline. `LineStart`, `RecordLine` and `Parses` are what a reader that goes line by line sees |
| `ActionLog` | `FileActionLog` | `BeginAppend` to `WriteCheckpoint` are the steps of `append` under the mutex: into the buffer, out to the file in any portions, the hash in memory, truncation and writing of the checkpoint; `WriteError`, `CheckpointOpenError`, `CheckpointWriteError` its `?`s; `Stop`, `Crash`, `Open` the life of the process. Readers need no action: the properties look at `file` in every state |
| `AuditChain` | abstract: a sequence of records in which each names the one before | `ActionLog` implements it until the first failure, which its variable `failed` records (`RefinesAuditChain`) |
| `ActionLogProofs` | proofs about `ActionLog` | |
| `Escalation` | `EscalationManager` with the registry it reads, the HTTP and gRPC handlers that call it, and the CLI as a signer | `Approve`, `CheckRing`, `CheckAttestation`, `Export` are the pieces of `approve` between its awaits, `Deny` the one piece of `deny`; each makes its event (`Conclude`), which `LogEvent` writes and flushes later, under the lock of the `BufWriter`, or in part (`LogEventFails`); `Cancel` a dropped task; `Crash` the end of the process, with the map, inside a `LogEvent` or not |
| `EscalationLedger` | abstract: a request is pending, then approved, denied or dropped, and stays that | `Escalation` implements it (`RefinesLedger`) |
| `MCEscalation` | the escalations asked for; symmetry of requests, keys and calls | |
| `EscalationProofs` | proofs about `Escalation` | |
| `AgentRegistryFile` | `FileAgentRegistry` | `Register` updates the map; `Write` is one `write` of the file, the record and its newline apart; `WriteError`; `Crash`; `Open` replays the file or refuses |
| `KeyRotation` | extends `AgentRegistryFile` with an agent that registers its keys: `AgentIdentity`, `HttpAgentRegistry::register`, the key store, the daemon's verification and handler | `Rotate`, `NewClient`, `SaveKey`, `SaveIdentity`, `RestartAgent` on the agent's side; `Send`, `Verify`, `Handle`, `Proceed` (the steps of the file), `Answered` a registration; `GiveUp` and `Drop` a lost answer and a dropped handler; `CrashDaemon`, `OpenDaemon`; `RegisterOther` is a registration of any DID, the agent's own with any key included, by another registered agent: the handlers do not compare the DID that signs with the one it registers (`ByOther`) |
| `MCKeyRotation`, `KeyRotationProofs` | symmetry; proofs about `AgentRegistryFile` and `KeyRotation` | |
| `Discovery` | `DiscoveryManager`, the registration and presence handlers, the bridge and `watch_shadows` | `Unauthorised` and `ReportPassive` are the middleware's look into the registry and the report that follows, `Register` and `ReportRegistered` the two steps of a registration, `ReportActive` `/v1/presence`; `BridgeStarts`, `BridgeReceives`, `BridgeDies`; `WatchReplays`, `WatchSubscribes`, `WatchReceives`; `Restart` |
| `DiscoveryProofs` | proofs about `Discovery` | |
| `ExecuteAction` | the rules and `execute_action` | one action per step of the handler: `Begin`, `LoadHistory`, `Evaluate`, `Decide` (the second evaluation), `Stamp` (the timestamp of the record), `AppendRecord`, `Answer`, with their errors, `Cancel`, `Crash` and `Tick` |
| `MCExecuteAction`, `ExecuteActionProofs` | symmetry of requests and agents; proofs about `ExecuteAction` | |
| `Gateway` | `mcp_proxy_handler`, the rate limiter and the upstream server | `LoadPolicy` and `Limit` are the rate limiter, its lock included; `Evaluate` loads the policy again, decides and logs a denial; `Comply` reads the history; `Receive` is the upstream's part, which may execute or refuse the call, and `Answer` the gateway's after it, with the record, whatever the answer says; `BeginOther` and `AnswerOther` relay what is no tool call; `LoadFails`, `HistoryFails`, `UpstreamFails`, `Cancel`; `SavePolicy` is the policy service; `Tick` |
| `MCGateway`, `GatewayProofs` | two policies, symmetry of requests; proofs about `Gateway` | |
| `AtomicFile` | the file of `FilePolicyStore` and that of `FileKeyStore`, which save, load and delete alike | one action per system call: `SaveBegins`, `OpenTmp`, `WriteTmp`, `Rename`; `LoadBegins`, `Read`; `DeleteBegins`, `Remove`; `IOError` at each, and `Overlooks` at `path.exists()`, which answers "no" for an error; `Crash`. A file is an inode, so a save that has the temporary file open goes on writing to it after another one renamed it |
| `MCAtomicFile` | symmetry of calls | |
| `RegistryClient` | `HttpAgentRegistry` and its cache, `verify_request_signature`, `HttpKeyStore::load_key`, and the daemon's side of the two questions | `Request` looks into the cache, `Serve` makes an attestation, `Receive` caches it, `Verify` decides; `Load`, `ServeKey`, `ServeAttested`, `ReceiveKey` load a key; `NetworkFails`, `Cancel`; `Register` and `SaveKey` change what the daemon holds; `Tick` |
| `MCRegistryClient`, `RegistryClientProofs` | symmetry of keys and tasks; proofs about `RegistryClient` | |
| `Clock` | the time the services of one process read | |
| `CircuitBreaker` | `CircuitBreaker` | one action per method, since each holds the write lock; callers ask and record later; `Tick` is time |
| `StateBackend` | `MemoryBackend` and `StatelessKernel::execute` | `Set`, `Delete` and `Load` are methods under the write lock; a `Set` beyond the clock's range panics and poisons it, after which every call panics (`LoadPanics`, `CallPanics`); `Blocked` and `Executed` are the rest of `execute`, whose placeholder action never writes a state back |
| `TtlMap` | abstract: a map whose entries count the time they have left | `StateBackend` implements it (`RefinesTtlMap`) |
| `Credentials` | `CredentialManager` and the clones of its credentials | `Issue`, `Validate`, `Revoke`; `IsValid` is what a holder asks its clone |
| `RiskScore` | `RiskScorer` | `AddSignal`, `Recalculate`; `Calculate` is the score of the signals that are `Recent`, the reductions taken in their order with saturating arithmetic (`Left`) |
| `Namespaces` | `NamespaceManager` | `CreateNamespace`, `AddMember`; `CanCommunicate` for every order of the `HashMap` (`LastOf`) |
| `WebSocket` | `WebSocketTransport` | `Connect` and `Disconnect` up to their await, `Connects`, `Closes` after it, `ConnectCut`, `CloseCut` for a failure or a dropped future; `Receive`; `PeerCloses` |
| `RemoteStore` | `HttpPolicyStore`, `NetworkPolicyStore`, the handlers that serve them and the memory store behind | `Request`, `VerifyCall`, `Refused`, `Save`, `LoadPolicy`, `Reply`; `Lose` is a lost request or answer; `RestartDaemon` |
| `Services`, `MCServices` | the seven modules above, from `CircuitBreaker` on, in one specification | `active` is the one that acts |
| `ServicesProofs` | proofs about the seven services and `AtomicFile` | |

What is abstracted everywhere: the JSON itself, texts, addresses and the
parts of records no property tells apart. A hash is the id of the record it is
of: `compute_hash` covers a fresh UUID and not `prev_hash`. A signature is the
key it was made with and the payload it was made over.

The log is modelled at two grains. `ActionLog` has the single record with its
writes; `Discovery`, `ExecuteAction` and `Gateway` take an append as one step, which
its mutex justifies for completed appends, and keep of a failed one what `ActionLog`
shows possible: the record is in the log, is not, or has left a line that does not
parse.

The registry client's agent is a single one, and the registry is taken to answer for
the agent that was asked about: the client does not compare the DID in an attestation
with the one it asked for.

The services are composed by choosing, at the start, the one that acts. They share
no variable but the clock, and none calls another: what a service does is the same
in any interleaving with the others, which would multiply the states and show
nothing more. Each also has a specification of its own (`BackendSpec`,
`CredentialSpec`, ...), which the proofs are about.

## Runs

| run | what it shows |
|---|---|
| `action_log` | With up to 2 crashes and 2 I/O errors at any step: a record that `verify_chain` reports was the first one appended after an append had been cut short (`ViolationsExplained`), at most one per failure (`ViolationsBounded`), and a record whose `append` returned `Ok` stays in the file (`AckedDurable`). Until the first failure, and with any number of restarts, the file is an audit chain (`RefinesAuditChain`) |
| `action_log_intact` | *violated*: a kill between the flush and the checkpoint, and the log is reported as tampered with |
| `escalation` | Two calls on two requests: no request is decided twice (`OneDecision`), an approval had a signature by a key, and a ring, that the approver was registered with (`ApprovalAuthorised`), a line of the audit log that parses is a decision, which is there once and not behind one that was made after it was answered, though failed writes and crashes cut lines short (`AuditInOrder`), and decisions are not taken back nor do dropped requests return (`RefinesLedger`) |
| `escalation_cli` | *violated*: an approval signed by `agt escalate approve` is denied for its signature |
| `key_rotation` | An agent with three keys and a daemon, with lost answers, late handlers, failed writes, restarts of either side and other agents that register any DID. The registry: a daemon that is up knows every acknowledged DID, by a registration that is not older than the acknowledged one (`RestoredIsRecent`), and refuses to start only for a torn line or overlapping registrations (`RefusesOnlyWhenTorn`). The keys: an agent that gives a key up only after another one was acknowledged, in a call that began when none for the old key was on its way, is locked out by nothing but a registration another agent made of it (`NotLockedOut`); what is signed with a key after it was replaced registers nothing, ever, unless another agent brings the key back (`ReplacedKeyPowerless`); a daemon without a first registration, or that attests with another key than it verifies by, registers nobody (`NothingFromNothing`). `RotationTypeOK` is the type invariant |
| `discovery` | Alerts are logged and delivered once and in order (`AlertsInOrder`), one or two per discovered agent and start of the daemon (`AlertsPerAgent`), an unregistered agent stays listed (`UnregisteredListed`), after a registration that was announced the agent is neither listed nor alerted on until the daemon ends (`RegisteredForGood`), and an alert sent while the bridge listens is logged unless an append failed, the daemon restarted or the bridge ended (`AlertLogged`) |
| `execute_action` | Three requests at once with time, a fault and a crash: a read of the audit log is permitted only without a recent write that was logged when the request began, and denied only with one (`ReadIsolated`); a denial names a rule of its answer (`DenialExplained`); an answered request is logged once (`AnswerLogged`) |
| `gateway` | Three calls of an agent whose policy changes at any time: two admitted calls are as far apart as the policy says that was loaded for the later one (`RateLimited`); what the upstream receives was admitted and had a policy that allows it at some time during the call (`ForwardedAllowed`), though the policy is loaded twice; the log calls permitted exactly what the upstream received, admitted and allowed, and denied what it never does (`LogTruthful`); calls that were answered, denied, or received and then failed, and are missing in the log, are no more than the faults (`UnloggedBounded`) |
| `atomic_file` | Saves, loads and deletes of one policy or key that overlap at every system call, fail, seen or unseen, and are killed: only two saves at once can leave a file that does not parse (`TornExplained`), a load that could look returns what a recent save stored (`LoadRecent`), and a call that fails without an I/O error met another one (`ErrorsExplained`) |
| `policy_torn` | *violated*: two saves of a policy at once leave a file that does not parse |
| `registry_client` | A request is accepted only by a key registered no longer ago than an attestation is valid and the cache reaches back, so a replaced key is accepted that long and no longer (`AcceptedRecent`); a key registered for that long is not refused (`DeniedExplained`); a private key is loaded only if it was registered during the call (`LoadedCurrent`) |
| `services` | The breaker admits exactly by the failures since the last success and the time since the last failure (`AdmissionExact`) and recovers unless failures never end (`Recovers`). The backend is a map of entries that vanish when their time is up, whenever they are removed (`RefinesTtlMap`). A revoked credential is valid only in clones that were there before (`RevocationTakesHold`). A risk score is never better than the signals of the last day deserve, nor worse than all do (`ScoreNeverFlatters`). Agents without a namespace in common may not communicate, agents of the same ones may, in any order of the map (`CommunicationSound`). State and stream of a WebSocket agree unless a connect or disconnect was cut short (`StateMatchesStream`). A load over the network misses no acknowledged save and returns none that was replaced before (`RemoteLoadRecent`). |

Type invariants: `key_rotation` checks `RotationTypeOK`, which contains that of
`AgentRegistryFile`. Those of `ActionLog`, `Escalation`, `Gateway`, `RegistryClient`,
`CircuitBreaker`, `StateBackend` (`BackendTypeOK`), `Discovery`, `ExecuteAction` and
`AtomicFile` (`FileTypeOK`) are proved and not run as well.

### Bounds

Every bound is a constant with a guard, named in the module.

- `ActionLog`: four records let a failure, a record that carries its trace and a
  further failure follow one another; each append has at most five steps, so two
  crashes and two errors cover all pairs of failure points. Restarts are unbounded.
- `Escalation`: two requests and two calls give every overlap of two decisions, of
  the same request and of different ones. Two keys and two rings are needed for a
  re-registration to change either or both. A third ring adds nothing: the code
  compares rings only with each other and with System. `MaxFailures` bounds faults
  and crashes together: one of either, at any step; `MaxEntries` lets each approver be
  registered with two different entries; `MCRequest` has an escalation the transition
  check lets pass and one it denies.
- `KeyRotation`: a first registration that was there before, and two more, of the agent
  or of another one, by itself or by another, so that three registrations overlap, fail
  and follow one another; two keys after the first, for a rotation after a rotation;
  three faults (answers lost, writes failed, restarts), so that a call, the agent and
  the daemon can each meet one. A third registration of its own is more
  than a run affords; `RotationTheorem` has every number of them. Three calls are too few for
  another agent to bring back a replaced key, which `ReplacedKeyPowerless` excepts: with
  a fourth it does; `PowerlessTheorem` has any number.
- `Discovery`: the channel holds 2 events for the code's 100 and three are sent, so
  a receiver can be caught up, behind and lagging, in any kind of event.
- `ExecuteAction`: two agents, so two of the three requests are of one agent; time
  takes two values and the window is one tick, so a write can be within it and out
  of it.
- `Gateway`: one agent, since agents share only the log, and the map of last requests
  is keyed by the agent; three calls, so that the limit is between any two with a
  third in progress; two policies, of different interval and verdict; two faults, so
  that an append and the upstream can both fail; time goes beyond the longest interval
  of a second.
- `AtomicFile`: four calls are two saves, whose system calls overlap, and a load and a
  delete around or between them; of the texts one is longer than the other, which is
  what a torn file takes. Faults and crashes are unbounded but for the calls.
- `RegistryClient`: two tasks, each of which may make any number of calls, so an
  answer can be late by several calls of the other; two keys for a replaced one; time
  goes beyond the life of an attestation, and the jitter takes two values.
- `CircuitBreaker`: ages and counts are cut at the value beyond which the code's
  comparisons do not tell them apart, which loses nothing.
- `StateBackend`: two keys and values; times to live of 0, 2 and 4 with a clock of 0
  to 3 in a range of 6, so that an entry is expired at once, expires on reading, is set
  anew, outlives the run, or overflows the clock.
- `Credentials`: two credentials, two holders; a lifetime of 2 ends within the run.
- `RiskScore`: four signals of three kinds at any time; four of one component exceed
  its base of 70, so that the subtraction saturates, and a day of 2 ticks ends.
- `Namespaces`: two names and two members are the least for which the order of the map
  matters. `WebSocket` has no bound.
- `RemoteStore`: three calls, two saves and a load, the least in which a late save can
  hide one that was acknowledged.

Deadlock is checked except in `execute_action`, `gateway`, `atomic_file`,
`registry_client` and `key_rotation`, where the calls are finitely many or the clock
stops at its bound.

### Fairness

`CircuitBreaker!FairSpec` asks only that time passes; callers owe nothing.
`ServicesSpec` asks the same, and nothing of the other services.
`Discovery!FairSpec` asks that the bridge's task runs when it can, which tokio's
scheduler gives a spawned task; nothing is asked of handlers or watchers.
`Escalation!FairSpec`, which only `EscalationSiem.cfg` uses, asks that the registry and
the SIEM answer each call, if only with an error.

## Where the code and its documents disagree

Three are runs, with a counterexample of TLC's (`findings` in `PROJECT.json`
quotes the documents):

1. `action_log_intact`: `append` flushes the record and then writes the checkpoint,
   and `open` trusts the checkpoint. A kill between the two makes the next record
   name the wrong predecessor. `chaos_test.sh` expects `agt log verify` to pass.
2. `escalation_cli`: the CLI signs `<id>:target-agent:<number>`; the daemon
   verifies the agent's DID and the ring's name. Every such approval is denied and
   the request is used up.
3. `policy_torn`: all saves of a policy share one temporary file. ADR-001 says that a
   partial write never results in a corrupted policy; it does when another save
   renames the file in between.

The modules state twelve more, each with a configuration that refutes it (with
`-continue` TLC reports every one that a configuration names; those of `Escalation` are
for `MCEscalation`):

| property | configuration | what the code does |
|---|---|---|
| `ReadableAfterRestart` | `ActionLogReadable.cfg` | a kill in a write leaves a line at which `verify_chain` fails |
| `SystemKeyApproves` | `EscalationRefuted.cfg` | ring and key are read one after the other, and a registration comes between |
| `AnsweredIsAudited` | `EscalationRefuted.cfg` | errors of the audit log are ignored |
| `EveryDecisionExported` | `EscalationSiem.cfg` | the export is tried once and may be dropped |
| `RestartKeepsRegistry` | `RegistryRefuted.cfg` | two registrations of an agent reach map and file in different orders |
| `AppendsAreAtomic` | `RegistryRefuted.cfg` | an append to the registry's file is two writes without a lock |
| `SurvivesCrash` | `RegistryRefuted.cfg` | a torn line keeps the registry from opening |
| `NoAlertLost` | `DiscoveryLag.cfg` | `while let Ok(..) = rx.recv().await` also ends on `Lagged` |
| `ShadowsAreUnregistered` | `DiscoveryShadows.cfg` | a registration between the look and the report leaves a shadow behind |
| `NoGap` | `DiscoveryGap.cfg` | an alert between replay and subscription reaches no watcher |
| `NoReadAfterWrite` | `ExecuteSox.cfg` | history is read before the record is appended |
| `AcceptedByNewAttestation` | `RegistryFresh.cfg` | ADR-004 has an agent without a "valid, fresh attestation" halt before critical operations; the code takes the one in the cache, whose key may have been replaced, for every operation (`AcceptedRecent` says how old it can be) |

Where such a claim has a condition under which it does hold, that is proved (*Proofs*):
`IntactLogVerifies` without a kill or an I/O error, `TornExplained` and
`RegisterTheorem` while no saves overlap (and the looks before loads and deletes
succeed), `HonestAccepted` for a signature over the daemon's payload, `RingKept` for an
approver that keeps its ring, `AnsweredAudited` without faults and crashes,
`AnsweredExported` without faults, `SequentialAppends` and `SequentialRestarts` while no
registrations overlap, `AlertAccounted` until the bridge ends, `StreamComplete` once a
watcher is subscribed, and `SequentialReads` for an agent that makes one request at a
time.

Found by reading:

- ADR-004 has attestations refreshed at 80 to 90 % of their life; the code refreshes
  them one to two hours before the end of 24, at 92 to 96 %. `RegistryClient` keeps only
  the order of these times, 0 < `JitterMin` < `JitterMax` <= `Ttl`, so it covers both.
- ADR-004 (line 13) requires "Subject DID Matching"; `get_attestation` of the client and
  `verify_request_signature` never compare the DID in an attestation with the one of the
  request. The models assume that the registry answers for the agent asked about.
- The handlers of a registration (`daemon/src/lib.rs` 227-236, `grpc/registry.rs` 18-37)
  do not compare the DID that signed the request with the one it registers. `KeyRotation`
  follows them, and its properties say what then still holds.
- The gateway logs "permitted", and answers with success, for whatever JSON the upstream
  returns, a JSON-RPC error included, without a look at the HTTP status (`gateway.rs`
  177-197): the log says what was forwarded, not what was executed.
- `path.exists()` in the file stores (`store.rs` 88 and 98, `keystore.rs` 129 and 153)
  turns an error into "not there": a load then returns nothing and a delete succeeds
  with the file still in place (`Overlooks` in `AtomicFile`).
- `HttpPolicyStore::save_policy` sends its body without a `Content-Type`, and the
  handler's `Json` extractor answers 415 to that: a policy is saved over gRPC only
  (`Refused` in `RemoteStore`).
- `agt daemon` attests with a key it generates at its start, and verifies with
  `AGT_REGISTRY_PUBKEY`: unless its embedder brings the two together no signed request
  passes, the registration of the first agent included. `NothingFromNothing` states
  what follows.

## Proofs

For every value of the constants that the modules' `ASSUME`s admit:

- `ActionLogProofs`: `TypeInvariant`, `ChainTheorem` (`ViolationsExplained`),
  `DurabilityTheorem` (`AckedDurable`), `BoundTheorem` (`ViolationsBounded`) and
  `RefinementTheorem` (`RefinesAuditChain`). None of these properties is inductive:
  whether the next record will name the right predecessor depends on memory, the
  buffer and the checkpoint together. The proofs look at the file with the buffer
  behind it, which `WriteOut` leaves alone. `IInv` adds that this text ends in that of
  the record in hand as far as the append has come (`AppendInv`), that its tip is what
  memory or checkpoint holds unless an append was cut short (`TipInv`), and that each
  link is right or its record is in `afterBreak` (`Linked`). For the bound, `CountInv`
  counts: the ids in `afterBreak`, and one more while an append or its checkpoint is cut
  short and no other has begun, are at most as many as the failures; and no record is
  there twice. For the refinement, `ShapeInv` says that until the first
  failure the text is whole records, each of which names the one before it, and of
  which at most three pieces are still in the buffer; the step that writes a record's
  second piece is `AuditChain!Extend`, the others stutter, and the first failure is
  `AuditChain!Fail`. From `ShapeInv` also follows `IntactLogVerifies`: until the first
  failure, and whenever no write is under way, `verify_chain` reads the log and reports
  nothing, so that what `chaos_test.sh` requires takes a kill or an I/O error to break.
- `EscalationProofs`: `OneDecisionTheorem`, `ApprovalTheorem`, `AuditTheorem`
  (`AuditInOrder`) and `LedgerTheorem` (`RefinesLedger`). `IInv` adds that a request in
  the map, one that a call has taken and one that is decided are different requests,
  taken by one call only (`Exclusive`), and what a call has found out before its next
  await (`Witnessed`). For the audit log, `OrderInv` looks at the file with the
  BufWriter behind it: its pieces are of events whose calls have come to the log, none
  is there twice, and none of an answered event stands behind one of an event made later
  (`Sound`); a write that fails, or a crash, only cuts its end. The refinement rests on
  `Exclusive`: a request has one status, and each action changes the status of one
  request, or drops those of the map. The rest is what the ADRs say and the code keeps
  in part: without a fault or a crash an answered decision is in the file
  (`AnsweredAudited`), and without a fault it has reached the SIEM (`AnsweredExported`);
  an approval signed over the daemon's payload with the only key of its approver is not
  denied for its signature (`HonestAccepted`); and only a key of the System ring
  approves for an approver that never changed its ring (`RingKept`).
- `KeyRotationProofs`, first the registry by itself, for any number of overlapping
  registrations, failed writes and crashes. `RestoredTheorem` (`RestoredIsRecent`):
  registrations that overlap may spoil each other's lines, but then the file is refused;
  if it is not, every record's first piece begins a line that is that record.
  `RefusesTheorem` (`RefusesOnlyWhenTorn`): until two registrations overlap, or one
  follows another that was cut short, the file is a `Succession` of texts, of which only
  the last can be incomplete, and the rest of that one is in the hands of the call that
  writes it (`OrderlyInv`, the third case of `RefusalInv`).
  `SequentialAppends` and `SequentialRestarts`: what the comment on the writes and
  ADR-006 claim (`AppendsAreAtomic`, `RestartKeepsRegistry`, refuted below) does hold
  while no two registrations overlap; then the map, and what `open` restores, have the
  last registration of each DID (`CurrentInv`).
- The same module, the agent and its daemon: `RotationTypeTheorem`, `RotationTheorem`
  (`NotLockedOut`), `PowerlessTheorem` and `NothingTheorem`. `RegistryRefined` says that
  each of their steps is one of the registry's or leaves it alone, and
  `RotationRestored` and `RotationRefuses` that it keeps its promises among them, also
  if the agent was registered beforehand. The argument of `RestoredIsRecent` is carried
  to the agent: a key is `Settled`, and will never be registered again, once all calls
  that register it had ended when an acknowledged call began. A careful agent gives up
  only such keys, or ones that no call registers (`LostInv`), and what is signed with
  one is never verified (`PowerlessInv`), unless another agent has registered it for
  this one (`ByOther`), which the handlers do not prevent.
- `DiscoveryProofs`: `DiscoveryTypes`, `Ordered` (`AlertsInOrder`), `OneAlertOrTwo`
  (`AlertsPerAgent`), `ShadowsListed` (`UnregisteredListed`) and `RegisteredTheorem`
  (`RegisteredForGood`), for any capacity of the
  channel. What a receiver has is in order and at most at its cursor, from which it can
  only go on, lagging or not; a watcher that read the log is behind the channel until it
  subscribes (`OrderInv`). How an agent was discovered first tells how many alerts it has
  raised since the start (`AlertInv`), and what the manager calls registered, or a handler
  is about to, is in the registry (`ListInv`). `AlertAccounted` is the safety half of
  `AlertLogged`: an alert that the bridge was awaiting is awaited until it is logged, an
  append fails, the daemon restarts or the bridge has ended, and none of that is undone.
  `StreamComplete` says it of a watcher: an alert ahead of it in its live stream comes to
  it, unless the daemon restarts, or `Capacity` later events push it out of the channel.
- `ExecuteActionProofs`: `ExecuteTypes`, `Isolation` (`ReadIsolated`), `Explained`
  (`DenialExplained`) and `Logged` (`AnswerLogged`), for any number of requests at once
  and any window. The log only grows, so the history a request read misses nothing that
  was there when it began (`HistorySound`); time only makes fewer writes recent, so what
  the second evaluation finds violated the first one had found (`CallOK`); and a record
  is in the log only as the request that made it still has it (`LogOK`).
  `SequentialReads`: no permitted read follows a recent write (`NoReadAfterWrite`) of an
  agent each of whose requests began after its earlier records were in the log.
- `GatewayProofs`: `TypeTheorem`, `RateTheorem`, `ForwardTheorem`, `LogTheorem` and
  `UnloggedTheorem`. Where a call stands tells whether it has an agent (`Attributed`), was
  admitted and no later than the last admission on record (`Limited`), had a policy
  that allows it while it was checked (`Authorised`), can have been received
  (`Receivable`), and has a record (`LogInv`). A step adds one call to `Unlogged` at
  most, and none without a fault (`UnloggedStep`).
- `RegistryClientProofs`: `ClientTypeTheorem`, `AcceptedTheorem`, `DeniedTheorem` and
  `LoadedTheorem`. An attestation is `Sound` if its key was registered when it was
  issued and a key that has replaced it since was not registered earlier than that;
  what a task decides by is sound and was young enough when its call began, whether it
  came from the cache or from the registry.
- `ServicesProofs`, each of the specification of its module:
  - `AdmissionTheorem`. `Tracks` relates the state of the breaker and the time of the last
    failure to what happened: away from the closed state every failure reaches the
    threshold again and renews the time.
  - `BackendTheorem` (`RefinesTtlMap`): an entry with a deadline is an entry with the time
    left, and a tick takes one from each.
  - `RevocationTheorem`: a clone has the lifetime of its credential, and an active clone
    of a revoked one belongs to an exempt holder.
  - `ScoreTheorem` (`ScoreNeverFlatters`), for any reductions and in any order of times:
    the score on record is that of all signals at some earlier time, when at least those
    were recent that are now; subtracting with saturation one by one leaves the base less
    the sum, or nothing (`LeftDeserved`); and the sum grows with the signals that count
    (`DeservedLess`).
  - `CommunicationTheorem`, `StreamTheorem`.
  - `RemoteTheorem`: of two acknowledged saves, one over before the other began, the daemon
    does not hold the earlier.
  - `FileTypesTheorem`, `TornTheorem`, `LoadTheorem`, `ErrorsTheorem` and
    `RegisterTheorem`, for any number of saves, loads and deletes of one file.
    Unless two saves overlap, the one that has the
    temporary file open is the only one to write it, and it holds the beginning of its
    text (`TornInv`); a file that disappears between the look and the use does so by an
    overlapping call (`RaceInv`); and the text at the path is that of a save, or of one that
    overlaps it, after whose end no save or delete both began and took effect
    (`SourceInv`). Until two saves overlap every step is one of an atomic register
    (`RegisterStep`): a save or a delete takes effect in the step that acknowledges it,
    and a load returns what the register holds in the step in which it ends. Loads and
    deletes whose `path.exists()` swallowed an error are excepted, and spoil no other call.

Where a proof needs an induction, over the pieces of a file or the signals of an agent,
it is written as one on numbers, without the library's induction theorems: of the
numbers at which a claim fails there would be a least (`LeastNumber`).

The assumptions are those on bounds and on `None` and its like, which are no value of
any set they are joined with (a score, for `RiskScore`), and that the bridge of
`Discovery` is not one of its watchers; no assumption is made about
the code.

Only model-checked are `Recovers` and `AlertLogged`: liveness is out of TLAPS's reach.
Every invariant and every other action or refinement property of the passing runs is
proved.

## Not modelled

- The lifecycle manager: its file is not declared as a module of its crate, so it is
  not compiled; it would be one insertion into a map.
- Conversions between the gRPC messages and the types of the crates, generated code and
  the empty crates (hypervisor, lightning, marketplace, adapters, saga): no state.
- `PolicyEnforcer` with registered tools, which only the demonstration `agt run` has
  (`cli/src/main.rs` 241-253, 606): `evaluate` then compares two rings and looks into
  the policy, in one call that changes nothing, so that a property could only repeat its
  guards.
- `delegation.rs`, which fills in a struct, and `mtls.rs`, which builds a certificate.
- The encryption of keys at rest, and of the daemon: the routes, the handlers that list
  or return what is there, and the wiring of the parts; of the CLI: argument parsing.
- Cryptography is taken as ideal.
- `fsync` is not called anywhere in the code, so a power failure may lose what the
  kernel has; the models' crashes are those of the process.
- The `u32` of the breaker's failure count, which needs 2^32 failures without a success
  to overflow.

## Plan

Done: everything that keeps state, in the modules above. Left is `Gateway` with the
attestation cache of `RegistryClient` in front of it: how long a replaced key can make
calls.
