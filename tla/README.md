# A formal model of Recto

TLA+ specifications of Recto's bootloader (`src/recto/bootloader/`) and of the programs around it, the TLC
configurations that check them, and TLAPS proofs of the properties that matter most. The bootloader is the server that
keeps an operator's secrets: it hands a secret to an agent only when a paired phone has signed for it, and it changes
its own set of owner phones only on the word of the owners it already has. Beside it stand the supervisor that runs a
service with its secrets, and the `recto` command.

To check it:

    tlc -workers 2 -config SlotsFile.cfg MCOwnerSlots     # a run: a .cfg and its module
    tlapm OwnerSlotsProofs.tla                            # the proofs of a module

`PROJECT.json` has the runs, what each definition stands for in the source, the hazards at their lines, and the theorems.

## 1. Inventory

### The owners of a bootloader

**Genesis chain and its store** (`genesis_chain.py`, `state.py`, `cli.py vault enrol-member`).
State: `genesis_members.json`, a hash chain of entries that add, remove or replace the passphrase and the owner
devices, seal the bootloader's id and rotate the operator key; `genesis_seal_mark.json`, the high-water mark beside it.
Operations: replay, append, the check and the settling of the mark at a start.
Hard: an append makes three atomic writes, any of which can fail, and the process can die between any two; the host
command appends from another process under no common lock; a file can come back from a backup.
Correct when: files the store wrote are never refused by it; a chain it answers with is never older than the last
finished append; a sealed set keeps the passphrase and a device; no single key changes a set; a set can always be
changed again.

**Owner slots and registration** (`server.py` `_handle_register`, `_respond_owner_enroll`, `_handle_revoke_phone`,
`owner_slots.py`, `cli.py owner-reset`).
State: the registered phones and the slot each holds (`primary`, `recovery`), the genesis marker, the owner-enroll
records (request, approval, refusal), and who holds the registry lock.
Operations: the first owner by genesis, a later one by the approval of an owner; deny, contest, revoke, retire; the
host's reset from another process.
Hard: a handler writes twice and can stop in between; approvals outlive the state they were given in; two keys race for
a slot; the host reset runs beside a server on Postgres.
Correct when: a slot has one key; an approval is used only for what it approved, by an owner that stands, and never
after its giver was removed; the owners are emptied by the host reset only.

**Top plane** (`server.py`, `top_plane.py`, `owner_slots.py`).
On a sealed bootloader the chain's device members and the registry's owner phones have to move together. State: both,
plus the records of owner resets and device acts (`top_plane.json`), the revocation list, the pending cards.
Operations: the owner reset from start over window, cancel, arm, code, registration, passphrase to completion, abort or
grace; slot entries; add-device and remove-device acts; the roll forward at a start.
Hard: every operation spans minutes or days and several handlers, and its last handler writes to chain, registry and
record one after the other. Windows, graces, codes and challenges lapse in any order.
Correct when: one reset moves at a time; a cancelled reset never seats; no reset seats before its window; an owner keeps
the cancel; registry and chain agree again after a start; the last owner never leaves.

**Operator key and served id** (`server.py` gates 5a, 5b, 5d and the acts' finish, `vault_root.py`, `cli.py vault bootstrap`).
State: the key in `vault_root.json`, the key and the id the chain names, the key and the id of the running process, the
records of the seal-id and rotate-operator acts.
Operations: a start through its gates, the two acts, their unfinished work rolled forward, the host's bootstrap command.
Hard: three places hold one fact and are written one after the other; an act is opened under one key and approved under
another; the host writes the vault beside a serving process.
Correct when: a process that serves does so with the key and the id its chain names; an operator that repairs with the
documented command gets a bootloader that starts.

### What an approval is worth

**Capability lifecycle** (`server.py` `_handle_capability_request`, `_handle_pending`, `_handle_respond`,
`_handle_capability_result`, `_handle_secrets_read`, `_handle_capability_revoke`; `state.py`, `state_postgres.py`).
State: pending cards, results, the revocation list.
Operations: an agent asks, the phone polls, the first poll stamps the grant window, the phone answers, the agent
fetches the token, reads secrets with it, and the operator revokes it.
Hard: every HTTP request is a thread and takes the store's lock once per store call, never across two; tokens expire
while they are in use; the list's file write can fail after the list changed in memory.
Correct when: a request gets one answer over the bytes the phone was shown; its result is delivered once; a single-use
token reads once; a revoke stays.

**Capability manifest and pair record** (`capability/manifest.py`, `jwt.py`, `pair_record.py`, `server.py`).
State: the manifest and policies of the running process, the claims of each card, the manifest a consumer cached; the
grants of pairings, spent or not, in memory and in the file. Operations: ask, sign, use at four verifiers, restart with
other settings; pair, relay, unpair. Hard: what was judged at the request is used under another manifest, by verifiers
that read different parts of the claims; a grant has to be spent before it leaves. Correct when: a use is within the
policy the token was asked under; a consumer is handed a grant once.

**Quorum** (`quorum.py`, `genesis_authority.py`). No state but the loop's. Correct when: it counts members, not
signatures, and accepts exactly when k distinct members' keys signed.

**Master identity profile** (`profile/`, `cli.py profile`, `server.py`). State: `master_identity.json`, the profile cards
and results, the commands that poll. Operations: create, add-device, revoke-device, mark revoked. Hard: a request is
checked when it is queued and only in part when it is applied; a command may time out, lose its reply and run again.
Correct when: no retry makes a second profile; a profile never loses its last device; what was reported is what is stored.

**User vault and its grants, connections vault** (`user_vault/`, `connections/`, `server.py`). State: a backend of values
and a JSON sidecar of rows, one pair per vault; standing grants, the requests for them, and the revocation list.
Hard: sidecars are loaded, changed and saved around a write of the value, without a lock; a grant is replaced, revoked
and stopped by requests that overlap. Correct when: an answered set or delete stands; a signed act acts once; a grant that
was taken back is never live again.

### Phones, members and consumers

**Sessions and phone rows** (`state.py`, `sessions.py`, `server.py`): a phone's row and what hangs on it (push token,
session, cards, owner-enroll records). Hard: a request finds the row in one store call and acts in a later one. Correct
when: a removed phone stays out, with all that hung on it, and its answers resolve nothing.

**Members** (`server.py`, `state.py`, `state_postgres.py`): phones of a consumer's members, their codes, challenges and
bindings. Correct when: a subject has one phone, a phone one subject per consumer, a code buys one registration, and a
bound subject moves only with the bound phone's signature.

**Wrong-code limiter** (`owner_slots.py`): a sliding window per client and the public exposure of each live code. Correct
when: no code is redeemed that sat through its budget of wrong guesses.

**Cluster registry** (`clusters.py`): leases, a registry file and a projection other programs read. Correct when: a
cluster that beats in time keeps its lease, one that was told it retired stays retired, and a lease moves forward only.

### The supervisor

**Launcher, restart policy, health probe, event dispatch** (`launcher.py`, `_launcher_run.py`, `restart.py`,
`healthz.py`, `comms.py`). State: the child, its probe thread, the attempts and the backoff, the open secret sources, the
webhooks. Hard: the child exits while the probe counts, the kill's grace ends as the child leaves by itself, a webhook or a
source fails in between. Correct when: one child at a time; a child is terminated for its own silence only; restarts keep
to their budget; a wedged child is replaced.

### How they interact

The registry lock is the only lock the handlers share, and they decide under it. The top plane appends to the chain and
then changes the registry. A phone's removal refuses its approvals, drops its cards and its cancels. A revoked reset
intent, a spent or revoked token, a spent act, a pairing that was handed over and a grant that was taken back are entries
of one revocation list. The chain gives the top plane its devices and the trust root its key and id. Agents, phones,
consumers, clusters and the host command are outside parties that may act, repeat or stay silent.

### Not modelled, or partly

| Component | Status | Why |
|---|---|---|
| State store (`state.py`, `state_postgres.py`) | partly | each of its users' modules has the part it uses, write by write; the coin wallets' lists are plain put and get |
| Top plane | partly | the replace-passphrase act is missing |
| Sessions | partly | minting is signing; `get_session` and `increment_session_uses` are called by nothing |
| Command line | partly | `vault enrol-member`, `owner-reset`, `vault bootstrap` and the profile commands are actions; the others print, or configure a service manager |
| Push (`push.py`), event publisher (`events.py`) | no | calls out; a card does not depend on its push, and nothing reads the events back |
| Reconciler | no | a pure difference of two documents, and external calls |
| Secret backends | no | wrappers of the operating system's stores; `Supervisor` has their lifecycle, `Vault` their put, get and failure |
| QR, coin signature helpers | no | encoding and number theory, no state |
| Phone services, phone application | no | a C# program that the models take as a party that may answer, repeat or stay silent |
| Docker, scripts, stand-in phone | no | packaging and development tools |

## 2. The modules and the code

| Module | Models | Used by |
|---|---|---|
| `ChainRules` | what `replay_state` accepts and what a chain says; the seal mark's check | `GenesisStore` |
| `GenesisStore` | the two files, the processes that append, crashes, failed writes, starts | `MCGenesisStore`, `GenesisStoreProofs` |
| `SealedLog` | abstract: one log that only acknowledged appends bind; implemented by `GenesisStore` | `GenesisStore` |
| `OwnerSlots` | owner slots on a bootloader that is not sealed, both stores, the host reset | `MCOwnerSlots`, `OwnerSlotsProofs` |
| `TopPlane` | owner reset, slot entries and device acts on a sealed bootloader | `MCTopPlane`, `TopPlaneProofs` |
| `TrustRoot` | operator key and served id: gates, seal, rotation, host bootstrap | `MCOwnerSlots`, `IdentityProofs` |
| `CapabilityCards` | a capability request from the ask to the delivery | `MCCapabilityCards`, `StandingWork`, `ConsumerProofs` |
| `CapabilityUse` | reads with a token, single-use spends, revokes | `Services` |
| `Scopes`, `DevicePairing` | what a token permits at each verifier; the pairing relay | `Services` |
| `PhoneRows` | a phone's row and what hangs on it | `Services` |
| `MemberQuorum` | the quorum loop | `Services` |
| `Profiles`, `Vault` | profile cards and the book; both vaults | `Services`, `IdentityProofs` |
| `Services` | the seven above beside each other | `MCServices`, `ServicesProofs` |
| `UserGrants`, `CodeLimiter` | standing grants and their requests; the limiter | `StandingWork` |
| `Members`, `Clusters` | member phones; leases | `StandingWork`, `ConsumerProofs` |
| `StandingWork` | these four and `CapabilityCards` beside each other | `MCStanding`, `StandingProofs` |
| `Supervisor` | one `recto launch` | `MCSupervisor`, `SupervisorProofs` |

The `MC` modules name symmetries and values for the constants. `MCServices`, `MCStanding`, `MCOwnerSlots` and
`MCGenesisStore` put parts that share no state side by side: the first state picks a world, one part moves in it and the
others stand still, so a run explores the sum of the parts and not their product. Some of its worlds, and `MCTopPlane`,
constrain the component's next-state relation (`TwoCards`, `Approvals`, `OneChange`, `TwoChanges`, `Overlapping`, `OneByOne`, `Raced`, `ShortNext`, ...);
section 3 says what each constraint leaves out, and that the theorems are about the components without them. Operators whose comment or name calls
them a mutated form are what a bug in the operator below them would look like; `PROJECT.json` pairs each property with
one.


### ChainRules, GenesisStore

`replay_state` carries members, `device_ever` and `sealed_id` from entry to entry. `ChainRules` reads each off the
chain: an entry is in force at length n when it seated its kind and no later entry up to n moved that kind. The closed
form needs no recursion, so theorems hold for chains of any length. A hash covers an entry's seq, content and prev but
not its signatures; here it is the sequence of contents up to the entry, so equal hashes are equal contents. A signer is
a key whose signature verifies over the entry. The mark is a pair of such points: the two sides of a mark in flight, the
same point twice for a plain mark, `<<>>` for the side that is None.

An append is `ServerTakes` or `HostTakes` (read both files, replay the candidate, check the mark), then `WriteMarkAhead`,
`WriteChain` and `WriteMark`, each an atomic write that may fail (`WriteFails`) with a `Crash` anywhere. `Start` settles
the mark as the start's gate does. `RestoreChain` and `LoseMark` are damage from outside, one file per behaviour: an
older copy of the chain, a deleted mark. Left out: the operator-key and sealed-id gates of a start, which look at the
running key and are `TrustRoot`'s, and a damage of both files at once, which no mark can notice.

### OwnerSlots

A handler decides under the registry lock, so it is one step. Two write twice: the first owner's registration (register,
then close the marker) and a removal (revoke, then refuse the removed phone's approvals). There `locked` holds what is
left, and the second write may fail or never come. On the file backend the approvals are memory, so a crash takes them
with it, and nobody sees the state between the two writes. The host reset is a process of its own, one step per write: close
the marker, per owner refuse its approvals and revoke it, open the marker. On the file backend it runs only while no server does; on Postgres it runs beside one, kept
apart by the advisory lock.

A record carries its age and what is left of its approval, so `Tick` needs no clock. A registration carries a live
challenge, or nothing changes; so challenges are left out. A repeat of a pairing that stands, and a deny of a card that
is gone, change nothing and are stutters. `stood` is history: whether the approver and the occupant have been owners
ever since. Each key has one phone; a phone with another role is a `member`. Stores from before slots were exclusive,
with two holders, are outside the initial state.

### TopPlane

Here the chain is what its replay says: each slot's device, and the reset entries. An append puts every open draft off
the tip. A handler runs under the registry lock and writes several times; it is one step that may stop after any of its
writes (`reach`), which spends one of `MaxFaults`. Followed by `Stop` that is a crash; without it, a failed write. Time
is the lapse of things: a window, grace, code, challenge or card lasts until its lapse, in any order except that a
reset's grace ends after its window. The passphrase signs what the host asks of it. `Start`, `RollReset`, `RollAct` and
`Serve` are a start: the roll forward record by record, then the cards of waiting resets again.

Left out: the replace-passphrase act (seal-id and rotate-operator are `TrustRoot`'s); the nonces of an act's two signatures; the count of
wrong codes, which only ends a code (`CodeEnds` does so at any time); two rivals for one slot, which `OwnerSlots` has.
A closed record keeps its state alone, since nothing reads the rest.

### TrustRoot

An id is the set of keys it is a digest of. A start reads the vault, then the chain, then the record of unfinished acts;
each gate refuses or lets through (`server.py` GATE 5a: the vault's key is the chain's, 5b: a derived id is the
configured one, 5d: the chain's sealed id is the expected one). An act's approval appends, then switches the process,
then writes the vault, then the record: each may fail or never come, and a start finishes what is pending. `recto vault
bootstrap` reads, waits for the operator, and writes. `RepairIsEnough` says that the key the documented repair writes is
one the gates accept.

### CapabilityCards, CapabilityUse

A step is a store call, because that is what the lock covers. A poll lists the cards (`PollLists`), puts each unstamped
grant card back with its window (`PollStamps`), and serves (`PollServes`), or dies. An answer reads the card and
verifies (`AnswerReads`), takes it (`AnswerTakes`), stores the result (`AnswerStores`), or stops in between. An agent's
poll looks for a result and then takes it or looks for the card. `Restart` forgets cards and results on the file backend.
`answered` and `delivered` count, and are history; `shared` is history too: the requests whose result two polls of the agent
had got before either took it, which `_handle_capability_result` does not prevent. What a card asks for is data the properties do not tell apart: a
card's bytes differ in the exp alone.

A read verifies the token and asks the list (`Verifies`) and then, under the registry lock, spends it (`Releases`,
`Refuses`). The file backend changes the list in memory and then writes it (`AddFails` is that write failing, or the
purge's); Postgres is the list itself. `late`, `released` and `revoked` are history; a revoke counts as answered only when
its entry was written.

### Scopes, DevicePairing

A manifest gives each group its actions; claims name groups, actions, audiences, services and a pinned record; settings
are what a start is given. `RequestCard` is the whole check of a request, `ReadSecret`, `ActOnConnection`, `RelayPairing`
and `ConsumerAdmits` are the four verifiers, each with the parts of the claims it reads. A version is published once
(`ManifestsArePublishedOnce`, manifest.py's own rule). A pairing is checked against the list, then against the record,
spent in memory and file, and only then handed over.

### PhoneRows, Members

Each request is its store calls: find the row, then act. A removal revokes the row under the registry lock and refuses
the records after it. `UnpairedStaysOut` is about what a request that found the row earlier may still write. In `Members`
a code and the challenge it buys are called by the place of their mint; a registration proves first and spends, asks and
writes under the registry lock, where the bound phone's record is written before the new one's.

### Profiles, Vault, UserGrants

A profile approval takes its card, loads the book, changes it and replaces the file. A vault change loads the rows,
writes or removes the value, and saves the rows; by token, or by a signed act whose grant is spent first. The two vaults
run the same steps on files of their own. Nothing is locked in either, so any number of approvals or changes may be under
way, and the later save undoes what another saved since its load. `crossed` and `mixed` are history: the approvals and the
changes under way of which another was between its load and its save at the same time. What they report is not counted as
told (`Unlearned`, `Said`), and takes back what an earlier report said of the same device or value. `copied` is history:
the grants of which a copy came while another was between the look at the list (`is_revoked`) and the spend. A user's
grants: a handler reads grants, list and requests in separate steps.
`takenBack` is history: grants whose end was answered and is in the file.

### CodeLimiter, Clusters, MemberQuorum

The limiter's handler is under one lock, so each request is one step; codes minted elsewhere have no stamp and are judged
by the marks. A cluster's call changes memory, then writes the registry, then the projection. `MemberQuorum` examines one
signature a step and compares with the reference count of distinct members, over rosters that hold one key twice and
signatures that repeat.

### Supervisor

The launcher's thread is a program counter from `opening` to `ended`; each child has a probe, a thread of its own. A wait
may end at any time. A child answers, fails, wedges or exits when it likes. An event is tried at each webhook in order.

## 3. What each run checks

| Run | Shows | Bounds |
|---|---|---|
| `genesis` | files the store wrote answer to each other whatever failed (`OwnChainAccepted`); a chain that answers to its mark has all a finished append sealed (`NoSilentRollback`); two keys stand behind every change (`TwoKeysPerChange`); a sealed set is whole and can always be changed again (`SetsStayUsable`); the files implement `SealedLog` (`ImplementsSealedLog`) | 5 entries, 2 signers; the rules with 3 keys, 1 operator key and no faults, the files with 2 keys, 2 operator keys and every fault |
| `genesis_overlap` | **violated**: `HostCannotBreakChain` | 3 keys, 4 entries |
| `slots_file` | one key per slot; no two live requests inside the contest window; no approval revived; owners emptied by the reset alone; an entry takes exactly what was approved, and an owner replaces itself only while it is alone (`EntryAsApproved`); a second world: who serves does so with the chain's key and id, and a repaired vault starts (`TrustRootHolds`) | 3 keys, 2 records; a card lives 3 ticks, an approval and the window 6; 2 operator keys, 1 device key, 3 acts, chains of 3 links, every stop |
| `reset_faults` | one reset moves; an owner stays and a slot follows its device (`RegistryInStep`); a cancelled reset never seats and a window runs first (`SeatsInItsTime`) | 3 keys, 2 resets, 1 fault; after it one reset goes past its window |
| `plane_beside` | an owner stays, a slot follows its device, and the owners keep their cancel (`CancelStands`), with a removal and an entry beside the reset | 3 keys, 1 reset, 1 removal, 1 entry, no fault |
| `plane_forward` | what the chain took gets finished (`RolledForward`, liveness) | 3 keys, 1 reset, 1 act of either kind, 1 fault, list writes may fail |
| `plane_two_keys` | **violated**: `OneKeyPerSlot` of the top plane | 3 keys, 1 reset, 1 entry, 1 fault |
| `cards_twice` | **violated**: `AnsweredOnce`, with two polls at once | 1 request, 2 polls |
| `cards_in_postgres` | **violated**: `QueuedIsFound` | 1 request, 1 poll, 1 answer |
| `services` | a token reads once (`SpentOnce`) and revocations stand (`RevocationsStand`); uses are within the policy (`UsedAsAllowed`); a grant is handed over once (`HandedOverOnce`); the book is what was told (`BookKeepsItsWord`); an answered vault change stands and a signed act is done once (`VaultKeepsItsWord`); a removed phone stays out (`RemovedIsGone`); the quorum counts members (`QuorumCountsMembers`) | twelve worlds, below |
| `standing` | a grant taken back is not live again (`TakenBackStaysOut`), its book of requests (`RequestBookIsKept`); no code outlives its budget of guesses (`ExposureBudget`); one phone per subject (`MembersAreBoundOnce`); leases (`LeasesAreKept`); one answer, over the bytes shown, delivered once (`AnsweredAsShown`) | seven worlds, below |
| `supervised` | sources open around the run and every webhook hears (`RunIsSound`); one child at a time, terminated for its own silence only (`EachChildInItsTurn`); restarts keep to budget and backoff (`RestartsAreBounded`); a wedged child is replaced (`WedgedIsReplaced`, liveness) | 5 service configurations, 3 children, threshold 2, 2 sources, 2 webhooks |

Each module's type invariant is in the run that instantiates it, by itself or as a conjunct (`ServicesTypeOK`,
`StandingTypeOK`, `TrustRootHolds`, `RunIsSound`). Several properties are conjunctions of named parts, each with a comment
of its own at its definition.

The worlds of `services`:

- tokens in the file: 3 reads, 2 tokens, 4 ticks, writes that fail, revokes with an early exp;
- tokens in Postgres: the same, revokes with the token's exp;
- profiles founded: an empty book and three creates, two of one id and two of one name, 2 cards, 2 answers at once;
- profiles changed: a book of one profile with two devices, one added and both removed, 2 cards, 2 answers at once;
- profiles raced: the same book, both devices removed and a second profile created: 3 cards that are approved, 2 at once;
- the vault: one change at a time, of one key set by a signed act and deleted by another, and of a second key with one
  value, by token;
- the vault raced: two changes at once, one of the first key and one of the second or by a copy of the signed set, which
  carries its order out twice at most (`MaxCopies`);
- scopes: 2 manifests and none, an agent with and without a policy, one request at a time;
- pairings raced: two requests at once, the consumers known or not known together;
- pairings unsaved: one request at a time and a list that cannot be written;
- phones: one that 2 calls are about, with its session, its push token and its cards (one that asks for a window or one that
  does not, so that its answer may be taken after the phone is gone, and an owner-slot card), and one beside it;
- quorums: 3 members, two of which may hold one key, 4 signatures, one of them bad.

The worlds of `standing`:

- grants asked: two grants for one slot, one phone call at a time, the platform's two requests, no write that fails;
- grants raced: two phone calls that overlap, a grant beside them, a stop, writes that fail, no request of the platform;
- codes guessed: one code that is minted and one that is guessed, 2 wrong guesses allowed;
- members: two members of a consumer whose phones register and move at once, 3 codes, one signed move that may be repeated;
- clusters: one cluster, 2 tokens, writes that fail and restarts;
- one card: one request, two answers at once and two polls of the agent at once;
- cards: two requests, one with a window, one answer and one poll of the agent at a time.

Why the bounds are enough. Five entries hold a genesis, the device, the seal, a reset or removal and a change after it;
three keys fill the passphrase and both devices and a fourth role is a key taken twice. Every interrupted append is two
consecutive ones, which five entries leave room for on both sides of the seal; faults and a third key are needed by
different properties, so they are two worlds. Three keys are two owners and a rival, or an owner, a lost phone and a fresh
device. Two records are a rival pair. Two resets are one and the one it must hold off. One fault is enough for a handler
to stop anywhere, with the restart free. Three links are the genesis, a rotation and a seal in either order; a third act is
the one that is still open when the key moves. Three reads are two that race and one after; two answers are every pair of
threads at a card, and two approvals or two changes of a vault are every pair that loads the same file; a third approval or
change after them shows what the two left (`profiles raced` has three cards, and the changes of a vault do not run out). Two
calls are an overlap in `PhoneRows`, `Members`, `UserGrants` and `DevicePairing`, and a third would
repeat one of them. Three children are a first one, its replacement and the one that shows the count was reset. Lifetimes
are the shortest that keep the code's order between them: in `slots_file` a card lives 300 s in the code and an approval
and the window 900 s, here 3 and 6 ticks, so that an approval given on a card's last tick still
outlives the window.

What the constraints leave out. `NamedInit` and the order of the requests' and codes' names in `standing` pick one of
behaviours that differ in names alone. `ShortNext` keeps two crowds out of the top plane's runs: two resets past their
windows after a fault, which takes two abandoned resets in a row, and a reset past its window with an act and an entry open
beside it, of which every two are in a run together. `ThirdActAlone` opens a third root act only on chains without a phone's
entry, which no gate reads. `TwoCards` and `Approvals` separate two cards and all that can go
wrong from three that are approved, as do `OneChange` and `TwoChanges` for the vault: the first has every order, the second
the pairs that meet in a file or a grant. `OneByOne` and `Raced` separate the two sources of trouble in a user's grants, each with the
whole handler. `OneCard` and `BothCards` separate answers that race from a clock that runs long. The theorems of section 4
have none of these: they are about every behaviour of the components, for every value of the constants, under the
assumptions that are named there.

`CHECK_DEADLOCK FALSE` stands in the genesis configurations (a store whose files do not answer to each other refuses the
start, a chain of the maximal length is full) and in `Services.cfg` and `Standing.cfg` (a set of calls that has all been
made, a quorum that was counted, a clock at its bound). Everywhere else deadlock is checked.

**Fairness.** The supervisor's specification has weak fairness of the launcher's thread, of each probe thread, and of the
death of a child that was killed: threads of a live process are scheduled, and no process survives `SIGKILL`. Nothing is
asked of the child, which may ignore its termination for ever, nor of webhooks. All other specifications are
`Init /\ [][Next]_vars`: the code promises no agent, phone or operator that comes back. `RolledForward` carries what it
needs as its own premise: restarts go on (`[]<>` down) and get through (`[]<>` serving). `MaxFaults` bounds the stopped
handlers, so a start is not stopped for ever at one write.

## 4. What is proved

For every value of the constants, by TLAPS. Each section of a theorem module gives an inductive invariant, one lemma per
action or group of actions, and reads the properties off it; action properties are read off a step from it. The assumption
of a theorem is in brackets; section 5 has, for most of them, the behaviour that breaks the property without it.
The components of `Services` and of `StandingWork` share no state: their theorems are about each component's own
specification, one at a time, with a section each in `ServicesProofs`, `IdentityProofs`, `StandingProofs` and
`ConsumerProofs`, and `ServicesTypes` and `StandingTypes` join their types.

A few facts about numbers (a chain's first entry of a kind, powers of two, the first mark that stays) would need an
induction. They are proved from a least counterexample (`LeastExists`, out of `WFMin`).

**GenesisStoreProofs** [`~HostOverlaps`]. `TypeCorrect` (for every constant). `StoreInvariant`: `OneWriter` (the server
appends only while it serves, the host only while it does not), `AppendInv` (what an append in progress knows of the files:
its candidate is the stored chain and one entry more, the point it resolved still holds, and once it has written the mark
that mark has these two as its sides) and `PinInv` (what the last finished append sealed begins the chain and both sides
of the mark, but for the damaged file). `OwnChainAccepted` alone is not inductive: it must know which half of an append the
files are in. `OwnChainAlwaysAccepted` and `NeverRolledBackSilently` follow. `StoreImplementsSealedLog` is the refinement:
every step of the files is a step of `SealedLog` or none.

**GenesisStoreProofs, the roster**. `RosterInvariant`: at each length of every stored chain and every candidate, the entry may
follow, no key is seated under two kinds, and a sealed set has the passphrase and a device; with the host command beside
the server or not. `SealedSetAlwaysComplete`, `TwoKeysBehindEveryChange` and `SetsAlwaysUsable` [entry 0 is the
passphrase's] follow.

**OwnerSlotsProofs**. `OwnerInvariant`: types, every record inside its lifetime (`Fresh`), `LockInv` (server and host are
never in the lock at once; a host reset in progress has closed the marker; a stopped server on the file backend has no
records), and one key per slot. The lifetimes are in the invariant because the types bound a record's age only through
them. Then `SlotTypes`, `SlotsHoldOneKey`, `OwnersEmptiedByReset`, `RivalsAreRefused`, and `FileApprovalsNeverRevived`
[`~Durable`] by `StandInv`: a live record leans on an approver and an occupant that stood, or on the phone whose approvals
the lock's holder is about to refuse. `EntriesAlwaysApproved` by `EntryInv`: the phones that are asked, and the one that
approved, are among the record's approvers; and no two live records say the same key, slot, occupant and approvers. Without
the second, an approval that was used up could have a twin that is still there, and the step could not be told from one
that used none.

**TopPlaneProofs**. `PlaneInvariant` and `PlaneTypes`: a record's state says which of its fields mean something
(`GoodReset`). `OneResetAtATime` [every revocation reaches the file, or no handler stops]. `ResetsSeatInTime` (no
assumption): cancelled, aborted, early and late resets seat nobody. `OwnersKeepTheCancel` (no assumption; the property
itself speaks of behaviours without a stopped handler). `StepInvariant` and `RegistryKeepsStep` [no handler stops; or any may, while resets are the only
changes and the list's writes succeed] by `PlacesInv`: who holds a slot, where the chain's devices live, and what an
unfinished reset or act has still to do to make the two agree.

**ConsumerProofs, capability cards**. `CardsInvariant` and `CardsTypes`: every card, queued or only listed by a poll, is in time.
`ShownBytesStand` [`PollsApart`: no card asks for a window, or polls come one after the other] by `WindowInv`: a grant card
without a window was shown to nobody, and a listed card that has one and is still queued is the queued one. `OneAnswer`
[`PollsApart`] by `AnswerInv`: the take is the exclusive right to answer, and nothing puts a taken card back. `OneDelivery`
(no assumption: any polls of the phone and of the agent) by `DeliverInv`: where one poll alone has got a result, a result
that is in the store was handed to nobody. `AnswersMatchCards` [`PollsApart`] joins the three.

**IdentityProofs, operator key and served id** (`RootAssumption`, the module's own: an operator key is nobody's phone key). `TrustRootAlwaysHolds`
by `RootInvariant`: what an open act's draft may say of the chain it was written against, that every seal of the chain
recomputes and no rotation is older than the first of them, and that a start that derived an id derived it from its own
key. A seal that lands after a restart carries the earlier start's key; that it is this start's too follows from the two
ids being equal, which is where the assumption is used.

**ServicesProofs, tokens**. `UseInvariant`, `UseTypes`. `TokensSpentOnce` [`~Stalls`, and on Postgres `EarlyExp = 0`] by
`SpentInv`: a spent token is held by the list, and on the file backend by the file, until its exp, and no read outlasts
that exp. It needs no write to succeed: a spend that could not be written is refused. `EntriesStandUntilExp`,
`RevokesOutliveRestarts` and their conjunction `RevocationsAlwaysStand` [on Postgres `EarlyExp = 0`] by `ListInv` and
`RevokedInv`.

**IdentityProofs, profiles** [`SingleBooks`: no book the bootloader begins with names a profile twice].
`BookAlwaysKeepsItsWord` by `ProfilesInvariant`, for any number of approvals at once: whatever book an approval has loaded
names each profile once and has the book's own revoked profiles, since the host marks one only between approvals; every
answer that was told is a fact of the book and of each book that is loaded; and an approval that no other crossed has loaded
what the book still is, and no other has one loaded.

**IdentityProofs, vaults** (no assumption). `VaultAlwaysKeepsItsWord` by `VaultInvariant`, for any number of changes at once:
a change that is alone with the file has read what the file still says, and of two that are not, each is in `mixed` (`Alone`,
`ChangeOK`); what was answered is said by the file and by the rows of every change that has loaded them (`Tells`,
`AnswerOK`), and of the value a change has overwritten nothing is promised; an admitted act is the signed one (`SignedFor`,
`ActedOK`); and a grant that came in one copy is unspent while it is checked, in the list's file from then on, carried by one
request, and done with once it has acted (`GrantOK`).

**ServicesProofs, quorums** (no assumption on the roster). `QuorumsCountMembers` by `QuorumInvariant`: every signature is
counted or unmatched, and where every member has a key of its own the counted are exactly the members whose keys signed.

**ServicesProofs, phones**. `RowsInvariant` with `CallsInv` (what a call that found a row may still write) and `LockInv`
(what a removal in progress has done). `RemovedStaysRemoved`, `RemovalTakesAll`, `RemovedAnswersNothing`,
`EntryCardsStaySigned`, and `RemovalIsFinal`, their conjunction.

**ServicesProofs, types** [a bootloader has a phone]. `ServicesTypes`, from one theorem per component. These are invariants
of their own, not parts of the ones above, and hold also where a list cannot be written. A profile's path is one more than the largest in the
book, which exists because a book is finite at the start (`FirstBooks`) and grows by one profile at a time; that a result is
stored only for a card that is off the queue needs that an answer takes its card first (`Working`).

**ServicesProofs, scopes and pairing**. `ScopesInvariant`: a card's claims were within the policy under the manifest the
request was judged by, and a version means one manifest for good. `AlwaysWithinPolicy`, `AlwaysWhereAllowed`,
`UsesAreAllowed`. `PairInvariant` and `GrantsAreHandedOverOnce` [the list's writes succeed].

**StandingProofs, grants** [`PatientPhone`: the phone sends one grant for a slot at a time]. `TakenBackAlwaysStaysOut` by
`GrantInvariant`: what was taken back is on the list and in its file until it lapses, and a handler under way has listed
what it is about to call ended (`SubmitOK`), through failed writes and restarts. `RequestBookIsAlwaysKept` (no assumption)
by `BookInvariant`. `GrantsTypes` (no assumption: an impatient phone too): a slot has one stored grant, as a put takes the
place of what its slot held, and the list names grants and stop-all acts.

**StandingProofs, the limiter**. `ExposureAlwaysWithinBudget` by `LimiterInvariant`. `ExposureBudget` says nothing of what
a redemption will count from; the invariant does: every live code that sat through a guess has a stamp, or a mark that is
kept for as long as the code lives, whose total leaves room for all of them, and the marks are in order, so the oldest
counts no fewer. The mark is there because the first guess after a mint either leaves one or finds one less than an
interval old, and a mark outlasts the longest life by an interval.

`LimiterTypes`: the limiter counts a client's failures one by one as they come and age, and its count is always the number
of those in the window.

**StandingProofs, types** (no assumption). `StandingTypes` joins these with the types of members, clusters and capability
cards.

**ConsumerProofs, members**. `MembersAreAlwaysBoundOnce` by `MemberInvariant`: a code is spent before it registers, and a
move that comes with a registration was signed.

**ConsumerProofs, clusters**. `LeasesAreAlwaysKept` by `ClusterInvariant`: what a told lease, its record and its line in
the file say of one token, that no two clusters go by one token, and that no token is newer than the last one drawn.

**SupervisorProofs**. `RunIsAlwaysSound`, `EachChildAlwaysInItsTurn` and `RestartsAreAlwaysBounded` by `RunInvariant`, for
every configuration: where the launcher is and which child can be alive then (`ChildInv`), which failures a probe's
thread has counted and of which child (`ProbeInv`), how many starts the budget has left and how far the backoff has grown
(`CountInv`, `DelayInv`), which sources are open (`SourceInv`) and which webhooks have been tried (`SinkInv`).

**Only model-checked.** The liveness properties, and the findings.

**Out of the prover's reach.** `RolledForward`, `WedgedIsReplaced` and every other liveness property; facts about
`ENABLED`; induction over data, which is why `ChainRules` is written in closed form. No module uses a `RECURSIVE` operator.

## 5. Where the code and its words part

Four runs expect a violation; `PROJECT.json` quotes the line each one refutes.

- `genesis_overlap`: `vault enrol-member` "CANNOT PRODUCE A BROKEN CHAIN". Between its read and its write a serving
  bootloader seals the id; the command writes its unsealed candidate over it, and the store refuses the chain from then on.
- `plane_two_keys`: while a reset is committed, "no phone enters that slot". A reset's entry is appended, its finish stops
  after the fresh device is registered, its grace passes, and a slot entry lands in the same slot; finishing the reset
  leaves two owner phones there.
- `cards_twice`: "only an answer that holds up takes it". Two polls list a card; one stamps and serves it, it is approved
  and taken, and the other poll puts it back with another window, to be approved a second time.
- `cards_in_postgres`: the stores are called interchangeable. The answer's handler looks a card up by `peek_pending`, which
  `PostgresStateStore` does not define: there a card that is on the queue is answered "not found", so no capability or
  profile card can be approved or denied.

The models show more of the kind. Each of these is reached by the constants given, with the property as the only one; it
is also what the assumptions of the theorems exclude.

| Configuration | Change | Property that fails | What happens |
|---|---|---|---|
| `Genesis.cfg` | `GenesisKinds = {"recovery-phone"}`, `OtherKinds = {"vault-member"}` | `SetsStayUsable` | a chain begun with a device removes it before the passphrase enters; then no signature changes the set (`genesis_chain.py:421`) |
| `SlotsFile.cfg` | `Durable = TRUE`, lifetimes 2, 3, 3 | `ApprovalsNeverRevived` | a crash between a revoke and the refusals after it; the removed phone pairs again and its old approval is good (`server.py:6145`) |
| `PlaneForward.cfg` | `Resets = {}` | `RegistryInStep` | a removal's registry work stops, its approver revokes itself, the next start removes the other phone (`server.py:8983`) |
| `ResetFaults.cfg` | `ListWrites = FALSE` | `OneResetMoves` | a cancel's list write fails, a second reset starts, a restart forgets the cancel (`state.py:2952`) |
| `ResetFaults.cfg` | `MaxEntries = 1` | `RegistryInStep` | a slot entry is on the chain and its landing stops; no start finishes it (`server.py:1925`) |
| `CardsTwice.cfg` | none | `ShownIsQueued` | two polls give one card two windows (`server.py:2614`) |
| `Services.cfg` | `Stalls = TRUE` | `SpentOnce` | a read verified before the token's exp spends it after the list purged the first spend (`state.py:2023`) |
| `Services.cfg` | `EarlyExp <- 1` in `MCServices!OnPostgres` | `RevocationsStand` | a second revoke with an earlier exp replaces the entry (`state_postgres.py:742`) |
| `Services.cfg` | `SpendsSaved = FALSE` | `HandedOverOnce` | of two requests that overlap one spends in memory only; a restart forgets it |
| `Standing.cfg` | `PatientPhone = FALSE` | `TakenBackStaysOut` | two admissions for one slot overlap, and the displaced grant is revoked by neither (`server.py:7775`) |

Three properties let requests overlap and say what holds of the others; what they except is this, all of it in the runs:

- Cards. Two polls of the agent look for a result before either takes it, and both are handed it (`server.py:6261`; the
  lock covers each call, not the two). `DeliveredOnce` excepts the requests in `shared`.
- Profiles. Two approvals load the same book, and the later write loses the earlier one's change, after both were answered
  as approved (`server.py:3640` holds no lock from the load to the save). Two removals can so be reported as done and
  one device come back. `ToldIsStored` and `LastDeviceStays` except the reports in `crossed`, and speak of the book an
  approval has loaded.
- Vault. Two changes load the same rows and the later save loses the earlier row, or brings one back that was deleted
  (`user_vault/manage.py:114`, `connections/manage.py:130`); a value is then in the backend without its row, or a row without
  its value. `AnsweredSetStands`
  and `AnsweredDeleteStands` except the answers of the changes in `mixed`.
- Signed acts. `is_revoked` (`server.py:7456`) and `add_revocation` (`server.py:7460`) are two calls under no common lock, so two copies
  of one signed act that arrive together both find the grant unspent, both spend it (the second adds nothing to the list) and
  both act. An act signed once is so carried out twice: a set puts its value back over a later change. `GrantActsOnce` excepts
  the grants in `copied`. And a copy whose spend cannot be written (`state.py:2952`) has put the entry in memory, so the other
  copy acts on an entry that the next start does not read.

And these are orders of the models' steps, or facts met in the code, that no property states:

- Top plane. A removal act opened before a reset takes an owner's phone, and its cancel, while the reset waits
  (`server.py:8983`; `server.py:6099` says every owner phone keeps its cancel). A phone leaves between the opening and the
  approval of its add act and is sealed as a device (`server.py:8230`). A slot entry reaches the chain and not the
  registry (`server.py:1925`).
- Trust root. A start without a key, configured with the id of an earlier one, may approve that start's pending seal, and
  the next start is refused until the host repairs the vault (`server.py:8211`). A refusal of gate 5d leaves the socket open.
- Slots. A phone that asks again while its card is queued does not move the contest window (`server.py:1990`;
  `tests/test_bootloader_owner_slots.py:445` says the last ask counts).
- Cards. An agent is told its request is lost while its result waits (`server.py:6216`). A card is taken and its result
  never stored, by a crash or a failed write (`server.py:2992`).
- Tokens. A revoke whose write failed is answered 200 when it is repeated, without a write, and a restart forgets it
  (`server.py:6743`); the history of `RevocationsStand` counts a revoke only once its entry is in the file.
- Quorum. `quorum.py:129` calls duplicate signatures harmless; where one key stands under two identities, the same signature
  given twice counts both. `verify_tier3` is called by nothing.
- Profiles. `profile_add_device` sets the quorum back to 1. A (kind, name) that was revoked and is created again is answered
  "approved" with the revoked profile. A created profile has no device, where `types.py` says it is filled in. A command's
  look between the result and the queue can be answered 404. `cli.py:3044` and `cli.py:3360` say "verify" and print.
- Vault. A crash between a value and its row leaves a value no delete removes (`user_vault/manage.py:166`). A damaged sidecar
  is read as an empty one.
- Grants. A replaced grant's open request for its end is resolved by nobody. A crash between the end of the old grant and
  the write of the new one leaves the slot empty. A binding may move between its check and the grant's write.
- Members. A registration whose second write fails leaves the subject without a phone. A code is spent and its challenge lost
  by a crash. On Postgres a code's uniqueness is checked and the code inserted in two statements.
- Pairing. A grant whose consumer is unknown or unreachable is spent and lost. Unpairing spends nothing.
- Scopes. `pair relay` and the connection act read `allow_actions` alone. The claims of an agent without a policy are not
  compared with a version (`server.py:4423`). A token with a `parent_profile` is refused by every caller, since none passes the
  directory that would check it.
- Phones. A session or card written after its phone was found belongs to a phone that is gone; a removal whose save failed
  is undone for the session by the next start (`state.py:3272`). A session issued again starts its uses at zero.
- Clusters. The projection calls a lapsed lease active until the next write (`clusters.py:83`), and a crash between the two
  files leaves it stale.
- Supervisor. A child whose job could not be limited is left running (`launcher.py:318`). A failure of health may be
  announced for a child that left by itself. An unhealthy child that leaves with 0 is final under `on-failure`
  (`healthz.py:44`).

## 6. What is not modelled, and why

Cryptography is abstract throughout: a signature is whether a key signed, a hash is what it covers. HTTP, JSON, logging
and the admin page change no state that a property speaks of. Inside the modelled components, section 2 says at each
module what it leaves out; the table at the end of section 1 has the components that are not modelled, with the reason.
Postgres is modelled where its transactions make a difference (`OwnerSlots`, `CapabilityCards`, `CapabilityUse`); the
genesis chain and the top plane exist on the file backend only. TLC runs that store in `services` and in `cards_in_postgres`;
for the slots the theorems cover both stores.

The hazard at `server.py:8983` has no property of its own: `CancelStands` allows a removal that was opened before the
reset to take its phone's cancel, since the code does.

## 7. Plan

Done: the modules of section 2, their runs, and the proofs of section 4. What is left, in order of weight:

1. `TopPlane` composed with `ChainRules`, its `device` shown to be the devices the chain seats; the replace-passphrase act.
2. An abstract slot registry (a slot has a key; a key enters by genesis, by approval or after a reset) that `OwnerSlots` and
   `TopPlane` implement, first as a `PROPERTY`, then as a theorem. An abstract request that `CapabilityCards` implements
   under the assumptions of its theorems.
3. The refinements of 2 as theorems; `PatientPhone` and `PollsApart` replaced by a history of what overlapped, as `crossed` and `mixed` replace it for
   profiles and vaults.
4. The phone's own services: unpair, pins, stale envelopes, push tokens.
