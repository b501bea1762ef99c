----------------------------- MODULE GenesisStore -----------------------------
(***************************************************************************)
(* The file store of the genesis chain (state.py, StateStore): two files,  *)
(* genesis_members.json (the chain) and genesis_seal_mark.json (the seal   *)
(* mark), and the processes that append to them.                           *)
(*                                                                         *)
(* An append reads both files, replays the candidate, and then makes up to *)
(* three separate atomic writes: the mark in flight, the chain, the plain  *)
(* mark.  Any of them can fail, and the process can die between two.  The  *)
(* serving bootloader settles a mark left in flight when it starts and     *)
(* refuses to start on a chain that does not answer to its mark.           *)
(*                                                                         *)
(* Two kinds of process append.  The server appends top-plane acts, slot   *)
(* entries and resets, one at a time under its registry lock.  The host    *)
(* command `recto vault enrol-member` appends members of its own process,  *)
(* and takes no lock: HostOverlaps says whether it may run while a server  *)
(* serves (the code lets it) or only while none does (an operator's care). *)
(***************************************************************************)
EXTENDS ChainRules

CONSTANTS
    Keys,           \* the keys members sign with
    OperatorKeys,   \* the operator keys a rotation can name
    SealedId,       \* the id this bootloader derives and can seal
    OtherKinds,     \* member kinds that are neither the passphrase nor a device
    GenesisKinds,   \* the kinds entry 0 may seat
    Intents,        \* owner-reset intents
    HostOverlaps,   \* the host command may run while the server serves
    MaxSigners,     \* bound on the signatures an entry is tried with
    Faults,         \* which of crash, write, restore, lose a run explores
    MaxLen          \* bound on the chain's length

VARIABLES
    chain,    \* genesis_members.json: the stored chain
    mark,     \* genesis_seal_mark.json
    up,       \* a server serves
    pc,       \* how far each process is into an append
    job,      \* what each process read and is about to write
    pinned,   \* history: the chain as of the last plain mark an append wrote
    damage    \* history: which file was damaged behind the store's back

vars == <<chain, mark, up, pc, job, pinned, damage>>

Processes == {"server", "host"}
Kinds == {PASSPHRASE_KIND} \union DEVICE_KINDS \union OtherKinds

ASSUME MaxLenAssumption == MaxLen \in Nat

Ops == {"add", "remove", "seal-id", "rotate-operator", "reset"}
Values == Keys \union OperatorKeys \union {SealedId}
Contents == [op : Ops, kind : Kinds \union {"operator", "bootloader-id"}, key : Values,
             intent : Intents \union {NoIntent}]
Points == {p \in Seq(Contents) : Len(p) <= MaxLen}
Entries == [prev : Points, op : Ops, kind : Kinds \union {"operator", "bootloader-id"},
            key : Values, intent : Intents \union {NoIntent}, signers : SUBSET Keys,
            fresh : BOOLEAN]
Jobs == [cand : Seq(Entries), prev : Points]
NoJob == [cand |-> <<>>, prev |-> <<>>]

\* The files and the work in progress have the shapes the code gives them: in
\* particular a mark and an entry's prev hold what entries say, never who
\* signed them, and a mark never nests inside a mark.
TypeOK ==
    /\ chain \in Seq(Entries)
    /\ Len(chain) <= MaxLen
    /\ mark \in [prev : Points, next : Points]
    /\ up \in BOOLEAN
    /\ pc \in [Processes -> {"idle", "ready", "marked", "written"}]
    /\ job \in [Processes -> Jobs]
    /\ \A p \in Processes : Len(job[p].cand) <= MaxLen
    /\ pinned \in Points
    /\ damage \in {"none", "chain", "mark"}

Init ==
    /\ chain = <<>>
    /\ mark = NoMark
    /\ up = FALSE
    /\ pc = [p \in Processes |-> "idle"]
    /\ job = [p \in Processes |-> NoJob]
    /\ pinned = <<>>
    /\ damage = "none"

Signings == {s \in SUBSET Keys : Cardinality(s) <= MaxSigners}

(***************************************************************************)
(* Entries the processes may try.                                          *)
(***************************************************************************)
Entry(op, kind, key, intent, signers, fresh) ==
    [prev |-> HashOf(chain, Len(chain)), op |-> op, kind |-> kind, key |-> key,
     intent |-> intent, signers |-> signers, fresh |-> fresh]

\* require_sealed: every act the server appends needs a sealed passphrase and a
\* sealed device; the seal itself an unsealed id, everything else a sealed one.
RequireSealed(op) ==
    /\ HasPassphrase(chain, Len(chain))
    /\ HasDevice(chain, Len(chain))
    /\ Sealed(chain, Len(chain)) <=> op # "seal-id"

(***************************************************************************)
(* append_genesis_chain_entry, one action per file access.                 *)
(***************************************************************************)

\* mutated form: the candidate replays, the mark is not looked at
TakeUnmarked(p, e) ==
    /\ pc[p] = "idle"
    /\ Len(chain) < MaxLen
    /\ Replays(Append(chain, e))
    /\ pc' = [pc EXCEPT ![p] = "ready"]
    /\ job' = [job EXCEPT ![p] = [cand |-> Append(chain, e), prev |-> ResolveSealMark(chain, mark)]]
    /\ UNCHANGED <<chain, mark, up, pinned, damage>>

\* Read both files and prove the result: the whole candidate replays, and the
\* stored chain answers to the recorded mark.
Take(p, e) ==
    /\ pc[p] = "idle"
    /\ Len(chain) < MaxLen
    /\ Replays(Append(chain, e))
    /\ CheckSealMark(chain, mark)
    /\ pc' = [pc EXCEPT ![p] = "ready"]
    /\ job' = [job EXCEPT ![p] = [cand |-> Append(chain, e), prev |-> ResolveSealMark(chain, mark)]]
    /\ UNCHANGED <<chain, mark, up, pinned, damage>>

\* One append at a time, in a chain within its bound.
CanTake(p) == pc[p] = "idle" /\ Len(chain) < MaxLen

\* What the server appends: top-plane acts, slot entries and resets.
ServerAppends(e) == up /\ RequireSealed(e.op) /\ Take("server", e)

ServerTakes ==
    CanTake("server") /\ \E s \in Signings :
        \/ \E k \in DEVICE_KINDS \union {PASSPHRASE_KIND}, v \in Keys :
              ServerAppends(Entry("add", k, v, NoIntent, s, FALSE))
        \/ \E k \in DEVICE_KINDS, v \in Keys :
              ServerAppends(Entry("remove", k, v, NoIntent, s, FALSE))
        \/ \E v \in OperatorKeys :
              ServerAppends(Entry("rotate-operator", "operator", v, NoIntent, s, FALSE))
        \/ ServerAppends(Entry("seal-id", "bootloader-id", SealedId, NoIntent, s, FALSE))
        \/ \E k \in DEVICE_KINDS, v \in Keys, i \in Intents, f \in BOOLEAN :
              ServerAppends(Entry("reset", k, v, i, s, f))

\* What the host command appends: members only.  It signs the raw form, which
\* verifies on an unsealed chain and never after the seal; entry 0 is unsigned.
HostAppends(e) ==
    /\ HostOverlaps \/ ~up
    /\ chain = <<>> => e.kind \in GenesisKinds
    /\ Sealed(chain, Len(chain)) => e.signers = {}
    /\ Take("host", e)

HostTakes ==
    CanTake("host") /\ \E s \in Signings, o \in {"add", "remove"}, k \in Kinds, v \in Keys :
        HostAppends(Entry(o, k, v, NoIntent, s, FALSE))

\* mutated form: no mark goes ahead of the chain
WriteNoMarkAhead(p) ==
    /\ pc[p] = "ready"
    /\ Sealed(job[p].cand, Len(job[p].cand))
    /\ mark' = mark
    /\ pc' = [pc EXCEPT ![p] = "marked"]
    /\ UNCHANGED <<chain, up, job, pinned, damage>>

\* The mark goes ahead of the chain, in flight, when the result is sealed.
WriteMarkAhead(p) ==
    /\ pc[p] = "ready"
    /\ Sealed(job[p].cand, Len(job[p].cand))
    /\ mark' = [prev |-> job[p].prev, next |-> SealMarkOf(job[p].cand)]
    /\ pc' = [pc EXCEPT ![p] = "marked"]
    /\ UNCHANGED <<chain, up, job, pinned, damage>>

\* An unsealed result has no mark, so its append ends with the chain's write.
WriteChain(p) ==
    LET sealed == Sealed(job[p].cand, Len(job[p].cand))
    IN /\ pc[p] = IF sealed THEN "marked" ELSE "ready"
       /\ chain' = job[p].cand
       /\ pc' = [pc EXCEPT ![p] = IF sealed THEN "written" ELSE "idle"]
       /\ job' = IF sealed THEN job ELSE [job EXCEPT ![p] = NoJob]
       /\ UNCHANGED <<mark, up, pinned, damage>>

WriteMark(p) ==
    /\ pc[p] = "written"
    /\ mark' = PlainMark(SealMarkOf(job[p].cand))
    /\ pinned' = SealMarkOf(job[p].cand)
    /\ pc' = [pc EXCEPT ![p] = "idle"]
    /\ job' = [job EXCEPT ![p] = NoJob]
    /\ UNCHANGED <<chain, up, damage>>

\* A write fails: the first two raise and leave what was written so far, the
\* last is logged.  The host command dying in between leaves the same files.
WriteFails(p) ==
    /\ "write" \in Faults
    /\ pc[p] # "idle"
    /\ pc' = [pc EXCEPT ![p] = "idle"]
    /\ job' = [job EXCEPT ![p] = NoJob]
    /\ UNCHANGED <<chain, mark, up, pinned, damage>>

(***************************************************************************)
(* Stop, start, and what can happen to the files in between.               *)
(***************************************************************************)
Crash ==
    /\ "crash" \in Faults
    /\ up
    /\ up' = FALSE
    /\ pc' = [pc EXCEPT !["server"] = "idle"]
    /\ job' = [job EXCEPT !["server"] = NoJob]
    /\ UNCHANGED <<chain, mark, pinned, damage>>

\* GATE 5d: settle the mark, then refuse unless the chain answers to it.  A
\* refused start changes nothing.
Start ==
    /\ ~up
    /\ HostOverlaps \/ pc["host"] = "idle"
    /\ Replays(chain)
    /\ CheckSealMark(chain, mark)
    /\ mark' = PlainMark(ResolveSealMark(chain, mark))
    /\ up' = TRUE
    /\ UNCHANGED <<chain, pc, job, pinned, damage>>

Quiet == ~up /\ \A p \in Processes : pc[p] = "idle"

\* The chain file is replaced by an older copy of itself.
RestoreChain ==
    /\ "restore" \in Faults
    /\ Quiet
    /\ damage \in {"none", "chain"}
    /\ \E n \in 0..(Len(chain) - 1) : chain' = SubSeq(chain, 1, n)
    /\ damage' = "chain"
    /\ UNCHANGED <<mark, up, pc, job, pinned>>

\* The mark file is deleted.
LoseMark ==
    /\ "lose" \in Faults
    /\ Quiet
    /\ damage = "none"
    /\ mark # NoMark
    /\ mark' = NoMark
    /\ damage' = "mark"
    /\ UNCHANGED <<chain, up, pc, job, pinned>>

Append_(p) == WriteMarkAhead(p) \/ WriteChain(p) \/ WriteMark(p) \/ WriteFails(p)

Next ==
    \/ ServerTakes
    \/ HostTakes
    \/ \E p \in Processes : Append_(p)
    \/ Crash
    \/ Start
    \/ RestoreChain
    \/ LoseMark

Spec == Init /\ [][Next]_vars

(***************************************************************************)
(* Properties.                                                             *)
(***************************************************************************)

\* The store never refuses a chain it wrote itself: whatever write failed and
\* wherever a process died, undamaged files still answer to each other, so the
\* next append and the next start go through.
OwnChainAccepted == damage = "none" => CheckSealMark(chain, mark)

\* A chain the store answers with holds every sealed entry whose append ended
\* with its mark written, through crashes, failed writes and restarts, and with
\* either one of the two files restored or deleted behind its back.
NoSilentRollback ==
    CheckSealMark(chain, mark) =>
        Len(pinned) <= Len(chain) /\ HashOf(chain, Len(pinned)) = pinned

\* From the seal on, and through every later replacement, removal and reset,
\* the set holds the passphrase and at least one owner device.
SealedSetComplete ==
    \A n \in 1..Len(chain) :
        Sealed(chain, n) => HasPassphrase(chain, n) /\ HasDevice(chain, n)

\* Two different keys stand behind every roster change of a set that has the
\* passphrase and ever sealed a device: no single key ever moves it, whatever
\* kinds that key was seated under before.
TwoKeysPerChange ==
    \A n \in 1..(Len(chain) - 1) :
        HasPassphrase(chain, n) /\ DeviceEver(chain, n) =>
            \E i \in Seated(chain, n) :
                /\ chain[i].key \in chain[n + 1].signers
                /\ \/ \E j \in Seated(chain, n) :
                        chain[j].key \in chain[n + 1].signers \ {chain[i].key}
                   \/ /\ chain[n + 1].fresh
                      /\ chain[n + 1].key # chain[i].key

\* The set can always authorise another change: with every member's signature,
\* the next entry meets the threshold.
Manageable ==
    chain # <<>> =>
        RequireThreshold(chain, Len(chain),
                         [signers |-> {chain[i].key : i \in Seated(chain, Len(chain))}])

\* A sealed set is whole and never locks itself out: it keeps both legs of the
\* top plane's rule, and every set can still be changed.
SetsStayUsable == SealedSetComplete /\ Manageable

\* "THIS COMMAND CANNOT PRODUCE A BROKEN CHAIN" (cli.py, _cmd_vault_enrol_member):
\* whatever the host command writes, the store accepts the chain it leaves.
HostCannotBreakChain ==
    [][WriteChain("host") => CheckSealMark(chain', mark')]_vars

\* The two files, their three writes and the start together keep the promise of
\* one log: it grows by whole entries, an append acknowledges all of it, and the
\* server opens, and the store appends, only on what was acknowledged.
Log == INSTANCE SealedLog WITH log <- HashOf(chain, Len(chain)), acked <- pinned, serving <- up
ImplementsSealedLog == Log!LogSpec
===============================================================================
