-------------------------------- MODULE Vault --------------------------------
(***************************************************************************)
(* The connections vault and the user vault: secret values in a backend,   *)
(* and beside it one JSON file of rows that say what is there              *)
(* (connections/manage.py, types.py, act_record.py, act_set.py;            *)
(* user_vault/manage.py, types.py; server.py: _handle_connections_*,       *)
(* _handle_user_vault_list, _release, _set, _delete).                      *)
(*                                                                         *)
(* A change loads the whole file, changes the backend, and replaces the    *)
(* file; nothing is locked, and the process may stop or a write fail       *)
(* between any two of these.  The two vaults run the same code on a file   *)
(* of their own.  In the connections vault a change also comes as an act   *)
(* the operator signs on the phone, with a grant that is spent first.      *)
(***************************************************************************)
EXTENDS Naturals, Sequences, FiniteSets

CONSTANTS
    VaultKeys,     \* (service, key), or (platform, subject, key)
    VaultValues,   \* secret values
    NoValue,
    VaultGrants,   \* grants the operator signed
    SignedOrder,   \* what each grant was signed for
    VaultHandlers  \* requests that can be under way at once

VARIABLES
    rows,       \* the file: which keys have a row, and whether it says has_secret
    secrets,    \* the backend
    handlers,   \* the changes under way
    spent,      \* grants in the revocation list
    spentFile,  \* and in its file
    acted,      \* history: the orders each grant carried out
    answered,   \* history: what the last answer about each key said
    mixed,      \* history: the changes under way that met another between load and save
    copied      \* history: the grants that came a second time while the first was being checked

vaultHistory == <<acted, answered, mixed, copied>>
vaultVars == <<rows, secrets, handlers, spent, spentFile, vaultHistory>>

Order == [op : {"set"}, key : VaultKeys, value : VaultValues]
            \union [op : {"edit", "delete"}, key : VaultKeys, value : {NoValue}]

ASSUME VaultAssumption ==
    /\ NoValue \notin VaultValues
    /\ SignedOrder \in [VaultGrants -> Order]

NoRow == [row |-> FALSE, has |-> FALSE]
Row(has) == [row |-> TRUE, has |-> has]
Rows == [VaultKeys -> {NoRow, Row(FALSE), Row(TRUE)}]
\* ConnectionStore.upsert, or remove with NoRow.
WithRow(seen, key, row) == [seen EXCEPT ![key] = row]

NoGrant == [by |-> "token"]
By(g) == [by |-> "act", grant |-> g]
Authority == {NoGrant} \union {By(g) : g \in VaultGrants}
VaultIdle == [pc |-> "idle"]

Unknown == [said |-> "unknown"]
SaidSet(v) == [said |-> "set", value |-> v]
SaidDeleted == [said |-> "deleted"]
SaidNothing == [said |-> "nothing"]

\* Where a change may be: off, with its grant checked, admitted, or with the rows it read.
ChangesOf ==
    {VaultIdle} \union [pc : {"checked"}, grant : VaultGrants, order : Order]
        \union [pc : {"admitted"}, order : Order, auth : Authority]
        \union [pc : {"loaded", "written"}, order : Order, auth : Authority, seen : Rows]

VaultTypeOK ==
    /\ rows \in Rows
    /\ secrets \in [VaultKeys -> VaultValues \union {NoValue}]
    /\ handlers \in [VaultHandlers -> ChangesOf]
    /\ spentFile \subseteq spent /\ spent \subseteq VaultGrants
    /\ acted \in [VaultGrants -> Seq(Order)]
    /\ answered \in [VaultKeys -> {Unknown, SaidDeleted, SaidNothing} \union {SaidSet(v) : v \in VaultValues}]
    /\ mixed \subseteq VaultHandlers
    /\ copied \subseteq VaultGrants

VaultInit ==
    /\ rows = [k \in VaultKeys |-> NoRow]
    /\ secrets = [k \in VaultKeys |-> NoValue]
    /\ handlers = [h \in VaultHandlers |-> VaultIdle]
    /\ spent = {} /\ spentFile = {}
    /\ acted = [g \in VaultGrants |-> <<>>]
    /\ answered = [k \in VaultKeys |-> Unknown]
    /\ mixed = {}
    /\ copied = {}

Free(h) == handlers[h] = VaultIdle
Goes(h, to) == handlers' = [handlers EXCEPT ![h] = to]
Ends(h) == Goes(h, VaultIdle)

(***************************************************************************)
(* A change by token: the operator's to a connection, the platform's agent *)
(* to its user's entry.  ConnectionStore.load comes first.                 *)
(***************************************************************************)
Asked(h, op) ==
    /\ Free(h)
    /\ \E order \in Order : order.op = op /\ Goes(h, [pc |-> "admitted", order |-> order, auth |-> NoGrant])
    /\ UNCHANGED <<rows, secrets, spent, spentFile, vaultHistory>>

SetAsked(h) == Asked(h, "set")
\* Metadata, or the enabled flag: set_connection with no secret, also for a key without a row.
EditAsked(h) == Asked(h, "edit")
DeleteAsked(h) == Asked(h, "delete")

(***************************************************************************)
(* A signed act: _handle_connections_act.                                  *)
(***************************************************************************)
Checked(h, g) == handlers[h].pc = "checked" /\ handlers[h].grant = g

\* The grant is the operator's and not spent; the record beside it is what the requester sends.
ActArrives(h, g, order) ==
    /\ Free(h)
    /\ g \notin spent
    /\ Goes(h, [pc |-> "checked", grant |-> g, order |-> order])
    /\ copied' = IF \E i \in VaultHandlers : Checked(i, g) THEN copied \union {g} ELSE copied
    /\ UNCHANGED <<rows, secrets, spent, spentFile, acted, answered, mixed>>

\* verify_act_grant and check_act_value: the record and the value are the signed ones.
Matches(g, order) == order = SignedOrder[g]

\* The grant is spent whatever comes of it; an act but a set needs its row.
ActSpendsNothing(h) ==
    /\ handlers[h].pc = "checked"
    /\ Goes(h, [pc |-> "admitted", order |-> handlers[h].order, auth |-> By(handlers[h].grant)])
    /\ UNCHANGED <<rows, secrets, spent, spentFile, vaultHistory>>
ActSpends(h) ==
    /\ handlers[h].pc = "checked"
    /\ LET g == handlers[h].grant  order == handlers[h].order IN
       /\ spent' = spent \union {g}
       /\ spentFile' = IF g \in spent THEN spentFile ELSE spent'
       /\ IF Matches(g, order) /\ (order.op = "set" \/ rows[order.key].row)
          THEN Goes(h, [pc |-> "admitted", order |-> order, auth |-> By(g)])
          ELSE Ends(h)
    /\ UNCHANGED <<rows, secrets, vaultHistory>>

\* The list's file could not be written: the entry stays in memory, the act is not done.
ActCannotSpend(h) ==
    /\ handlers[h].pc = "checked"
    /\ handlers[h].grant \notin spent
    /\ spent' = spent \union {handlers[h].grant}
    /\ Ends(h)
    /\ UNCHANGED <<rows, secrets, spentFile, vaultHistory>>

(***************************************************************************)
(* set_connection, delete_connection and their user-vault sisters.         *)
(***************************************************************************)
InHand(i) == handlers[i].pc \in {"loaded", "written"}

\* Two changes that have both loaded the file are mixed: the second save undoes the first.
Loads(h) ==
    /\ handlers[h].pc = "admitted"
    /\ Goes(h, [pc |-> "loaded", order |-> handlers[h].order, auth |-> handlers[h].auth, seen |-> rows])
    /\ LET others == {i \in VaultHandlers : InHand(i)}
       IN  mixed' = IF others = {} THEN mixed ELSE mixed \union others \union {h}
    /\ UNCHANGED <<rows, secrets, spent, spentFile, acted, answered, copied>>

\* WritableSecretSource.write, or delete with NoValue.
Writes(key, value) == secrets' = [secrets EXCEPT ![key] = value]

\* A change of the backend makes what was answered about the key uncertain until it ends.
Backend(h, value) ==
    LET order == handlers[h].order IN
    /\ Writes(order.key, value)
    /\ acted' = IF handlers[h].auth = NoGrant THEN acted
                ELSE [acted EXCEPT ![handlers[h].auth.grant] = Append(@, order)]
    /\ answered' = [answered EXCEPT ![order.key] = Unknown]
    /\ Goes(h, [handlers[h] EXCEPT !.pc = "written"])
    /\ UNCHANGED <<rows, spent, spentFile, mixed, copied>>

WritesSecret(h) ==
    /\ handlers[h].pc = "loaded" /\ handlers[h].order.op = "set"
    /\ Backend(h, handlers[h].order.value)

\* SecretNotFoundError is ignored: a row may have no value.
RemovesSecret(h) ==
    /\ handlers[h].pc = "loaded" /\ handlers[h].order.op = "delete"
    /\ handlers[h].seen[handlers[h].order.key].row
    /\ Backend(h, NoValue)

ChangeEnds(h) == Ends(h) /\ mixed' = mixed \ {h}

\* Nothing was registered; the backend is not asked.
DeleteFindsNothing(h) ==
    /\ handlers[h].pc = "loaded" /\ handlers[h].order.op = "delete"
    /\ ~handlers[h].seen[handlers[h].order.key].row
    /\ answered' = [answered EXCEPT ![handlers[h].order.key] = SaidNothing]
    /\ ChangeEnds(h)
    /\ UNCHANGED <<rows, secrets, spent, spentFile, acted, copied>>

\* has_secret: it was so, or a value was written now.
HasNowWritten(h) == handlers[h].order.op = "set"
HasNow(h) == handlers[h].order.op = "set" \/ handlers[h].seen[handlers[h].order.key].has

NewRow(h) == IF handlers[h].order.op = "delete" THEN NoRow ELSE Row(HasNow(h))

\* What the answer says of the key; a mixed change's says nothing that can be relied on.
Said(h) ==
    CASE handlers[h].order.op # "edit" /\ h \in mixed -> Unknown
      [] handlers[h].order.op = "set" /\ h \notin mixed -> SaidSet(handlers[h].order.value)
      [] handlers[h].order.op = "delete" /\ h \notin mixed -> SaidDeleted
      [] OTHER -> IF answered[handlers[h].order.key].said = "set" THEN answered[handlers[h].order.key] ELSE Unknown

\* ConnectionStore.save: the file as it was loaded, with the one row changed.
SavesRows(h) ==
    /\ \/ handlers[h].pc = "written"
       \/ handlers[h].pc = "loaded" /\ handlers[h].order.op = "edit"
    /\ LET key == handlers[h].order.key IN
       /\ rows' = WithRow(handlers[h].seen, key, NewRow(h))
       /\ answered' = [answered EXCEPT ![key] = Said(h)]
    /\ ChangeEnds(h)
    /\ UNCHANGED <<secrets, spent, spentFile, acted, copied>>

\* The backend refuses the write or the deletion, or the file cannot be replaced.
ChangeFails(h) ==
    /\ InHand(h)
    /\ ChangeEnds(h)
    /\ UNCHANGED <<rows, secrets, spent, spentFile, acted, answered, copied>>

BootloaderStops ==
    /\ handlers' = [h \in VaultHandlers |-> VaultIdle]
    /\ spent' = spentFile
    /\ mixed' = {}
    /\ UNCHANGED <<rows, secrets, spentFile, acted, answered, copied>>

VaultNext ==
    \/ \E h \in VaultHandlers :
           \/ SetAsked(h) \/ EditAsked(h) \/ DeleteAsked(h)
           \/ \E g \in VaultGrants, order \in Order : ActArrives(h, g, order)
           \/ ActSpends(h) \/ ActCannotSpend(h)
           \/ Loads(h) \/ WritesSecret(h) \/ RemovesSecret(h) \/ DeleteFindsNothing(h)
           \/ SavesRows(h) \/ ChangeFails(h)
    \/ BootloaderStops

VaultSpec == VaultInit /\ [][VaultNext]_vaultVars

(***************************************************************************)
(* Properties.                                                             *)
(***************************************************************************)
\* get_connection_secret looks at the row first, release_user_secret does not.
ConnectionSecret(k) == IF rows[k].row THEN secrets[k] ELSE NoValue
UserSecret(k) == secrets[k]

\* A value whose set was answered is the one a read gives, and its row says so,
\* through later edits, failed writes, restarts and other changes that overlap one
\* another, until another change touches the value (set_connection: an edit leaves
\* the value untouched).
AnsweredSetStands ==
    \A k \in VaultKeys : answered[k].said = "set" =>
        /\ ConnectionSecret(k) = answered[k].value /\ UserSecret(k) = answered[k].value
        /\ rows[k].has

\* A key whose delete was answered as done has neither a row nor a value
\* (delete_connection).
AnsweredDeleteStands ==
    \A k \in VaultKeys : answered[k] = SaidDeleted => ~rows[k].row /\ UserSecret(k) = NoValue

\* A grant changes the backend in the way it was signed and in no other, and at most
\* once, also when its act failed or the process stopped, unless two copies of it had
\* both been found unspent before either was spent (_handle_connections_act).
GrantActsOnce ==
    \A g \in VaultGrants :
        /\ \A i \in DOMAIN acted[g] : acted[g][i] = SignedOrder[g]
        /\ g \notin copied => Len(acted[g]) <= 1

\* What was answered stands, and what was signed was done once.
VaultKeepsItsWord == AnsweredSetStands /\ AnsweredDeleteStands /\ GrantActsOnce
==============================================================================
