------------------------------- MODULE MCServices -------------------------------
\* The components that share no state, side by side: a behaviour is one of them
\* at work, in the world its first state names, and the others standing still.
EXTENDS Services, TLC

VARIABLE world

Turn(w, component) == world = w /\ component

(***************************************************************************)
(* Tokens.  On Postgres a revoke with another exp replaces the entry; the  *)
(* file keeps the first.                                                   *)
(***************************************************************************)
CONSTANTS once, many

ExpOfTokens == [j \in Jtis |-> IF j = once THEN 2 ELSE 3]

OnFile == INSTANCE CapabilityUse WITH Durable <- FALSE, EarlyExp <- 1
OnPostgres == INSTANCE CapabilityUse WITH Durable <- TRUE, EarlyExp <- 0

(***************************************************************************)
(* Profiles: an empty book that profiles enter, and one profile with two   *)
(* devices that change.                                                    *)
(***************************************************************************)
CONSTANTS p1, p2, work, home, d1, d2, y1, y2

Coins == [n \in ProfileNames |-> 1]
Create(i, n) == [op |-> "create", id |-> i, name |-> n]
Add(i, d) == [op |-> "add", id |-> i, device |-> d]
Remove(i, d) == [op |-> "remove", id |-> i, device |-> d]

Founders == {Create(p1, work), Create(p2, work), Create(p2, home)}
Changers == {Add(p1, d1), Remove(p1, d1), Remove(p1, d2)}
SomeWishes == Founders \union Changers
WorkBook == {[id |-> p1, name |-> work, index |-> 0, devices |-> {d1, d2}, quorum |-> 1, revoked |-> FALSE]}
SomeBooks == {{}, WorkBook}

\* Of the commands, these alone run: with two cards and all that can go wrong, or with three
\* that are approved.
Commands(group) == ProfilesNext /\ \A w \in Wishes \ group : commands'[w] = Idle_
TwoCards(group) == Commands(group) /\ Len(cards') <= 2
Approvals(group) ==
    /\ Commands(group)
    /\ \A a \in Answerers : answering'[a].pc = "taken" => answering'[a].says = "approved"
    /\ \A w \in Wishes : commands'[w].pc \notin {"missed", "failed"}

(***************************************************************************)
(* The vault: one key set by its grant, the same one deleted by another.   *)
(***************************************************************************)
CONSTANTS k1, k2, s1, s2, h1, h2, setGrant, deleteGrant

SomeOrders ==
    setGrant :> [op |-> "set", key |-> k1, value |-> s1]
      @@ deleteGrant :> [op |-> "delete", key |-> k1, value |-> NoValue]

\* One change at a time; the key beside it has one value or none.
OneChange == VaultNext /\ secrets'[k2] # s2 /\ handlers'[h2] = VaultIdle
\* Two changes at a time: of the first key, and of the key beside it or by a copy of the act.
MaxCopies == 2
TwoChanges ==
    /\ VaultNext
    /\ spent' \subseteq {setGrant} /\ Len(acted'[setGrant]) <= MaxCopies
    /\ \A h \in VaultHandlers : LET i == handlers'[h] IN
           /\ i # VaultIdle => i.order.value # s2
           /\ i.pc = "checked" => i.grant = setGrant /\ i.order = SignedOrder[setGrant]
           /\ h = h1 /\ i # VaultIdle => i.order.key = k1
           /\ h = h2 /\ i.pc \in {"admitted", "loaded", "written"} =>
                  i.auth = By(setGrant) \/ (i.order.key = k2 /\ i.order.op = "set")

(***************************************************************************)
(* Scopes: one agent, with a policy or without, and two manifests of which *)
(* the second puts another action into the group.  Requests do not meet,   *)
(* so one is enough.                                                       *)
(***************************************************************************)
CONSTANTS a1, v1, v2, gr, read, pair, enable, vault, boot, app

Manifest(v, members) == [version |-> v, actions |-> {read, pair, enable}, members |-> gr :> members]
Oldest == Manifest(v1, {read})
Newest == Manifest(v2, {read, pair})
Under(m, lists, authOnly) ==
    [manifest |-> m, authOnly |-> authOnly,
     requestable |-> [a \in lists |-> {read, enable}], audiences |-> [a \in lists |-> {vault, boot}]]
SomeSettings ==
    {Under(NoManifest, {a1}, {}), Under(Oldest, {a1}, {}), Under(Newest, {a1}, {}),
     Under(Oldest, {}, {}), Under(Newest, {}, {a1})}

Asking(v, groups, allow, deny, aud) ==
    [version |-> v, groups |-> groups, allow |-> allow, deny |-> deny, aud |-> aud,
     services |-> {k1}, pin |-> NoRecord]
SomeClaims ==
    {Asking(v1, {gr}, {}, {}, {vault}), Asking(v1, {gr}, {}, {}, {vault, boot}),
     Asking(v2, {gr}, {}, {pair}, {vault, boot}), Asking(v1, {}, {pair, read}, {pair}, {vault, boot}),
     Asking(v2, {}, {read}, {}, {vault, app}), Asking(v1, {}, {read}, {}, {}),
     [Asking(v1, {}, {enable}, {}, {boot}) EXCEPT !.pin = [act |-> enable, service |-> k1]]}

(***************************************************************************)
(* Pairing: requests that overlap, or one at a time with writes that fail. *)
(***************************************************************************)
CONSTANTS g1, g2, c1, c2

ExpOfGrants == g1 :> 2 @@ g2 :> 1
NotAfterOfGrants == g1 :> 2 @@ g2 :> 2

Unsaved == INSTANCE DevicePairing WITH SpendsSaved <- FALSE
Overlapping == PairNext /\ known' \in {{}, Consumers}
OneAtATime == Unsaved!PairNext /\ \E h \in PairHandlers : \A i \in PairHandlers \ {h} : pairings'[i] = PairIdle

(***************************************************************************)
(* Phones: one that all the calls are about, beside one that stays; one    *)
(* card, which asks for a window or not.                                   *)
(***************************************************************************)
CONSTANTS ph1, ph2, w1, w2, e1

PhoneOfCards == w1 :> ph1 @@ w2 :> ph1 @@ e1 :> ph1
AboutOne ==
    /\ RowsNext
    /\ phoneRow'[ph2] = NoToken
    /\ ~({w1, w2} \subseteq made')
    /\ \A k \in RowCalls : calls'[k] # CallIdle => calls'[k].phone = ph1

(***************************************************************************)
(* Quorums: a key may sign twice with two signatures, and one fits nobody. *)
(***************************************************************************)
CONSTANTS m1, m2, m3, mk1, mk2, mk3, u1, u2, u3, bad

SomeSigners == u1 :> mk1 @@ u2 :> mk2 @@ u3 :> mk2

(***************************************************************************)
(* The worlds.                                                             *)
(***************************************************************************)
ServicesInit ==
    /\ world \in {"tokens in the file", "tokens in Postgres", "profiles founded",
                "profiles changed", "profiles raced", "vault", "vault raced", "scopes", "pairings raced", "pairings unsaved", "phones", "quorums"}
    /\ Init /\ ProfilesInit /\ VaultInit /\ ScopesInit /\ PairInit /\ RowsInit
    /\ IF world = "quorums" THEN QuorumInit ELSE QuorumIdle
    /\ book = IF world \in {"profiles changed", "profiles raced"} THEN WorkBook ELSE {}
    /\ world \in {"pairings raced", "pairings unsaved"} \/ known = {}
    /\ world = "scopes" \/ settings = Under(Oldest, {}, {})

ServicesNext ==
    /\ UNCHANGED world
    /\ \/ /\ Turn("tokens in the file", OnFile!Next) \/ Turn("tokens in Postgres", OnPostgres!Next)
          /\ UNCHANGED <<profileVars, vaultVars, scopeVars, pairVars, rowVars, quorumVars>>
       \/ /\ Turn("profiles founded", TwoCards(Founders)) \/ Turn("profiles changed", TwoCards(Changers))
             \/ Turn("profiles raced", Approvals((Changers \ {Add(p1, d1)}) \union {Create(p2, home)}))
          /\ UNCHANGED <<vars, vaultVars, scopeVars, pairVars, rowVars, quorumVars>>
       \/ /\ Turn("vault", OneChange) \/ Turn("vault raced", TwoChanges)
          /\ UNCHANGED <<vars, profileVars, scopeVars, pairVars, rowVars, quorumVars>>
       \/ Turn("scopes", ScopesNext) /\ UNCHANGED <<vars, profileVars, vaultVars, pairVars, rowVars, quorumVars>>
       \/ /\ Turn("pairings raced", Overlapping) \/ Turn("pairings unsaved", OneAtATime)
          /\ UNCHANGED <<vars, profileVars, vaultVars, scopeVars, rowVars, quorumVars>>
       \/ Turn("quorums", QuorumNext) /\ UNCHANGED <<vars, profileVars, vaultVars, scopeVars, pairVars, rowVars>>
       \/ Turn("phones", AboutOne) /\ UNCHANGED <<vars, profileVars, vaultVars, scopeVars, pairVars, quorumVars>>

ServicesSpec == ServicesInit /\ [][ServicesNext]_<<world, vars, profileVars, vaultVars, scopeVars, pairVars, rowVars, quorumVars>>

Symmetry == Permutations(Readers) \union Permutations(RowCalls)
===============================================================================
