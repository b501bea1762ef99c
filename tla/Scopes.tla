-------------------------------- MODULE Scopes --------------------------------
\* What an agent may ask the operator for, what the signed token then permits at
\* each verifier, and the manifest both are judged by.
EXTENDS Naturals, FiniteSets

CONSTANTS
    Agents,          \* entries of capability_agent_tokens
    Actions,         \* action keys
    ConnectionActs,  \* the actions that begin "connections:"
    ReadAction,      \* "secret:read"
    PairAction,      \* "devices:pair"
    Audiences,       \* strings a token's aud may hold
    VaultAudience,   \* "recto:vault"
    Bootloader,      \* this bootloader's id, the audience of its own relays and acts
    ScopeServices,   \* services of secrets and connections
    ScopeAsks,            \* request ids
    AskedClaims,     \* what agents put into a request
    Settings,        \* what create_server may be given, one per start
    NoManifest, NoRecord, NoAsk

(***************************************************************************)
(* A manifest is [version, actions, members]: members[g] are the actions   *)
(* of group g.  Claims are [version, groups, allow, deny, aud, services,   *)
(* pin]; the pin stands for cap.scope.payload_sha256 and is the record it  *)
(* fingerprints.  Settings are [manifest, requestable, audiences,          *)
(* authOnly]; the two policies have only the agents that carry one in      *)
(* their domain.                                                           *)
(***************************************************************************)
ActRecords == [act : ConnectionActs, service : ScopeServices]

VARIABLES
    settings,     \* BootloaderHandler.config of the running process
    asked,        \* request id -> its card, with the settings it was judged by
    copy,         \* the manifest a consumer has fetched and cached
    used          \* history: the uses the verifiers let through

scopeVars == <<settings, asked, copy, used>>

Cards == [agent : Agents, claims : AskedClaims, under : Settings, signed : BOOLEAN]

ASSUME NoAskIsNoCard == NoAsk \notin Cards

Fetched == {s.manifest : s \in Settings}

(***************************************************************************)
(* Scope resolution.                                                       *)
(***************************************************************************)
\* load_manifest refuses a group that names an action of no table.
WellFormed(m) == \A g \in DOMAIN m.members : m.members[g] \subseteq m.actions

\* _dict_to_claims and BootloaderConfig.
IsClaims(c) ==
    /\ c.allow \union c.deny \subseteq Actions /\ c.aud \subseteq Audiences
    /\ c.services \subseteq ScopeServices /\ c.pin \in ActRecords \union {NoRecord}
    /\ {"version", "groups"} \subseteq DOMAIN c
IsSettings(s) ==
    /\ DOMAIN s.requestable \union DOMAIN s.audiences \union s.authOnly \subseteq Agents
    /\ \A a \in DOMAIN s.requestable : s.requestable[a] \subseteq Actions
    /\ \A a \in DOMAIN s.audiences : s.audiences[a] \subseteq Audiences
    /\ "manifest" \in DOMAIN s

ASSUME ScopesAssumption ==
    /\ \A c \in AskedClaims : IsClaims(c)
    /\ \A s \in Settings : IsSettings(s)
    /\ ReadAction \in Actions

\* "New actions / groups are added by bumping the version and re-publishing."
ASSUME ManifestsArePublishedOnce ==
    \A s, t \in {u \in Settings : u.manifest # NoManifest} :
        /\ WellFormed(s.manifest)
        /\ s.manifest.version = t.manifest.version => s.manifest = t.manifest

MembersOf(groups, m) == UNION {m.members[g] : g \in groups}

Resolves(c, m) ==
    /\ m # NoManifest
    /\ c.version = m.version
    /\ c.groups \subseteq DOMAIN m.members
    /\ c.allow \subseteq m.actions

\* evaluate_scope: a clause that does not resolve permits nothing.
Permitted(action, c, m) ==
    /\ Resolves(c, m)
    /\ action \in (MembersOf(c.groups, m) \union c.allow) \ c.deny

(***************************************************************************)
(* The request: refused before it becomes a card.                          *)
(***************************************************************************)
NamedLessDenied(c, m) ==
    ((IF c.groups = {} THEN {} ELSE MembersOf(c.groups, m)) \union c.allow) \ c.deny

\* What the clause names on its allow side; a deny is not taken off.
NamedAllow(c, m) == c.allow \union IF c.groups = {} THEN {} ELSE MembersOf(c.groups, m)

MayAskFor(a, c) ==
    a \in DOMAIN settings.requestable =>
        /\ c.groups # {} => Resolves(c, settings.manifest)
        /\ NamedAllow(c, settings.manifest) \subseteq settings.requestable[a]

MayName(a, c) ==
    a \in DOMAIN settings.audiences => c.aud # {} /\ c.aud \subseteq settings.audiences[a]

NamesConnectionAct(c) == (c.allow \union c.deny) \intersect ConnectionActs # {}

\* verify_act_grant, at the request and again at the act.
AdmitsAct(c, r) ==
    /\ c.groups = {} /\ c.deny = {} /\ c.allow = {r.act}
    /\ c.aud = {Bootloader}
    /\ c.services = {r.service}
    /\ c.pin = r

IsCarded(c, r) == r # NoRecord \/ NamesConnectionAct(c) => r # NoRecord /\ AdmitsAct(c, r)

\* An auth-only agent signs in to a substrate and raises no card.
MayRaise(a) == a \notin settings.authOnly

\* An agent that authenticated asks with claims c, and with record r or none.
RequestCard(i, a, c, r) ==
    /\ asked[i] = NoAsk
    /\ MayRaise(a)
    /\ IsCarded(c, r)
    /\ MayAskFor(a, c)
    /\ MayName(a, c)
    /\ asked' = [asked EXCEPT ![i] = [agent |-> a, claims |-> c, under |-> settings, signed |-> FALSE]]
    /\ UNCHANGED <<settings, copy, used>>

\* The operator's phone signs what the card shows: the claims as they were built.
SignCard(i) ==
    /\ asked[i] # NoAsk /\ ~asked[i].signed
    /\ asked' = [asked EXCEPT ![i].signed = TRUE]
    /\ UNCHANGED <<settings, copy, used>>

(***************************************************************************)
(* The verifiers.                                                          *)
(***************************************************************************)
Holds(i) == asked[i] # NoAsk /\ asked[i].signed

Uses(i, action, audience) ==
    /\ audience \in asked[i].claims.aud
    /\ used' = used \union {[ask |-> i, action |-> action, audience |-> audience]}
    /\ UNCHANGED <<settings, asked, copy>>

\* POST /v0.4/secrets/read for a secret of one service.
ReadSecret(i, service) ==
    /\ Holds(i)
    /\ LET c == asked[i].claims
       IN /\ Permitted(ReadAction, c, settings.manifest)
          /\ c.services = {} \/ service \in c.services
    /\ Uses(i, ReadAction, VaultAudience)

\* POST /v0.4/connections/act.
ActOnConnection(i, r) ==
    /\ Holds(i)
    /\ AdmitsAct(asked[i].claims, r)
    /\ Uses(i, r.act, Bootloader)

\* POST /v0.4/devices/pair reads allow_actions alone.
RelayPairing(i) ==
    /\ Holds(i)
    /\ PairAction \in asked[i].claims.allow
    /\ Uses(i, PairAction, Bootloader)

\* A consumer fetches the manifest: its copy stands while the ETag, which is the
\* version, is the one it has.
FetchManifest ==
    /\ settings.manifest # NoManifest
    /\ copy' = IF copy # NoManifest /\ copy.version = settings.manifest.version
               THEN copy ELSE settings.manifest
    /\ UNCHANGED <<settings, asked, used>>

\* A consumer evaluates an action by the copy it has.
ConsumerAdmits(i, action, audience) ==
    /\ Holds(i)
    /\ Permitted(action, asked[i].claims, copy)
    /\ Uses(i, action, audience)

(***************************************************************************)
(* A restart, with other settings or the same.                             *)
(***************************************************************************)
RestartWith(s) ==
    /\ settings' = s
    /\ UNCHANGED <<asked, copy, used>>

ScopesInit ==
    /\ settings \in Settings
    /\ asked = [i \in ScopeAsks |-> NoAsk]
    /\ copy = NoManifest
    /\ used = {}

ScopesNext ==
    \/ \E i \in ScopeAsks, a \in Agents, c \in AskedClaims, r \in ActRecords \union {NoRecord} :
          RequestCard(i, a, c, r)
    \/ \E i \in ScopeAsks : SignCard(i) \/ RelayPairing(i)
    \/ \E i \in ScopeAsks, s \in ScopeServices : ReadSecret(i, s)
    \/ \E i \in ScopeAsks, r \in ActRecords : ActOnConnection(i, r)
    \/ \E i \in ScopeAsks, action \in Actions, audience \in Audiences : ConsumerAdmits(i, action, audience)
    \/ FetchManifest
    \/ \E s \in Settings : RestartWith(s)

ScopesSpec == ScopesInit /\ [][ScopesNext]_scopeVars

(***************************************************************************)
(* Properties.                                                             *)
(***************************************************************************)
\* The server's settings, the cards, the cached manifest and the uses are of
\* their kinds, and no card is of an agent that was auth-only when it asked.
ScopesTypeOK ==
    /\ settings \in Settings
    /\ asked \in [ScopeAsks -> Cards \union {NoAsk}]
    /\ \A i \in ScopeAsks : asked[i] # NoAsk => asked[i].agent \notin asked[i].under.authOnly
    /\ copy \in Fetched \union {NoManifest}
    /\ used \subseteq [ask : ScopeAsks, action : Actions, audience : Audiences]

\* Whatever verifier let a token through, and whatever manifest and policy the
\* server was restarted with since: the action is one that the policy the token
\* was asked under lets its agent ask for (server.py: "a deny cannot cancel its
\* own allow into a pass").
UsedWithinPolicy ==
    \A u \in used :
        LET card == asked[u.ask]
        IN card.agent \in DOMAIN card.under.requestable
              => u.action \in card.under.requestable[card.agent]

\* And the place it is used in is one its agent's policy lets it name.
UsedWhereAllowed ==
    \A u \in used :
        LET card == asked[u.ask]
        IN card.agent \in DOMAIN card.under.audiences
              => u.audience \in card.under.audiences[card.agent]

\* A token does what its agent's policy allows, where it allows it.
UsedAsAllowed == UsedWithinPolicy /\ UsedWhereAllowed
===============================================================================
