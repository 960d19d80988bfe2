--------------------------- MODULE FlowSetupProofs ---------------------------
(***************************************************************************)
(* The settings and the steps of a workflow, and the batches a flow makes  *)
(* of them, proved for any number of requests, any request bodies, any     *)
(* roles and any lists of steps.                                           *)
(***************************************************************************)
EXTENDS FlowSetup, FiniteSetTheorems, SequenceTheorems, WellFoundedInduction, TLAPS

-----------------------------------------------------------------------------
(***************************************************************************)
(* The settings: types.                                                    *)
(***************************************************************************)
LEMMA ConfigIsNotNone ==
  ASSUME NEW c \in Config
  PROVE  c # NoConfig
BY DEF Config, NoConfig

\* An optional field gives one of its values or the one there was.
LEMMA GivenType ==
  ASSUME NEW T, NEW field \in SUBSET T, NEW old \in T
  PROVE  Given(field, old) \in T
BY DEF Given

LEMMA KeyAfterType ==
  ASSUME NEW patch \in KeyPatch, NEW old \in Keys, NEW r \in Updates
  PROVE  KeyAfter(patch, old, r) \in Keys
BY DEF KeyAfter, Keys

LEMMA MergedRolesType ==
  ASSUME NEW p \in Payloads, NEW roles \in [Agents -> Role], NEW r \in Updates
  PROVE  MergedRoles(roles, p, r) \in [Agents -> Role]
<1>1. SUFFICES ASSUME NEW a \in Agents, a \in DOMAIN p.roles
               PROVE  [on |-> p.roles[a].on, base |-> Given(p.roles[a].base, roles[a].base),
                       key |-> KeyAfter(p.roles[a].key, roles[a].key, r),
                       model |-> Given(p.roles[a].model, roles[a].model)] \in Role
  BY DEF MergedRoles
<1>2. p.roles[a] \in RolePatch /\ roles[a] \in Role
  BY <1>1, ConfigAssumption
<1>3. /\ p.roles[a].on \in BOOLEAN
      /\ p.roles[a].base \in SUBSET BaseURLs /\ roles[a].base \in BaseURLs
      /\ p.roles[a].model \in SUBSET Models /\ roles[a].model \in Models
      /\ p.roles[a].key \in KeyPatch /\ roles[a].key \in Keys
  BY <1>2 DEF RolePatch, Role
<1>4. Given(p.roles[a].base, roles[a].base) \in BaseURLs
  BY <1>3, GivenType
<1>5. Given(p.roles[a].model, roles[a].model) \in Models
  BY <1>3, GivenType
<1>6. KeyAfter(p.roles[a].key, roles[a].key, r) \in Keys
  BY <1>3, KeyAfterType
<1> QED
  BY <1>3, <1>4, <1>5, <1>6 DEF Role

LEMMA LegacyAfterType ==
  ASSUME NEW p \in Payloads, NEW legacy \in [Agents -> Models]
  PROVE  LegacyAfter(legacy, p) \in [Agents -> Models]
<1>1. p.legacy \in SUBSET [Agents -> Models]
  BY ConfigAssumption
<1>2. Given(p.legacy, legacy) \in [Agents -> Models]
  BY <1>1, GivenType
<1>3. Blank \in Models
  BY DEF Models
<1> QED
  BY <1>2, <1>3 DEF LegacyAfter

LEMMA UpdatedType ==
  ASSUME NEW p \in Payloads, NEW c \in Config, NEW r \in Updates
  PROVE  Updated(c, p, r) \in Config
<1>1. /\ c.enabled \in BOOLEAN /\ c.key \in Keys /\ c.model \in Models
      /\ c.legacy \in [Agents -> Models] /\ c.roles \in [Agents -> Role]
  BY DEF Config
<1>2. /\ p.enabled \in SUBSET BOOLEAN /\ p.model \in SUBSET Models /\ p.key \in KeyPatch
  BY ConfigAssumption
<1>3. Given(p.enabled, c.enabled) \in BOOLEAN
  BY <1>1, <1>2, GivenType
<1>4. Given(p.model, c.model) \in Models
  BY <1>1, <1>2, GivenType
<1>5. KeyAfter(p.key, c.key, r) \in Keys
  BY <1>1, <1>2, KeyAfterType
<1>6. LegacyAfter(c.legacy, p) \in [Agents -> Models]
  BY <1>1, LegacyAfterType
<1>7. MergedRoles(c.roles, p, r) \in [Agents -> Role]
  BY <1>1, MergedRolesType
<1> QED
  BY <1>3, <1>4, <1>5, <1>6, <1>7 DEF Updated, Config

LEMMA WrittenType ==
  ASSUME NEW now \in Config, NEW read \in Config, NEW new \in Config
  PROVE  Written(now, read, new) \in Config
BY DEF Written, Config

LEMMA NewConfigType == NewConfig \in Config
BY DEF NewConfig, Config, NoRole, Role, Keys, Models, BaseURLs

LEMMA InitConfigType == ConfigInit => ConfigTypeOK
<1> SUFFICES ASSUME ConfigInit PROVE ConfigTypeOK
  OBVIOUS
<1>1. config \in {NoConfig} \union Config
  BY ConfigAssumption DEF ConfigInit
<1>2. asked \in [Agents \union {Account} -> Keys]
  BY <1>1 DEF ConfigInit, KeyOf, Config, Role, Keys
<1>3. update \in [Updates -> Request]
  BY DEF ConfigInit, Request
<1> QED
  BY <1>1, <1>2, <1>3 DEF ConfigTypeOK

\* What is asked for after a request is a key for every role and the account.
LEMMA AskedType ==
  ASSUME ConfigTypeOK, NEW p \in Payloads, NEW r \in Updates
  PROVE  AskedAfter(p, r) \in [Agents \union {Account} -> Keys]
BY DEF AskedAfter, ConfigTypeOK, Keys

\* The fields of a request other than the one that moves are unchanged, and the
\* one that moves has the value it is given.
Moves(r, to) == update' = [update EXCEPT ![r] = to]

LEMMA UpdateMoves ==
  ASSUME ConfigTypeOK, NEW r \in Updates, NEW to \in Request, Moves(r, to),
         config' \in {NoConfig} \union Config,
         asked' \in [Agents \union {Account} -> Keys]
  PROVE  ConfigTypeOK'
BY DEF ConfigTypeOK, Moves

\* What a request that has read the row may do to it.
LEMMA CommitCases ==
  ASSUME ConfigTypeOK, NEW r \in Updates, CommitConfig(r)
  PROVE  LET p == update[r].body
             seen == update[r].seen
         IN /\ p \in Payloads /\ seen \in {NoConfig} \union Config
            /\ \/ /\ Moves(r, Over("failed", {}))
                  /\ config' = config /\ asked' = asked
               \/ /\ Moves(r, Over("done", {}))
                  /\ config = NoConfig
                  /\ config' = Updated(NewConfig, p, r) /\ asked' = AskedAfter(p, r)
               \/ /\ Moves(r, Over("done", Crossed(config, seen, p)))
                  /\ seen \in Config
                  /\ config' = Written(config, seen, Updated(seen, p, r))
                  /\ asked' = AskedAfter(p, r)
<1>1. update[r].at = "read"
  BY DEF CommitConfig
<1>2. update[r].body \in Payloads /\ update[r].seen \in {NoConfig} \union Config
  BY <1>1 DEF ConfigTypeOK, Request, Idle
<1> QED
  BY <1>2 DEF CommitConfig, Moves

\* A row is never deleted: who read one still finds one.
SeenRowStays ==
  \A r \in Updates : update[r].at = "read" /\ update[r].seen # NoConfig => config # NoConfig

ConfigInv == ConfigTypeOK /\ SeenRowStays

LEMMA InitConfigInv == ConfigInit => ConfigInv
<1>1. ConfigInit => SeenRowStays
  BY DEF ConfigInit, SeenRowStays, Idle
<1> QED
  BY <1>1, InitConfigType DEF ConfigInv

\* A row that is written is a row.
LEMMA CommitWrites ==
  ASSUME ConfigInv, NEW r \in Updates, CommitConfig(r)
  PROVE  /\ config' \in {NoConfig} \union Config
         /\ config # NoConfig => config' # NoConfig
         /\ asked' \in [Agents \union {Account} -> Keys]
<1> DEFINE p == update[r].body
           seen == update[r].seen
<1>t. ConfigTypeOK /\ SeenRowStays
  BY DEF ConfigInv
<1>p. p \in Payloads
  BY <1>t, CommitCases
<1>a. AskedAfter(p, r) \in [Agents \union {Account} -> Keys]
  BY <1>t, <1>p, AskedType
<1>1. CASE config' = config /\ asked' = asked
  BY <1>1, <1>t DEF ConfigTypeOK
<1>2. CASE config = NoConfig /\ config' = Updated(NewConfig, p, r) /\ asked' = AskedAfter(p, r)
  BY <1>2, <1>p, <1>a, NewConfigType, UpdatedType
<1>3. CASE /\ seen \in Config
           /\ config' = Written(config, seen, Updated(seen, p, r))
           /\ asked' = AskedAfter(p, r)
  <2>1. update[r].at = "read"
    BY DEF CommitConfig
  <2>2. config \in Config
    BY <1>3, <1>t, <2>1, ConfigIsNotNone DEF SeenRowStays, ConfigTypeOK
  <2>3. Updated(seen, p, r) \in Config
    BY <1>3, <1>p, UpdatedType
  <2>4. config' \in Config
    BY <1>3, <2>2, <2>3, WrittenType
  <2> QED
    BY <1>3, <1>a, <2>4, ConfigIsNotNone
<1> QED
  BY <1>t, <1>1, <1>2, <1>3, CommitCases

LEMMA UpdateKeepsConfigInv ==
  ASSUME ConfigInv, NEW r \in Updates, Update(r)
  PROVE  ConfigInv'
<1>t. ConfigTypeOK /\ SeenRowStays
  BY DEF ConfigInv
<1>1. CASE ReadConfig(r)
  <2>1. PICK p \in Payloads : Moves(r, [at |-> "read", body |-> p, seen |-> config])
    BY <1>1 DEF ReadConfig, Moves
  <2>2. config' = config /\ asked' = asked
    BY <1>1 DEF ReadConfig
  <2>3. ConfigTypeOK'
    <3>1. [at |-> "read", body |-> p, seen |-> config] \in Request
      BY <1>t DEF ConfigTypeOK, Request
    <3> QED
      BY <1>t, <2>1, <2>2, <3>1, UpdateMoves DEF ConfigTypeOK
  <2>4. SeenRowStays'
    BY <1>t, <2>1, <2>2 DEF SeenRowStays, Moves, ConfigTypeOK
  <2> QED
    BY <2>3, <2>4 DEF ConfigInv
<1>2. CASE CommitConfig(r)
  <2>1. PICK to \in Request : Moves(r, to) /\ to.at \in {"failed", "done"}
    <3>1. \A how \in {"failed", "done"}, crossed \in SUBSET {"key", "roles"} :
            Over(how, crossed) \in Request /\ Over(how, crossed).at = how
      BY DEF Over, Request
    <3>2. Crossed(config, update[r].seen, update[r].body) \in SUBSET {"key", "roles"}
      BY DEF Crossed
    <3>3. \E how \in {"failed", "done"}, crossed \in SUBSET {"key", "roles"} : Moves(r, Over(how, crossed))
      BY <1>t, <1>2, <3>2, CommitCases
    <3> QED
      BY <3>1, <3>3
  <2>2. ConfigTypeOK'
    BY <1>t, <1>2, <2>1, CommitWrites, UpdateMoves
  <2>3. SeenRowStays'
    BY <1>t, <1>2, <2>1, CommitWrites DEF SeenRowStays, Moves, ConfigTypeOK
  <2> QED
    BY <2>2, <2>3 DEF ConfigInv
<1> QED
  BY <1>1, <1>2 DEF Update

-----------------------------------------------------------------------------
(***************************************************************************)
(* The settings: what the page shows and what a run takes.                 *)
(***************************************************************************)
\* A role that is ready without the account has a base_url and a key of its own.
LEMMA OwnConnection ==
  ASSUME NEW c \in Config, NEW a \in Agents, ~AccountReady(c)
  PROVE  RoleReady(c, a) <=> RoleOn(c, a) /\ c.roles[a].base # Blank /\ c.roles[a].key # Blank
BY DEF RoleReady, EffectiveBase, EffectiveKey, Or

LEMMA ReadyIsRuntime ==
  ASSUME NEW c \in {NoConfig} \union Config
  PROVE  IsReady(c) <=> RuntimeOf(c) # NoRuntime
<1>1. CASE c = NoConfig
  BY <1>1 DEF IsReady, RuntimeOf
<1>2. CASE c \in Config
  <2>1. c # NoConfig
    BY <1>2, ConfigIsNotNone
  <2>2. CASE AccountReady(c)
    BY <2>1, <2>2 DEF IsReady, RuntimeOf, NoRuntime
  <2>3. CASE ~AccountReady(c)
    <3>1. IsReady(c) <=> \E a \in Agents : RoleOn(c, a) /\ c.roles[a].base # Blank
                                                        /\ c.roles[a].key # Blank
      BY <1>2, <2>1, <2>3, OwnConnection DEF IsReady
    <3>2. CASE IsReady(c)
      <4>1. ~\A a \in Agents : LET o == RuntimeRole(c, a)
                               IN ~(o.on /\ o.base # Blank /\ o.key # Blank)
        BY <3>1, <3>2 DEF RuntimeRole
      <4> QED
        BY <2>1, <3>2, <4>1 DEF RuntimeOf, NoRuntime
    <3>3. CASE ~IsReady(c)
      <4>1. \A a \in Agents : LET o == RuntimeRole(c, a)
                              IN ~(o.on /\ o.base # Blank /\ o.key # Blank)
        BY <3>1, <3>3 DEF RuntimeRole
      <4> QED
        BY <2>3, <3>3, <4>1 DEF RuntimeOf
    <3> QED
      BY <3>2, <3>3
  <2> QED
    BY <2>2, <2>3
<1> QED
  BY <1>1, <1>2

LEMMA ReadyRoleIsUsed ==
  ASSUME NEW c \in Config, NEW a \in Agents, RoleReady(c, a)
  PROVE  LET used == Connection(RuntimeOf(c), a)
         IN /\ used.base = EffectiveBase(c, a)
            /\ used.key = EffectiveKey(c, a)
            /\ RoleModel(c, a) # Blank => used.model = RoleModel(c, a)
<1> DEFINE rt == RuntimeOf(c)
<1>1. c # NoConfig
  BY ConfigIsNotNone
<1>2. rt # NoRuntime
  <2>1. IsReady(c)
    BY <1>1 DEF IsReady
  <2> QED
    BY <2>1, ReadyIsRuntime
<1>3. /\ rt.roles[a] = RuntimeRole(c, a)
      /\ rt.base = IF c.enabled THEN Account ELSE Blank
      /\ rt.key = IF c.enabled THEN c.key ELSE Blank
  BY <1>2 DEF RuntimeOf
<1>4. /\ rt.roles[a].on
      /\ rt.roles[a].base = c.roles[a].base
      /\ rt.roles[a].key = c.roles[a].key
      /\ rt.roles[a].model = RoleModel(c, a)
  BY <1>3 DEF RuntimeRole, RoleReady
<1>5. /\ EffectiveBase(c, a) # Blank
      /\ EffectiveKey(c, a) # Blank
  BY DEF RoleReady
<1>6. Connection(rt, a) =
        [base  |-> Or(c.roles[a].base, Or(rt.base, Server)),
         key   |-> Or(c.roles[a].key, Or(rt.key, Server)),
         model |-> Or(RoleModel(c, a), AccountOrRoleModel(rt, a))]
  BY <1>2, <1>4 DEF Connection
<1>7. CASE AccountReady(c)
  <2>1. rt.base = Account /\ rt.key = c.key /\ c.key # Blank /\ Account # Blank
    BY <1>3, <1>7 DEF AccountReady, Account, Blank
  <2> QED
    BY <1>6, <1>7, <2>1 DEF EffectiveBase, EffectiveKey, Or
<1>8. CASE ~AccountReady(c)
  <2>1. c.roles[a].base # Blank /\ c.roles[a].key # Blank
    BY <1>8, OwnConnection
  <2> QED
    BY <1>6, <2>1 DEF EffectiveBase, EffectiveKey, Or
<1> QED
  BY <1>7, <1>8

LEMMA ReadyAccountIsUsed ==
  ASSUME NEW c \in Config, NEW a \in Agents, AccountReady(c)
  PROVE  Connection(RuntimeOf(c), a).key # Server
<1> DEFINE rt == RuntimeOf(c)
<1>1. c # NoConfig
  BY ConfigIsNotNone
<1>2. rt # NoRuntime
  BY <1>1, ReadyIsRuntime DEF IsReady
<1>3. rt.key = c.key /\ rt.roles[a] = RuntimeRole(c, a)
  BY <1>2 DEF RuntimeOf, AccountReady
<1>4. c.key # Blank /\ c.key \in Keys /\ c.roles[a].key \in Keys
  BY DEF AccountReady, Config, Role
<1>5. Server \notin Keys
  BY ConfigAssumption DEF Server, Keys, Blank
<1>6. \/ Connection(rt, a).key = Or(c.roles[a].key, Or(c.key, Server))
      \/ Connection(rt, a).key = Or(c.key, Server)
  BY <1>2, <1>3 DEF Connection, RuntimeRole
<1> QED
  BY <1>4, <1>5, <1>6 DEF Or

-----------------------------------------------------------------------------
(***************************************************************************)
(* The settings: keys.                                                     *)
(***************************************************************************)
Everyone == Agents \union {Account}
NoneCrossed(column) == \A r \in Updates : update[r].at = "done" => column \notin update[r].crossed

\* An update changes a key as the user asked, for every role and the account.
LEMMA UpdatedKeys ==
  ASSUME NEW p \in Payloads, NEW c \in Config, NEW r \in Updates, NEW who \in Everyone
  PROVE  KeyOf(Updated(c, p, r), who) =
           IF PatchFor(p, who).clear THEN Blank
           ELSE IF PatchFor(p, who).typed = "key" THEN r ELSE KeyOf(c, who)
<1>1. Updated(c, p, r) # NoConfig /\ c # NoConfig
  BY UpdatedType, ConfigIsNotNone
<1>2. CASE who = Account
  BY <1>1, <1>2 DEF KeyOf, Updated, PatchFor, KeyAfter
<1>3. CASE who # Account
  <2>1. who \in Agents
    BY <1>3 DEF Everyone
  <2>2. KeyOf(Updated(c, p, r), who) = MergedRoles(c.roles, p, r)[who].key
    BY <1>1, <1>3 DEF KeyOf, Updated
  <2>3. CASE who \in DOMAIN p.roles
    BY <1>1, <1>3, <2>1, <2>2, <2>3 DEF MergedRoles, PatchFor, KeyAfter, KeyOf
  <2>4. CASE who \notin DOMAIN p.roles
    BY <1>1, <1>3, <2>1, <2>2, <2>4 DEF MergedRoles, PatchFor, LeftOut, KeyOf
  <2> QED
    BY <2>3, <2>4
<1> QED
  BY <1>2, <1>3

\* A request changes a column with keys only if it speaks of it.
LEMMA Unspoken ==
  ASSUME NEW p \in Payloads, NEW c \in Config, NEW r \in Updates
  PROVE  /\ ~Speaks(p, "key") => Updated(c, p, r).key = c.key
         /\ ~Speaks(p, "roles") => Updated(c, p, r).roles = c.roles
<1>1. ASSUME ~Speaks(p, "key") PROVE Updated(c, p, r).key = c.key
  BY <1>1 DEF Speaks, Updated, KeyAfter
<1>2. ASSUME ~Speaks(p, "roles") PROVE Updated(c, p, r).roles = c.roles
  <2>1. MergedRoles(c.roles, p, r) = [a \in Agents |-> c.roles[a]]
    BY <1>2 DEF Speaks, MergedRoles
  <2>2. c.roles = [a \in Agents |-> c.roles[a]]
    BY DEF Config
  <2> QED
    BY <2>1, <2>2 DEF Updated
<1> QED
  BY <1>1, <1>2

\* What an update leaves in a column that it has not crossed: what it makes of the
\* column as it is, whoever else has written the rest of the row.
LEMMA WrittenUncrossed ==
  ASSUME NEW p \in Payloads, NEW now \in Config, NEW read \in Config, NEW r \in Updates,
         NEW who \in Everyone, ColumnOf(who) \notin Crossed(now, read, p)
  PROVE  KeyOf(Written(now, read, Updated(read, p, r)), who) = KeyOf(Updated(now, p, r), who)
<1> DEFINE new == Updated(read, p, r)
           row == Written(now, read, new)
<1>1. row # NoConfig /\ Updated(now, p, r) # NoConfig
  BY UpdatedType, WrittenType, ConfigIsNotNone
<1>2. CASE who = Account
  <2>1. KeyOf(row, who) = row.key /\ KeyOf(Updated(now, p, r), who) = Updated(now, p, r).key
    BY <1>1, <1>2 DEF KeyOf
  <2>2. row.key = IF new.key # read.key THEN new.key ELSE now.key
    BY DEF Written
  <2>3. now.key = read.key \/ ~Speaks(p, "key")
    BY <1>2 DEF ColumnOf, Crossed
  <2>4. CASE ~Speaks(p, "key")
    BY <2>1, <2>2, <2>4, Unspoken
  <2>5. CASE now.key = read.key
    BY <2>1, <2>2, <2>5 DEF Updated
  <2> QED
    BY <2>3, <2>4, <2>5
<1>3. CASE who # Account
  <2>1. /\ KeyOf(row, who) = row.roles[who].key
        /\ KeyOf(Updated(now, p, r), who) = Updated(now, p, r).roles[who].key
    BY <1>1, <1>3 DEF KeyOf
  <2>2. row.roles = IF new.roles # read.roles THEN new.roles ELSE now.roles
    BY DEF Written
  <2>3. now.roles = read.roles \/ ~Speaks(p, "roles")
    BY <1>3 DEF ColumnOf, Crossed
  <2>4. CASE ~Speaks(p, "roles")
    BY <2>1, <2>2, <2>4, Unspoken
  <2>5. CASE now.roles = read.roles
    BY <2>1, <2>2, <2>5 DEF Updated
  <2> QED
    BY <2>3, <2>4, <2>5
<1> QED
  BY <1>2, <1>3

\* A new row has no keys.
LEMMA NewConfigKeys ==
  ASSUME NEW who \in Everyone
  PROVE  KeyOf(NewConfig, who) = KeyOf(NoConfig, who)
<1>1. NewConfig # NoConfig
  BY NewConfigType, ConfigIsNotNone
<1> QED
  BY <1>1 DEF KeyOf, NewConfig, NoRole, Everyone

LEMMA UpdateKeepsKeys ==
  ASSUME ConfigInv, KeyAsAsked, NEW r \in Updates, Update(r)
  PROVE  KeyAsAsked'
<1>t. ConfigTypeOK /\ SeenRowStays
  BY DEF ConfigInv
<1>s. SUFFICES ASSUME NEW who \in Everyone, NoneCrossed(ColumnOf(who))'
               PROVE  KeyOf(config', who) = asked'[who]
  BY DEF KeyAsAsked, NoneCrossed, Everyone
<1>1. CASE ReadConfig(r)
  <2>1. config' = config /\ asked' = asked /\ update[r] = Idle
    BY <1>1 DEF ReadConfig
  <2>2. \A q \in Updates : q # r => update'[q] = update[q]
    BY <1>1, <1>t DEF ReadConfig, ConfigTypeOK
  <2>3. NoneCrossed(ColumnOf(who))
    BY <1>s, <2>1, <2>2 DEF NoneCrossed, Idle, ColumnOf
  <2> QED
    BY <2>1, <2>3 DEF KeyAsAsked, NoneCrossed, Everyone
<1>2. CASE CommitConfig(r)
  <2> DEFINE p == update[r].body
             seen == update[r].seen
  <2>p. p \in Payloads /\ update[r].at = "read"
    BY <1>2, <1>t, CommitCases DEF CommitConfig
  <2>1. NoneCrossed(ColumnOf(who))
    <3>1. \E to : Moves(r, to)
      BY <1>2, <1>t, CommitCases
    <3>2. \A q \in Updates : q # r => update'[q] = update[q]
      BY <1>t, <3>1 DEF Moves, ConfigTypeOK
    <3> QED
      BY <1>s, <2>p, <3>2 DEF NoneCrossed, ColumnOf
  <2>2. KeyOf(config, who) = asked[who]
    BY <2>1 DEF KeyAsAsked, NoneCrossed, Everyone
  <2>3. CASE config' = config /\ asked' = asked
    BY <2>2, <2>3
  <2>4. CASE config = NoConfig /\ config' = Updated(NewConfig, p, r) /\ asked' = AskedAfter(p, r)
    BY <2>2, <2>4, <2>p, NewConfigKeys, NewConfigType, UpdatedKeys DEF AskedAfter, Everyone
  <2>5. CASE /\ Moves(r, Over("done", Crossed(config, seen, p))) /\ seen \in Config
             /\ config' = Written(config, seen, Updated(seen, p, r)) /\ asked' = AskedAfter(p, r)
    <3>1. update'[r] = Over("done", Crossed(config, seen, p))
      BY <1>t, <2>5 DEF Moves, ConfigTypeOK
    <3>2. ColumnOf(who) \notin Crossed(config, seen, p)
      <4>1. update'[r].at = "done" /\ update'[r].crossed = Crossed(config, seen, p)
        BY <3>1 DEF Over
      <4>2. ColumnOf(who)' = ColumnOf(who)
        BY DEF ColumnOf
      <4> QED
        BY <1>s, <4>1, <4>2 DEF NoneCrossed
    <3>3. config \in Config
      BY <1>t, <2>5, <2>p, ConfigIsNotNone DEF SeenRowStays, ConfigTypeOK
    <3>4. KeyOf(config', who) = KeyOf(Updated(config, p, r), who)
      BY <2>5, <2>p, <3>2, <3>3, WrittenUncrossed
    <3> QED
      BY <2>2, <2>5, <2>p, <3>3, <3>4, UpdatedKeys DEF AskedAfter, Everyone
  <2> QED
    BY <1>t, <1>2, <2>3, <2>4, <2>5, CommitCases
<1> QED
  BY <1>1, <1>2 DEF Update

-----------------------------------------------------------------------------
(***************************************************************************)
(* The steps of the workflow.                                              *)
(***************************************************************************)
\* The rows of a list are finitely many, have one author, and follow one id.
LEMMA RowsOfOneList ==
  ASSUME NEW list \in Seq(Step), NEW firstId \in Nat, NEW author
  PROVE  LET rows == RowsOf(list, firstId, author)
         IN /\ \A s \in rows : s.by = author /\ s.id - s.order = firstId
            /\ IsFiniteSet(rows)
<1> DEFINE rows == RowsOf(list, firstId, author)
           n == Len(list)
           f == [i \in 1..n |-> [id |-> firstId + i, order |-> i, by |-> author,
                                 code |-> list[i].code, type |-> list[i].type,
                                 group |-> list[i].group]]
<1>1. n \in Nat /\ DOMAIN list = 1..n
  OBVIOUS
<1>2. rows = {f[i] : i \in 1..n}
  BY <1>1 DEF RowsOf
<1>3. \A i \in 1..n : f[i].order = i /\ f[i].by = author /\ f[i].id = firstId + i
  OBVIOUS
<1>4. f \in Bijection(1..n, rows)
  <2>0. \A i \in 1..n : f[i] \in rows
    BY <1>2
  <2>1. f \in [1..n -> rows]
    BY <2>0
  <2>2. \A i, j \in 1..n : f[i] = f[j] => i = j
    BY <1>3
  <2>3. \A s \in rows : \E i \in 1..n : f[i] = s
    BY <1>2
  <2> HIDE DEF f, rows
  <2>4. f \in Injection(1..n, rows)
    BY <2>1, <2>2 DEF Injection, IsInjective
  <2>5. f \in Surjection(1..n, rows)
    BY <2>1, <2>3 DEF Surjection
  <2> QED
    BY <2>4, <2>5 DEF Bijection
<1>5. IsFiniteSet(rows)
  BY <1>1, <1>4, FS_CountingElements, FS_NatBijection DEF ExistsBijection
<1>m. \A s \in rows : \E i \in 1..n : s = f[i]
  BY <1>2
<1>6. \A i \in 1..n : (firstId + i) - i = firstId
  BY <1>1
<1> HIDE DEF f, rows, n
<1>7. \A s \in rows : s.by = author /\ s.id - s.order = firstId
  BY <1>3, <1>6, <1>m
<1> QED
  BY <1>5, <1>7 DEF rows

\* A request that is being served has one of the bodies.
EditInv ==
  /\ edit = [r \in Edits |-> edit[r]]
  /\ \A r \in Edits : edit[r].at = "read" => edit[r].patch \in Patches

LEMMA InitEdit == CatalogInit => EditInv
BY DEF CatalogInit, EditInv, Waiting

LEMMA EditKeepsInv ==
  ASSUME EditInv, NEW r \in Edits, Edit(r)
  PROVE  /\ EditInv'
         /\ edit[r].at # "done"
         /\ \A q \in Edits : q # r => edit'[q] = edit[q]
<1>1. CASE ReadWorkflow(r)
  BY <1>1 DEF ReadWorkflow, EditInv, Waiting
<1>2. CASE Refuse(r)
  BY <1>2 DEF Refuse, EditInv, Ended
<1>3. CASE Save(r)
  BY <1>3 DEF Save, EditInv, Ended
<1>4. CASE Replace(r)
  <2>1. edit[r].at = "read"
    BY <1>4 DEF Replace
  <2>2. \/ edit' = [edit EXCEPT ![r] = Ended("failed")]
        \/ \E list : edit' = [edit EXCEPT ![r] = Replaced(list, steps # edit[r].seen)]
    BY <1>4 DEF Replace
  <2> QED
    BY <2>1, <2>2 DEF EditInv, Ended, Replaced
<1> QED
  BY <1>1, <1>2, <1>3, <1>4 DEF Edit

-----------------------------------------------------------------------------
(***************************************************************************)
(* The catalog: types.  That the next id is a number rests on the ids of   *)
(* the table having a largest one, so on their being bounded.              *)
(***************************************************************************)
\* The least-number principle, for a set.
LEMMA LeastNatural ==
  ASSUME NEW T \in SUBSET Nat, T # {}
  PROVE  \E x \in T : \A y \in T : x <= y
<1> DEFINE R == {ss \in Nat \X Nat : ss[1] < ss[2]}
<1>1. IsWellFoundedOn(R, Nat)
  BY NatLessThanWellFounded DEF OpToRel
<1>2. \A x, y \in Nat : x < y => <<x, y>> \in R
  OBVIOUS
<1> HIDE DEF R
<1>3. PICK x \in T : \A y \in T : ~(<<y, x>> \in R)
  BY <1>1, WFMin, Zenon
<1>4. \A y \in T : ~(y < x)
  BY <1>2, <1>3
<1> QED
  BY <1>4

\* A bounded set of numbers has the largest one that Largest names.
LEMMA LargestOf ==
  ASSUME NEW S \in SUBSET Nat, S # {}, NEW b \in Nat, \A m \in S : m <= b
  PROVE  Largest(S) \in S /\ \A m \in S : m <= Largest(S)
<1> DEFINE Bounds == {n \in Nat : \A m \in S : m <= n}
<1>1. PICK x \in Bounds : \A y \in Bounds : x <= y
  BY LeastNatural
<1>2. x \in Nat /\ \A m \in S : m <= x
  OBVIOUS
<1>3. x \in S
  <2> SUFFICES ASSUME x \notin S PROVE FALSE
    OBVIOUS
  <2>1. \A m \in S : m < x
    BY <1>2
  <2>4. PICK m0 \in S : TRUE
    OBVIOUS
  <2>5. x \in Nat /\ m0 \in Nat /\ m0 < x
    BY <1>2, <2>1
  <2>6. x - 1 \in Nat
    BY <2>5
  <2>7. \A m \in S : m <= x - 1
    BY <1>2, <2>1
  <2>2. x - 1 \in Nat /\ \A m \in S : m <= x - 1
    BY <2>6, <2>7
  <2>3. x - 1 \in Bounds
    BY <2>2
  <2> QED
    BY <1>1, <1>2, <2>3
<1>4. \E n \in S : \A m \in S : m <= n
  BY <1>2, <1>3
<1> QED
  BY <1>4 DEF Largest

IdsBounded == \E b \in Nat : \A s \in steps : s.id <= b
CatalogInv == CatalogTypeOK /\ IdsBounded

\* The id before the next one, whichever rows have been deleted.
LEMMA IdBaseType ==
  ASSUME CatalogInv, NEW kept \in SUBSET steps
  PROVE  IdBase(kept) \in Nat
<1>1. CASE engine # "sqlite"
  BY <1>1 DEF IdBase, CatalogInv, CatalogTypeOK
<1>2. CASE engine = "sqlite"
  <2> DEFINE S == {OtherLast} \union {r.id : r \in kept}
  <2>1. PICK b \in Nat : \A s \in steps : s.id <= b
    BY DEF CatalogInv, IdsBounded
  <2>2. \A r \in kept : r.id \in Nat /\ r.id <= b
    BY <2>1 DEF CatalogInv, CatalogTypeOK, Rows
  <2>3. OtherLast \in Nat
    BY CatalogAssumption
  <2>4. S \in SUBSET Nat /\ S # {}
    BY <2>2, <2>3
  <2>5. OtherLast + b \in Nat /\ \A m \in S : m <= OtherLast + b
    BY <2>2, <2>3
  <2> HIDE DEF S
  <2>6. Largest(S) \in S
    BY <2>4, <2>5, LargestOf
  <2> QED
    BY <1>2, <2>4, <2>6 DEF IdBase, S
<1> QED
  BY <1>1, <1>2

\* The rows of a list, and the largest id among them.
LEMMA RowsOfType ==
  ASSUME NEW list \in Seq(Step), NEW first \in Nat, NEW author \in Edits \union {"shipped"}
  PROVE  /\ RowsOf(list, first, author) \subseteq Rows
         /\ \A s \in RowsOf(list, first, author) : s.id <= first + Len(list)
<1> SUFFICES ASSUME NEW i \in DOMAIN list
             PROVE  LET s == [id |-> first + i, order |-> i, by |-> author, code |-> list[i].code,
                              type |-> list[i].type, group |-> list[i].group]
                    IN s \in Rows /\ s.id <= first + Len(list)
  BY DEF RowsOf
<1>1. i \in 1..Len(list) /\ list[i] \in Step
  OBVIOUS
<1>2. /\ list[i].code \in Codes /\ list[i].type \in {"crew", "tool"} /\ list[i].group \in Groups
      /\ first + i \in Nat \ {0} /\ i \in Nat \ {0} /\ first + i <= first + Len(list)
  BY <1>1 DEF Step
<1> QED
  BY <1>2 DEF Rows

LEMMA InitCatalogInv == CatalogInit => CatalogInv
<1> SUFFICES ASSUME CatalogInit PROVE CatalogInv
  OBVIOUS
<1>1. Shipped \in Seq(Step) /\ OtherLast \in Nat /\ Len(Shipped) \in Nat
  BY CatalogAssumption
<1>2. /\ steps \subseteq Rows
      /\ \A s \in steps : s.id <= OtherLast + Len(Shipped)
  BY <1>1, RowsOfType DEF CatalogInit
<1>3. edit \in [Edits -> EditState]
  BY DEF CatalogInit, EditState
<1>4. OtherLast + Len(Shipped) \in Nat
  BY <1>1
<1> QED
  BY <1>2, <1>3, <1>4 DEF CatalogInit, CatalogInv, CatalogTypeOK, IdsBounded

\* The two ways a request ends.
LEMMA EndedType ==
  /\ \A how \in {"refused", "failed", "done"} : Ended(how) \in EditState
  /\ \A list \in Seq(Step), stale \in BOOLEAN : Replaced(list, stale) \in EditState
<1>1. <<>> \in Seq(Step)
  OBVIOUS
<1> QED
  BY <1>1 DEF Ended, Replaced, EditState

LEMMA EnabledAfterType ==
  ASSUME CatalogInv, NEW r \in Edits, edit[r].at = "read"
  PROVE  EnabledAfter(r) \in BOOLEAN
<1>1. edit[r].wasEnabled \in BOOLEAN
  BY DEF CatalogInv, CatalogTypeOK, EditState, Waiting
<1>2. (~edit[r].wasEnabled) \in BOOLEAN
  BY <1>1
<1>3. enabled \in BOOLEAN
  BY DEF CatalogInv, CatalogTypeOK
<1> QED
  BY <1>2, <1>3, Zenon DEF EnabledAfter

LEMMA EditKeepsCatalogInv ==
  ASSUME CatalogInv, NEW r \in Edits, Edit(r)
  PROVE  CatalogInv'
<1> USE DEF CatalogInv, CatalogTypeOK
<1>e. ASSUME NEW to \in EditState, edit' = [edit EXCEPT ![r] = to]
      PROVE  edit' \in [Edits -> EditState]
  BY <1>e
<1>1. CASE ReadWorkflow(r)
  <2>1. PICK p \in Patches :
          edit' = [edit EXCEPT ![r] = [at |-> "read", patch |-> p,
                                       seen |-> steps, wasEnabled |-> enabled]]
    BY <1>1 DEF ReadWorkflow
  <2>2. [at |-> "read", patch |-> p, seen |-> steps, wasEnabled |-> enabled] \in EditState
    BY DEF EditState
  <2> QED
    BY <1>1, <2>1, <2>2 DEF ReadWorkflow, IdsBounded
<1>2. CASE Refuse(r)
  BY <1>2, <1>e, EndedType DEF Refuse, IdsBounded
<1>3. CASE Save(r)
  BY <1>3, <1>e, EndedType, EnabledAfterType DEF Save, IdsBounded
<1>4. CASE Replace(r)
  <2>0. edit[r].at = "read" /\ engine' = engine /\ edit[r].patch \in Patches
    BY <1>4 DEF Replace, EditState, Waiting
  <2>1. PICK list \in edit[r].patch.steps :
          \/ /\ edit' = [edit EXCEPT ![r] = Ended("failed")]
             /\ UNCHANGED <<steps, enabled>>
             /\ lastId' = IF engine = "mysql" THEN lastId + Len(list) ELSE lastId
          \/ /\ steps' = Kept(r) \union RowsOf(list, IdBase(Kept(r)), r)
             /\ enabled' = EnabledAfter(r)
             /\ edit' = [edit EXCEPT ![r] = Replaced(list, steps # edit[r].seen)]
             /\ lastId' = IF engine = "mysql" THEN lastId + Len(list) ELSE lastId
    BY <1>4 DEF Replace
  <2>2. list \in Seq(Step) /\ Len(list) \in Nat
    BY <2>0, CatalogAssumption
  <2>3. lastId' \in Nat
    <3>1. lastId \in Nat /\ lastId + Len(list) \in Nat
      BY <2>2
    <3>2. lastId' = IF engine = "mysql" THEN lastId + Len(list) ELSE lastId
      BY <2>1
    <3> QED
      BY <3>1, <3>2
  <2>4. (steps # edit[r].seen) \in BOOLEAN
    OBVIOUS
  <2>5. edit' \in [Edits -> EditState]
    <3>1. Ended("failed") \in EditState
      BY EndedType
    <3>2. Replaced(list, steps # edit[r].seen) \in EditState
      BY <2>2, <2>4, EndedType
    <3> QED
      BY <2>1, <3>1, <3>2
  <2>6. CASE UNCHANGED <<steps, enabled>>
    BY <2>0, <2>3, <2>5, <2>6 DEF IdsBounded
  <2>7. CASE /\ steps' = Kept(r) \union RowsOf(list, IdBase(Kept(r)), r)
             /\ enabled' = EnabledAfter(r)
    <3> DEFINE first == IdBase(Kept(r))
               added == RowsOf(list, first, r)
    <3>1. Kept(r) \subseteq steps
      BY DEF Kept
    <3>2. first \in Nat
      BY <3>1, IdBaseType
    <3> HIDE DEF first
    <3>3. added \subseteq Rows /\ \A s \in added : s.id <= first + Len(list)
      BY <2>2, <3>2, RowsOfType
    <3>4. steps' = Kept(r) \union added
      BY <2>7 DEF first
    <3> HIDE DEF added
    <3>5. steps' \subseteq Rows
      BY <3>1, <3>3, <3>4
    <3>6. IdsBounded'
      <4>1. PICK b \in Nat : \A s \in steps : s.id <= b
        BY DEF IdsBounded
      <4>2. first + Len(list) + b \in Nat
        BY <2>2, <3>2
      <4>3. \A s \in steps' : s.id \in Nat
        BY <3>5 DEF Rows
      <4>4. \A s \in steps' : s.id <= first + Len(list) + b
        BY <2>2, <3>1, <3>2, <3>3, <3>4, <4>1, <4>3
      <4> QED
        BY <4>2, <4>4 DEF IdsBounded
    <3>7. enabled' \in BOOLEAN
      BY <2>0, <2>7, EnabledAfterType
    <3> QED
      BY <2>0, <2>3, <2>5, <3>5, <3>6, <3>7
  <2> QED
    BY <2>1, <2>6, <2>7
<1> QED
  BY <1>1, <1>2, <1>3, <1>4 DEF Edit

-----------------------------------------------------------------------------
(***************************************************************************)
(* The catalog: ids.  Ids that are given out again on SQLite are still     *)
(* larger than those of the rows that are left.                            *)
(***************************************************************************)
DistinctIds(S) == \A s, t \in S : s.id = t.id => s = t

TableOK ==
  /\ IsFiniteSet(steps) /\ DistinctIds(steps)
  /\ engine # "sqlite" => \A s \in steps : s.id <= lastId

LEMMA IdBaseAbove ==
  ASSUME CatalogInv, TableOK, NEW kept \in SUBSET steps, NEW s \in kept
  PROVE  s.id <= IdBase(kept)
<1>1. CASE engine # "sqlite"
  BY <1>1 DEF IdBase, TableOK
<1>2. CASE engine = "sqlite"
  <2> DEFINE S == {OtherLast} \union {r.id : r \in kept}
  <2>1. PICK b \in Nat : \A r \in steps : r.id <= b
    BY DEF CatalogInv, IdsBounded
  <2>2. \A r \in kept : r.id \in Nat /\ r.id <= b
    BY <2>1 DEF CatalogInv, CatalogTypeOK, Rows
  <2>3. OtherLast \in Nat
    BY CatalogAssumption
  <2>4. S \in SUBSET Nat /\ S # {} /\ s.id \in S
    BY <2>2, <2>3
  <2>5. OtherLast + b \in Nat /\ \A m \in S : m <= OtherLast + b
    BY <2>2, <2>3
  <2> HIDE DEF S
  <2>6. s.id <= Largest(S)
    BY <2>4, <2>5, LargestOf
  <2> QED
    BY <1>2, <2>6 DEF IdBase, S
<1> QED
  BY <1>1, <1>2

LEMMA RowsOfIds ==
  ASSUME NEW list \in Seq(Step), NEW first \in Nat, NEW author
  PROVE  /\ DistinctIds(RowsOf(list, first, author))
         /\ \A s \in RowsOf(list, first, author) : first < s.id
<1>1. \A s \in RowsOf(list, first, author) : \E i \in 1..Len(list) :
        s = [id |-> first + i, order |-> i, by |-> author, code |-> list[i].code,
             type |-> list[i].type, group |-> list[i].group]
  BY DEF RowsOf
<1>2. ASSUME NEW s \in RowsOf(list, first, author), NEW t \in RowsOf(list, first, author), s.id = t.id
      PROVE  s = t
  <2>1. PICK i \in 1..Len(list) :
          s = [id |-> first + i, order |-> i, by |-> author, code |-> list[i].code,
               type |-> list[i].type, group |-> list[i].group]
    BY <1>1
  <2>2. PICK j \in 1..Len(list) :
          t = [id |-> first + j, order |-> j, by |-> author, code |-> list[j].code,
               type |-> list[j].type, group |-> list[j].group]
    BY <1>1
  <2>3. first + i = first + j /\ i \in Nat /\ j \in Nat
    BY <1>2, <2>1, <2>2
  <2>4. i = j
    BY <2>3
  <2> QED
    BY <2>1, <2>2, <2>4
<1>3. ASSUME NEW s \in RowsOf(list, first, author) PROVE first < s.id
  <2>1. PICK i \in 1..Len(list) : s.id = first + i
    BY <1>1
  <2> QED
    BY <2>1
<1> QED
  BY <1>2, <1>3 DEF DistinctIds

LEMMA InitTable == CatalogInit => TableOK
<1> SUFFICES ASSUME CatalogInit PROVE TableOK
  OBVIOUS
<1>1. Shipped \in Seq(Step) /\ OtherLast \in Nat
  BY CatalogAssumption
<1>2. steps = RowsOf(Shipped, OtherLast, "shipped") /\ lastId = OtherLast + Len(Shipped)
  BY DEF CatalogInit
<1>3. IsFiniteSet(steps)
  BY <1>1, <1>2, RowsOfOneList
<1>4. DistinctIds(steps)
  BY <1>1, <1>2, RowsOfIds
<1>5. \A s \in steps : s.id <= lastId
  BY <1>1, <1>2, RowsOfType
<1> QED
  BY <1>3, <1>4, <1>5 DEF TableOK

LEMMA EditKeepsTable ==
  ASSUME CatalogInv, TableOK, NEW r \in Edits, Edit(r)
  PROVE  TableOK'
<1>1. CASE ReadWorkflow(r) \/ Refuse(r) \/ Save(r)
  BY <1>1 DEF ReadWorkflow, Refuse, Save, TableOK
<1>2. CASE Replace(r)
  <2>0. engine' = engine /\ engine \in {"sqlite", "mysql"} /\ lastId \in Nat /\ edit[r].patch \in Patches
    BY <1>2, CatalogAssumption DEF Replace, CatalogInv, CatalogTypeOK, EditState, Waiting
  <2>1. PICK list \in edit[r].patch.steps :
          /\ \/ steps' = steps
             \/ steps' = Kept(r) \union RowsOf(list, IdBase(Kept(r)), r)
          /\ lastId' = IF engine = "mysql" THEN lastId + Len(list) ELSE lastId
    BY <1>2 DEF Replace
  <2>2. list \in Seq(Step) /\ Len(list) \in Nat
    BY <2>0, CatalogAssumption
  <2>k. Kept(r) \subseteq steps
    BY DEF Kept
  <2>i. \A s \in steps : s.id \in Nat
    BY DEF CatalogInv, CatalogTypeOK, Rows
  <2>3. CASE steps' = steps
    <3>1. lastId <= lastId'
      BY <2>0, <2>1, <2>2
    <3>2. engine # "sqlite" => \A s \in steps : s.id <= lastId'
      BY <2>0, <2>1, <2>2, <2>i, <3>1 DEF TableOK
    <3> QED
      BY <2>0, <2>3, <3>2 DEF TableOK
  <2>4. CASE steps' = Kept(r) \union RowsOf(list, IdBase(Kept(r)), r)
    <3> DEFINE first == IdBase(Kept(r))
               added == RowsOf(list, first, r)
    <3>1. first \in Nat
      BY <2>k, IdBaseType
    <3>2. \A s \in Kept(r) : s.id <= first
      BY <2>k, IdBaseAbove
    <3>m. engine # "sqlite" => first = lastId
      BY DEF IdBase
    <3> HIDE DEF first
    <3>3. IsFiniteSet(added) /\ DistinctIds(added) /\ \A s \in added : first < s.id
      BY <2>2, <3>1, RowsOfOneList, RowsOfIds
    <3>4. added \subseteq Rows /\ \A s \in added : s.id <= first + Len(list)
      BY <2>2, <3>1, RowsOfType
    <3>5. steps' = Kept(r) \union added
      BY <2>4 DEF first
    <3> HIDE DEF added
    <3>6. IsFiniteSet(steps')
      BY <2>k, <3>3, <3>5, FS_Subset, FS_Union DEF TableOK
    <3>7. \A s \in steps' : s.id \in Nat
      BY <2>i, <2>k, <3>4, <3>5 DEF Rows
    <3>8. DistinctIds(steps')
      <4>1. \A s \in Kept(r), t \in added : s.id # t.id
        BY <3>1, <3>2, <3>3, <3>5, <3>7
      <4> QED
        BY <2>k, <3>3, <3>5, <4>1 DEF DistinctIds, TableOK
    <3>9. ASSUME engine # "sqlite", NEW s \in steps' PROVE s.id <= lastId'
      <4>1. lastId' = lastId + Len(list) /\ first = lastId
        BY <2>0, <2>1, <3>m, <3>9
      <4>2. s.id <= first + Len(list)
        BY <2>2, <3>1, <3>2, <3>4, <3>5, <3>7
      <4> QED
        BY <4>1, <4>2
    <3> QED
      BY <2>0, <3>6, <3>8, <3>9 DEF TableOK
  <2> QED
    BY <2>1, <2>3, <2>4
<1> QED
  BY <1>1, <1>2 DEF Edit

-----------------------------------------------------------------------------
(***************************************************************************)
(* The catalog: whole lists.  On MySQL an id says which row it is, of the  *)
(* rows there are and of those a request has read.  A request has read the *)
(* whole of a list or nothing of it, so that is what it deletes.           *)
(***************************************************************************)
By(S, author) == {s \in S : s.by = author}
WholeLists(S) == \A s \in S : By(S, s.by) = RowsOf(ListOf(s.by), s.id - s.order, s.by)

\* The author of a row has done with the table.
Past(author) == author = "shipped" \/ (author \in Edits /\ edit[author].at = "done")

\* What holds of the rows that a request has read.
SeenOK(seen) ==
  /\ WholeLists(seen)
  /\ \A t \in seen : Past(t.by) /\ t.id \in Nat /\ t.id <= lastId
  /\ \A s \in steps, t \in seen : s.id = t.id => s = t

WholeOK ==
  /\ \A s \in steps : Past(s.by)
  /\ ~Overlapped \/ engine = "mysql" => WholeLists(steps)
  /\ ~Overlapped => \A s, t \in steps : s.by = t.by
  /\ engine = "mysql" => \A r \in Edits : edit[r].at = "read" => SeenOK(edit[r].seen)

LEMMA ListIsWhole ==
  ASSUME NEW list \in Seq(Step), NEW first \in Nat, NEW author,
         NEW s \in RowsOf(list, first, author)
  PROVE  By(RowsOf(list, first, author), s.by) = RowsOf(list, s.id - s.order, s.by)
<1> DEFINE rows == RowsOf(list, first, author)
<1>1. \A t \in rows : t.by = author /\ t.id - t.order = first
  BY RowsOfOneList
<1>2. By(rows, author) = rows
  BY <1>1 DEF By
<1> QED
  BY <1>1, <1>2

LEMMA InitWhole == CatalogInit => WholeOK
<1> SUFFICES ASSUME CatalogInit PROVE WholeOK
  OBVIOUS
<1>1. Shipped \in Seq(Step) /\ OtherLast \in Nat /\ ListOf("shipped") = Shipped
  BY CatalogAssumption DEF ListOf
<1>2. steps = RowsOf(Shipped, OtherLast, "shipped") /\ \A r \in Edits : edit[r].at = "waiting"
  BY DEF CatalogInit, Waiting
<1>3. \A s \in steps : s.by = "shipped"
  BY <1>1, <1>2, RowsOfOneList
<1>4. WholeLists(steps)
  BY <1>1, <1>2, <1>3, ListIsWhole DEF WholeLists
<1> QED
  BY <1>2, <1>3, <1>4 DEF WholeOK, Past

\* A request that takes a step leaves the lists that others have stored alone.
LEMMA PastStays ==
  ASSUME EditInv, NEW r \in Edits, Edit(r), NEW author, Past(author)
  PROVE  author # r /\ Past(author)' /\ ListOf(author)' = ListOf(author)
<1>1. CASE author = "shipped"
  BY <1>1, CatalogAssumption DEF ListOf, Past
<1>2. CASE author # "shipped"
  <2>1. author \in Edits /\ edit[author].at = "done"
    BY <1>2 DEF Past
  <2>2. author # r /\ edit'[author] = edit[author]
    BY <2>1, EditKeepsInv
  <2> QED
    BY <1>2, <2>1, <2>2 DEF ListOf, Past
<1> QED
  BY <1>1, <1>2

\* What another request has read stays whole, and the ids of new rows are new.
LEMMA SeenStays ==
  ASSUME EditInv, NEW r \in Edits, Edit(r), NEW q \in Edits \ {r}, SeenOK(edit[q].seen),
         lastId \in Nat, lastId' \in Nat, lastId <= lastId',
         \A s \in steps' : s \in steps \/ (s.id \in Nat /\ lastId < s.id)
  PROVE  SeenOK(edit[q].seen)'
<1>1. edit'[q] = edit[q]
  BY EditKeepsInv
<1>2. \A t \in edit[q].seen : Past(t.by)' /\ ListOf(t.by)' = ListOf(t.by)
  BY PastStays DEF SeenOK
<1>3. WholeLists(edit[q].seen)'
  BY <1>1, <1>2 DEF SeenOK, WholeLists, By
<1>4. \A t \in edit[q].seen : t.id \in Nat /\ t.id <= lastId'
  BY DEF SeenOK
<1>5. ASSUME NEW s \in steps', NEW t \in edit[q].seen, s.id = t.id PROVE s = t
  <2>1. s \in steps
    BY <1>5 DEF SeenOK
  <2> QED
    BY <1>5, <2>1 DEF SeenOK
<1> QED
  BY <1>1, <1>2, <1>3, <1>4, <1>5 DEF SeenOK

\* A request that reads the table reads whole lists.
LEMMA ReadsWhole ==
  ASSUME CatalogInv, TableOK, EditInv, WholeOK, engine = "mysql", NEW r \in Edits, ReadWorkflow(r)
  PROVE  SeenOK(edit[r].seen)'
<1>1. edit'[r].seen = steps /\ steps' = steps /\ lastId' = lastId /\ Edit(r)
  BY DEF ReadWorkflow, EditInv, Edit
<1>2. \A s \in steps : Past(s.by)' /\ ListOf(s.by)' = ListOf(s.by)
  BY <1>1, PastStays DEF WholeOK
<1>3. WholeLists(steps)
  BY DEF WholeOK
<1>4. WholeLists(edit[r].seen)'
  BY <1>1, <1>2, <1>3 DEF WholeLists, By
<1>5. \A s \in steps : s.id \in Nat /\ s.id <= lastId
  BY DEF CatalogInv, CatalogTypeOK, Rows, TableOK
<1>6. DistinctIds(steps)
  BY DEF TableOK
<1> QED
  BY <1>1, <1>2, <1>4, <1>5, <1>6 DEF SeenOK, DistinctIds

\* Of a list that a request has read part of, it deletes everything.
LEMMA KeptWhole ==
  ASSUME WholeLists(steps), NEW r \in Edits, SeenOK(edit[r].seen),
         NEW s \in Kept(r), NEW t \in steps, t.by = s.by
  PROVE  t \in Kept(r)
<1> SUFFICES ASSUME t \notin Kept(r) PROVE FALSE
  OBVIOUS
<1>1. PICK u \in edit[r].seen : u.id = t.id
  BY DEF Kept
<1>2. u = t
  BY <1>1 DEF SeenOK
<1>3. s \in steps /\ \A x \in edit[r].seen : x.id # s.id
  BY DEF Kept
<1>4. By(steps, t.by) = RowsOf(ListOf(t.by), t.id - t.order, t.by)
  BY DEF WholeLists
<1>5. By(edit[r].seen, t.by) = RowsOf(ListOf(t.by), t.id - t.order, t.by)
  BY <1>1, <1>2 DEF SeenOK, WholeLists
<1>6. s \in By(steps, t.by)
  BY <1>3 DEF By
<1>7. s \in edit[r].seen
  BY <1>4, <1>5, <1>6 DEF By
<1> QED
  BY <1>3, <1>7

\* A replacement adds its list to whole lists, or to nothing.
LEMMA ReplacedWhole ==
  ASSUME EditInv, WholeOK, NEW r \in Edits, Replace(r),
         NEW list \in Seq(Step), NEW first \in Nat,
         steps' = Kept(r) \union RowsOf(list, first, r),
         edit'[r] = Replaced(list, steps # edit[r].seen),
         Kept(r) = {} \/ (WholeLists(steps) /\ SeenOK(edit[r].seen))
  PROVE  WholeLists(steps)' /\ \A s \in steps' : Past(s.by)'
<1> DEFINE added == RowsOf(list, first, r)
<1>1. Edit(r) /\ r # "shipped" /\ Kept(r) \subseteq steps
  BY CatalogAssumption DEF Edit, Kept
<1>2. ListOf(r)' = list /\ Past(r)'
  BY <1>1 DEF ListOf, Past, Replaced
<1>3. \A s \in added : s.by = r
  BY RowsOfOneList
<1>4. \A s \in Kept(r) : s.by # r /\ Past(s.by)' /\ ListOf(s.by)' = ListOf(s.by)
  BY <1>1, PastStays DEF WholeOK
<1>5. ASSUME NEW s \in added
      PROVE  By(steps', s.by) = RowsOf(list, s.id - s.order, s.by)
  <2>1. By(steps', r) = By(added, r)
    BY <1>3, <1>4 DEF By
  <2> QED
    BY <1>3, <2>1, ListIsWhole
<1>6. ASSUME NEW s \in Kept(r)
      PROVE  By(steps', s.by) = RowsOf(ListOf(s.by), s.id - s.order, s.by)
  <2>1. WholeLists(steps) /\ SeenOK(edit[r].seen)
    BY <1>6
  <2>2. \A t \in steps : t.by = s.by => t \in Kept(r)
    BY <2>1, KeptWhole
  <2> HIDE DEF added
  <2>3. By(steps', s.by) = By(steps, s.by)
    BY <1>1, <1>3, <1>4, <2>2 DEF By, added
  <2> QED
    BY <1>1, <2>1, <2>3 DEF WholeLists
<1> HIDE DEF added
<1>7. \A s \in steps' : s \in Kept(r) \/ s \in added
  BY DEF added
<1>8. ASSUME NEW s \in steps'
      PROVE  Past(s.by)' /\ By(steps', s.by) = RowsOf(ListOf(s.by)', s.id - s.order, s.by)
  BY <1>2, <1>3, <1>4, <1>5, <1>6, <1>7
<1> QED
  BY <1>8 DEF WholeLists, By

LEMMA ReplaceKeepsWhole ==
  ASSUME CatalogInv, TableOK, EditInv, WholeOK, NEW r \in Edits, Replace(r)
  PROVE  WholeOK'
<1>e. Edit(r) /\ edit[r].at = "read" /\ edit[r].patch \in Patches /\ engine' = engine
  BY DEF Edit, Replace, EditInv
<1>1. PICK list \in edit[r].patch.steps :
        /\ \/ steps' = steps /\ edit' = [edit EXCEPT ![r] = Ended("failed")]
           \/ /\ steps' = Kept(r) \union RowsOf(list, IdBase(Kept(r)), r)
              /\ edit' = [edit EXCEPT ![r] = Replaced(list, steps # edit[r].seen)]
        /\ lastId' = IF engine = "mysql" THEN lastId + Len(list) ELSE lastId
  BY DEF Replace
<1> DEFINE first == IdBase(Kept(r))
           added == RowsOf(list, first, r)
<1>2. list \in Seq(Step) /\ Len(list) \in Nat
  BY <1>e, CatalogAssumption
<1>k. Kept(r) \subseteq steps
  BY DEF Kept
<1>n. first \in Nat /\ lastId \in Nat /\ lastId' \in Nat /\ lastId <= lastId'
  BY <1>k, <1>1, <1>2, IdBaseType DEF CatalogInv, CatalogTypeOK
<1>3. /\ edit'[r].at \in {"failed", "done"}
      /\ \A q \in Edits \ {r} : edit'[q] = edit[q]
  BY <1>e, <1>1 DEF EditInv, Ended, Replaced
<1>4. Overlapped => Overlapped'
  BY <1>e, <1>3 DEF Overlapped
<1>5. ASSUME engine' = "mysql", NEW q \in Edits, edit'[q].at = "read"
      PROVE  SeenOK(edit[q].seen)'
  <2>1. q # r /\ SeenOK(edit[q].seen)
    BY <1>e, <1>3, <1>5 DEF WholeOK
  <2>2. first = lastId
    BY <1>e, <1>5 DEF IdBase
  <2>3. \A s \in added : s \in Rows /\ lastId < s.id
    BY <1>2, <1>n, <2>2, RowsOfIds, RowsOfType
  <2> HIDE DEF first, added
  <2>4. \A s \in steps' : s \in steps \/ s \in added
    BY <1>1, <1>k DEF first, added
  <2>5. \A s \in steps' : s \in steps \/ (s.id \in Nat /\ lastId < s.id)
    BY <2>3, <2>4 DEF Rows
  <2> QED
    BY <1>e, <1>n, <2>1, <2>5, SeenStays
<1>6. CASE steps' = steps /\ edit' = [edit EXCEPT ![r] = Ended("failed")]
  <2>1. \A s \in steps : Past(s.by)' /\ ListOf(s.by)' = ListOf(s.by)
    BY <1>e, PastStays DEF WholeOK
  <2>2. WholeLists(steps) => WholeLists(steps)'
    BY <1>6, <2>1 DEF WholeLists, By
  <2> QED
    BY <1>e, <1>4, <1>5, <1>6, <2>1, <2>2 DEF WholeOK
<1>7. CASE /\ steps' = Kept(r) \union added
           /\ edit' = [edit EXCEPT ![r] = Replaced(list, steps # edit[r].seen)]
  <2>1. edit'[r] = Replaced(list, steps # edit[r].seen)
    BY <1>7 DEF EditInv
  <2>2. edit'[r].at = "done" /\ edit'[r].stale = (steps # edit[r].seen)
    BY <2>1 DEF Replaced
  <2>3. ~Overlapped' => Kept(r) = {}
    BY <2>2 DEF Overlapped, Kept
  <2>4. engine = "mysql" => WholeLists(steps) /\ SeenOK(edit[r].seen)
    BY <1>e DEF WholeOK
  <2>5. \A s \in added : s.by = r
    BY <1>2, <1>n, RowsOfOneList
  <2>6. \A s \in steps' : Past(s.by)'
    <3>1. \A s \in Kept(r) : Past(s.by)'
      BY <1>e, <1>k, PastStays DEF WholeOK
    <3>2. Past(r)'
      BY <2>2 DEF Past
    <3> HIDE DEF added
    <3> QED
      BY <1>7, <2>5, <3>1, <3>2
  <2>7. ~Overlapped' \/ engine' = "mysql" => WholeLists(steps)'
    BY <1>e, <1>2, <1>n, <1>7, <2>1, <2>3, <2>4, ReplacedWhole
  <2>8. ~Overlapped' => \A s, t \in steps' : s.by = t.by
    BY <1>7, <2>3, <2>5
  <2> QED
    BY <1>5, <2>6, <2>7, <2>8 DEF WholeOK
<1> QED
  BY <1>1, <1>6, <1>7

LEMMA EditKeepsWhole ==
  ASSUME CatalogInv, TableOK, EditInv, WholeOK, NEW r \in Edits, Edit(r)
  PROVE  WholeOK'
<1>1. CASE Replace(r)
  BY <1>1, ReplaceKeepsWhole
<1>2. CASE ReadWorkflow(r) \/ Refuse(r) \/ Save(r)
  <2>1. UNCHANGED <<engine, steps, lastId>> /\ lastId \in Nat
    BY <1>2 DEF ReadWorkflow, Refuse, Save, CatalogInv, CatalogTypeOK
  <2>2. Overlapped => Overlapped'
    BY EditKeepsInv DEF Overlapped
  <2>3. \A s \in steps : Past(s.by)' /\ ListOf(s.by)' = ListOf(s.by)
    BY PastStays DEF WholeOK
  <2>4. WholeLists(steps) => WholeLists(steps)'
    BY <2>1, <2>3 DEF WholeLists, By
  <2>5. ASSUME engine' = "mysql", NEW q \in Edits, edit'[q].at = "read"
        PROVE  SeenOK(edit[q].seen)'
    <3>1. CASE q = r
      <4>1. ReadWorkflow(r)
        BY <1>2, <2>5, <3>1 DEF Refuse, Save, EditInv, Ended
      <4> QED
        BY <2>1, <2>5, <3>1, <4>1, ReadsWhole
    <3>2. CASE q # r
      <4>1. SeenOK(edit[q].seen)
        BY <2>1, <2>5, <3>2, EditKeepsInv DEF WholeOK
      <4> QED
        BY <2>1, <3>2, <4>1, SeenStays
    <3> QED
      BY <3>1, <3>2
  <2> QED
    BY <2>1, <2>2, <2>3, <2>4, <2>5 DEF WholeOK
<1> QED
  BY <1>1, <1>2 DEF Edit

-----------------------------------------------------------------------------
(***************************************************************************)
(* _iter_stage_batches, for any list of stages.  A loop is a recursive     *)
(* function, and a recursive function is one that exists and satisfies its *)
(* equation: both are shown with the least-number principle.               *)
(***************************************************************************)
\* The inner loop finds the end of the group: every stage before it is of the
\* group, and the one there is not.
GroupRun(stages, g, from, end) ==
  /\ end \in from..(Len(stages) + 1)
  /\ \A k \in from..(end - 1) : stages[k].group = g
  /\ end <= Len(stages) => stages[end].group # g

LEMMA GroupEndFacts ==
  ASSUME NEW stages \in Seq(Rows), NEW g, NEW from \in 1..(Len(stages) + 1)
  PROVE  GroupRun(stages, g, from, GroupEnd(stages, g, from))
<1> DEFINE N == Len(stages)
           Eqn(f) == f = [k \in 1..(N + 1) |->
                            IF k <= N /\ stages[k].group = g THEN f[k + 1] ELSE k]
           Scan == CHOOSE f : Eqn(f)
<1>n. N \in Nat
  OBVIOUS
<1>1. GroupEnd(stages, g, from) = Scan[from]
  BY DEF GroupEnd
<1>2. \E f : Eqn(f)
  <2> DEFINE Ends(k) == {j \in k..(N + 1) : j = N + 1 \/ stages[j].group # g}
             Min(k) == CHOOSE j \in Ends(k) : \A i \in Ends(k) : j <= i
             f == [k \in 1..(N + 1) |-> Min(k)]
  <2>1. ASSUME NEW k \in 1..(N + 1) PROVE Min(k) \in Ends(k) /\ \A i \in Ends(k) : Min(k) <= i
    <3>1. Ends(k) \in SUBSET Nat /\ N + 1 \in Ends(k)
      BY <1>n
    <3>2. \E j \in Ends(k) : \A i \in Ends(k) : j <= i
      BY <3>1, LeastNatural
    <3> QED
      BY <3>2
  <2>2. ASSUME NEW k \in 1..(N + 1), k <= N, stages[k].group = g PROVE Min(k) = Min(k + 1)
    <3>1. Ends(k) = Ends(k + 1)
      BY <1>n, <2>2
    <3> QED
      BY <3>1
  <2>3. ASSUME NEW k \in 1..(N + 1), ~(k <= N /\ stages[k].group = g) PROVE Min(k) = k
    <3>1. k \in Ends(k)
      BY <1>n, <2>3
    <3> HIDE DEF Min
    <3> QED
      BY <1>n, <2>1, <3>1
  <2> HIDE DEF Min
  <2>4. \A k \in 1..(N + 1) : k <= N => k + 1 \in 1..(N + 1)
    BY <1>n
  <2>5. \A k \in 1..(N + 1) : f[k] = IF k <= N /\ stages[k].group = g THEN f[k + 1] ELSE k
    BY <2>2, <2>3, <2>4
  <2>6. Eqn(f)
    BY <2>5
  <2> QED
    BY <2>6
<1>3. Eqn(Scan)
  BY <1>2
<1> HIDE DEF Scan
<1>4. \A k \in 1..(N + 1) : Scan[k] = IF k <= N /\ stages[k].group = g THEN Scan[k + 1] ELSE k
  BY <1>3
<1>5. \A k \in 1..(N + 1) : GroupRun(stages, g, k, Scan[k])
  <2> DEFINE Bad == {d \in 0..N : ~GroupRun(stages, g, N + 1 - d, Scan[N + 1 - d])}
  <2>1. Bad = {}
    <3> SUFFICES ASSUME Bad # {} PROVE FALSE
      OBVIOUS
    <3>1. PICK d \in Bad : \A y \in Bad : d <= y
      <4>1. Bad \in SUBSET Nat
        BY <1>n
      <4> QED
        BY <4>1, LeastNatural
    <3> DEFINE k == N + 1 - d
    <3>2. k \in 1..(N + 1) /\ d \in 0..N
      BY <1>n
    <3>3. CASE k <= N /\ stages[k].group = g
      <4>1. d - 1 \in 0..N /\ d - 1 \notin Bad /\ N + 1 - (d - 1) = k + 1
        BY <1>n, <3>1, <3>2, <3>3
      <4>2. GroupRun(stages, g, k + 1, Scan[k + 1])
        BY <4>1
      <4>3. Scan[k] = Scan[k + 1]
        BY <1>4, <3>2, <3>3
      <4> HIDE DEF k
      <4>4. GroupRun(stages, g, k, Scan[k])
        BY <1>n, <3>2, <3>3, <4>2, <4>3 DEF GroupRun
      <4> QED
        BY <4>4 DEF k
    <3>4. CASE ~(k <= N /\ stages[k].group = g)
      <4>1. Scan[k] = k
        BY <1>4, <3>2, <3>4
      <4> HIDE DEF k
      <4>2. GroupRun(stages, g, k, Scan[k])
        BY <1>n, <3>2, <3>4, <4>1 DEF GroupRun
      <4> QED
        BY <4>2 DEF k
    <3> QED
      BY <3>3, <3>4
  <2>2. ASSUME NEW k \in 1..(N + 1) PROVE GroupRun(stages, g, k, Scan[k])
    <3>1. N + 1 - k \in 0..N /\ N + 1 - (N + 1 - k) = k
      BY <1>n
    <3> QED
      BY <2>1, <3>1
  <2> QED
    BY <2>2
<1> QED
  BY <1>1, <1>5

\* The stages from..(end - 1) are a batch: one stage, or all of a group that are
\* together there.
Segment(stages, from, end) ==
  /\ from \in 1..Len(stages)
  /\ end \in (from + 1)..(Len(stages) + 1)
  /\ stages[from].group = "" => end = from + 1
  /\ stages[from].group # "" => GroupRun(stages, stages[from].group, from + 1, end)

LEMMA SegmentEnds ==
  ASSUME NEW stages \in Seq(Rows), NEW from, NEW end, Segment(stages, from, end)
  PROVE  /\ from \in Nat /\ end \in Nat /\ Len(stages) \in Nat
         /\ 1 <= from /\ from < end /\ end <= Len(stages) + 1
<1>1. from \in 1..Len(stages) /\ end \in (from + 1)..(Len(stages) + 1)
  BY DEF Segment
<1>2. Len(stages) \in Nat
  OBVIOUS
<1> QED
  BY <1>1, <1>2

After(stages, i) ==
  IF stages[i].group # "" THEN GroupEnd(stages, stages[i].group, i + 1) ELSE i + 1

LEMMA AfterFacts ==
  ASSUME NEW stages \in Seq(Rows), NEW i \in 1..Len(stages)
  PROVE  Segment(stages, i, After(stages, i))
<1>n. Len(stages) \in Nat
  OBVIOUS
<1>1. CASE stages[i].group # ""
  <2>1. i + 1 \in 1..(Len(stages) + 1)
    BY <1>n
  <2>2. GroupRun(stages, stages[i].group, i + 1, After(stages, i))
    BY <1>1, <2>1, GroupEndFacts DEF After
  <2>3. After(stages, i) \in (i + 1)..(Len(stages) + 1)
    BY <2>2 DEF GroupRun
  <2> QED
    BY <1>1, <2>2, <2>3 DEF Segment
<1>2. CASE stages[i].group = ""
  <2>1. After(stages, i) = i + 1
    BY <1>2 DEF After
  <2>2. i + 1 \in (i + 1)..(Len(stages) + 1)
    BY <1>n
  <2> QED
    BY <1>2, <2>1, <2>2 DEF Segment
<1> QED
  BY <1>1, <1>2

\* The batches are the segments between the places where the list is cut.
CutAt(stages, i, B, c) ==
  /\ B \in Seq(Seq(Rows))
  /\ c \in [1..(Len(B) + 1) -> 1..(Len(stages) + 1)]
  /\ c[1] = i /\ c[Len(B) + 1] = Len(stages) + 1
  /\ \A j \in 1..Len(B) : /\ Segment(stages, c[j], c[j + 1])
                          /\ B[j] = SubSeq(stages, c[j], c[j + 1] - 1)

\* One more batch in front of those of the stages after it.
LEMMA CutBefore ==
  ASSUME NEW stages \in Seq(Rows), NEW i \in 1..Len(stages), NEW after, Segment(stages, i, after),
         NEW B, NEW c, CutAt(stages, after, B, c)
  PROVE  \E d : CutAt(stages, i, <<SubSeq(stages, i, after - 1)>> \o B, d)
<1> DEFINE b == SubSeq(stages, i, after - 1)
           C == <<b>> \o B
           d == [j \in 1..(Len(B) + 2) |-> IF j = 1 THEN i ELSE c[j - 1]]
<1>n. Len(stages) \in Nat
  OBVIOUS
<1>1. B \in Seq(Seq(Rows)) /\ Len(B) \in Nat
  BY DEF CutAt
<1>2. b \in Seq(Rows)
  <2>1. i \in Nat /\ after - 1 \in Nat /\ after - 1 <= Len(stages) /\ 1 <= i
    BY SegmentEnds
  <2>2. \A k \in i..(after - 1) : stages[k] \in Rows
    BY <2>1, <1>n
  <2> QED
    BY <2>1, <2>2
<1> HIDE DEF b
<1>3. C \in Seq(Seq(Rows)) /\ Len(C) = Len(B) + 1 /\ C[1] = b
  BY <1>1, <1>2
<1>4. \A j \in 1..Len(B) : C[j + 1] = B[j]
  BY <1>1, <1>2
<1> HIDE DEF C
<1>5. c \in [1..(Len(B) + 1) -> 1..(Len(stages) + 1)] /\ c[1] = after
      /\ c[Len(B) + 1] = Len(stages) + 1
  BY DEF CutAt
<1>6. d[1] = i /\ \A j \in 1..(Len(B) + 1) : d[j + 1] = c[j]
  BY <1>1
<1>7. d \in [1..(Len(C) + 1) -> 1..(Len(stages) + 1)]
  <2>1. \A j \in 1..(Len(B) + 2) : j # 1 => j - 1 \in 1..(Len(B) + 1)
    BY <1>1
  <2> QED
    BY <1>1, <1>n, <1>3, <1>5, <2>1
<1>8. d[Len(C) + 1] = Len(stages) + 1
  BY <1>1, <1>3, <1>5, <1>6
<1> HIDE DEF d
<1>9. ASSUME NEW j \in 1..Len(C)
      PROVE  Segment(stages, d[j], d[j + 1]) /\ C[j] = SubSeq(stages, d[j], d[j + 1] - 1)
  <2>1. CASE j = 1
    <3>1. d[1] = i /\ d[2] = after
      BY <1>1, <1>5, <1>6
    <3>2. C[1] = SubSeq(stages, i, after - 1)
      BY <1>3 DEF b
    <3>3. d[j] = i /\ d[j + 1] = after
      BY <2>1, <3>1
    <3> QED
      BY <2>1, <3>2, <3>3
  <2>2. CASE j # 1
    <3>1. j - 1 \in 1..Len(B) /\ (j - 1) + 1 = j
      BY <1>1, <1>3, <2>2
    <3>2. \A k \in 1..Len(B) : k \in 1..(Len(B) + 1) /\ k + 1 \in 1..(Len(B) + 1)
      BY <1>1
    <3>3. \A k \in 1..Len(B) : d[k + 1] = c[k] /\ d[(k + 1) + 1] = c[k + 1] /\ C[k + 1] = B[k]
      BY <1>4, <1>6, <3>2
    <3>4. d[j] = c[j - 1] /\ d[j + 1] = c[(j - 1) + 1] /\ C[j] = B[j - 1]
      BY <3>1, <3>3
    <3> QED
      BY <3>1, <3>4 DEF CutAt
  <2> QED
    BY <2>1, <2>2
<1>10. CutAt(stages, i, C, d)
  BY <1>3, <1>6, <1>7, <1>8, <1>9 DEF CutAt
<1> QED
  BY <1>10 DEF C, b

\* The outer loop cuts the whole list.
LEMMA StageBatchesCut ==
  ASSUME NEW stages \in Seq(Rows)
  PROVE  \E c : CutAt(stages, 1, StageBatches(stages), c)
<1> DEFINE N == Len(stages)
           Body(f, i) == IF i > N THEN << >>
                         ELSE LET after == IF stages[i].group # ""
                                           THEN GroupEnd(stages, stages[i].group, i + 1)
                                           ELSE i + 1
                              IN <<SubSeq(stages, i, after - 1)>> \o f[after]
           Partial(f, m) == f = [i \in m..(N + 1) |-> Body(f, i)]
           From == CHOOSE f : Partial(f, 1)
<1>n. N \in Nat
  OBVIOUS
<1>1. StageBatches(stages) = From[1]
  BY DEF StageBatches
<1>a. \A i \in 1..N : Segment(stages, i, After(stages, i))
  BY AfterFacts
<1>b. \A f, i : i \in 1..N =>
        Body(f, i) = <<SubSeq(stages, i, After(stages, i) - 1)>> \o f[After(stages, i)]
  <2> TAKE f, i
  <2> HAVE i \in 1..N
  <2>1. ~(i > N)
    BY <1>n
  <2> QED
    BY <2>1 DEF After
<1>c. \A f, i : i = N + 1 => Body(f, i) = << >>
  BY <1>n
<1> HIDE DEF Body
<1>2. \E f : Partial(f, 1)
  <2> DEFINE Bad == {d \in 0..N : ~\E f : Partial(f, N + 1 - d)}
  <2>1. Bad = {}
    <3> SUFFICES ASSUME Bad # {} PROVE FALSE
      OBVIOUS
    <3>1. PICK d \in Bad : \A y \in Bad : d <= y
      <4>1. Bad \in SUBSET Nat
        BY <1>n
      <4> QED
        BY <4>1, LeastNatural
    <3>2. d \in 0..N
      OBVIOUS
    <3>3. CASE d = 0
      <4> DEFINE f == [i \in (N + 1)..(N + 1) |-> << >>]
      <4>1. \A i \in (N + 1)..(N + 1) : Body(f, i) = << >>
        BY <1>c, <1>n
      <4> HIDE DEF f
      <4>2. Partial(f, N + 1)
        BY <4>1 DEF f
      <4>3. N + 1 - 0 = N + 1
        BY <1>n
      <4> QED
        BY <3>1, <3>3, <4>2, <4>3
    <3>4. CASE d # 0
      <4> DEFINE m == N + 1 - d
      <4>1. d - 1 \in 0..N /\ d - 1 \notin Bad /\ N + 1 - (d - 1) = m + 1
        <5>1. d - 1 \in 0..N /\ N + 1 - (d - 1) = m + 1 /\ ~(d <= d - 1)
          BY <1>n, <3>2, <3>4
        <5> QED
          BY <3>1, <5>1
      <4>2. PICK f : Partial(f, m + 1)
        BY <4>1
      <4>3. m \in 1..N
        BY <1>n, <3>2, <3>4
      <4>x. ~\E h : Partial(h, m)
        BY <3>1
      <4> HIDE DEF m
      <4> DEFINE h == [i \in m..(N + 1) |-> IF i = m THEN Body(f, m) ELSE f[i]]
      <4>4. \A i \in (m + 1)..(N + 1) : h[i] = f[i] /\ f[i] = Body(f, i)
        <5>1. \A i \in (m + 1)..(N + 1) : i \in m..(N + 1) /\ i # m
          BY <1>n, <4>3
        <5>2. \A i \in (m + 1)..(N + 1) : f[i] = Body(f, i)
          BY <4>2
        <5> QED
          BY <5>1, <5>2
      <4>5. \A i \in m..N : After(stages, i) \in (m + 1)..(N + 1)
        <5> TAKE i \in m..N
        <5>1. i \in 1..N
          BY <1>n, <4>3
        <5>2. i \in Nat /\ After(stages, i) \in Nat /\ i < After(stages, i) /\ After(stages, i) <= N + 1
          BY <5>1, <1>a, SegmentEnds
        <5> QED
          BY <5>2, <1>n, <4>3
      <4>6. \A i \in m..N : h[After(stages, i)] = f[After(stages, i)]
        BY <4>4, <4>5
      <4>7. \A i \in m..(N + 1) : Body(h, i) = Body(f, i)
        <5> HIDE DEF h
        <5>1. ASSUME NEW i \in m..N PROVE Body(h, i) = Body(f, i)
          <6>1. i \in 1..N
            BY <1>n, <4>3
          <6> QED
            BY <6>1, <4>6, <1>b
        <5>2. Body(h, N + 1) = Body(f, N + 1)
          BY <1>c
        <5>3. \A i \in m..(N + 1) : i \in m..N \/ i = N + 1
          BY <1>n, <4>3
        <5> QED
          BY <5>1, <5>2, <5>3
      <4>8. \A i \in m..(N + 1) : h[i] = Body(h, i)
        <5>1. h[m] = Body(f, m) /\ m \in m..(N + 1)
          BY <1>n, <4>3
        <5>2. \A i \in m..(N + 1) : i = m \/ i \in (m + 1)..(N + 1)
          BY <1>n, <4>3
        <5> HIDE DEF h
        <5> QED
          BY <5>1, <5>2, <4>4, <4>7
      <4>9. h = [i \in m..(N + 1) |-> h[i]]
        OBVIOUS
      <4> HIDE DEF h
      <4>10. Partial(h, m)
        BY <4>8, <4>9
      <4> QED
        BY <4>x, <4>10
    <3> QED
      BY <3>3, <3>4
  <2>2. N \in 0..N /\ N + 1 - N = 1
    BY <1>n
  <2>3. \E f : Partial(f, N + 1 - N)
    BY <2>1, <2>2
  <2> QED
    BY <2>2, <2>3
<1>3. Partial(From, 1)
  BY <1>2
<1> HIDE DEF From
<1>4. \A i \in 1..(N + 1) : From[i] = Body(From, i)
  BY <1>3
<1>5. From[N + 1] = << >> /\ \A i \in 1..N :
        From[i] = <<SubSeq(stages, i, After(stages, i) - 1)>> \o From[After(stages, i)]
  BY <1>n, <1>4, <1>b, <1>c
<1>6. \E c : CutAt(stages, N + 1, From[N + 1], c)
  <2> DEFINE c == [j \in 1..1 |-> N + 1]
  <2>1. << >> \in Seq(Seq(Rows)) /\ Len(<< >>) = 0
    OBVIOUS
  <2>2. CutAt(stages, N + 1, << >>, c)
    BY <1>n, <2>1 DEF CutAt
  <2> QED
    BY <1>5, <2>2
<1>7. ASSUME NEW i \in 1..N, NEW c, CutAt(stages, After(stages, i), From[After(stages, i)], c)
      PROVE  \E d : CutAt(stages, i, From[i], d)
  <2>1. Segment(stages, i, After(stages, i))
    BY <1>a
  <2> HIDE DEF N
  <2>2. \E d : CutAt(stages, i, <<SubSeq(stages, i, After(stages, i) - 1)>> \o From[After(stages, i)], d)
    BY <2>1, <1>7, CutBefore DEF N
  <2> QED
    BY <2>2, <1>5
<1> DEFINE Bad == {d \in 0..N : ~\E c : CutAt(stages, N + 1 - d, From[N + 1 - d], c)}
<1>8. Bad = {}
  <2> SUFFICES ASSUME Bad # {} PROVE FALSE
    OBVIOUS
  <2>1. PICK d \in Bad : \A y \in Bad : d <= y
    <3>1. Bad \in SUBSET Nat
      BY <1>n
    <3> QED
      BY <3>1, LeastNatural
  <2>2. d \in 0..N /\ ~\E c : CutAt(stages, N + 1 - d, From[N + 1 - d], c)
    OBVIOUS
  <2>3. CASE d = 0
    <3>1. N + 1 - d = N + 1
      BY <2>3, <1>n
    <3> QED
      BY <1>6, <2>2, <3>1
  <2>4. CASE d # 0
    <3> DEFINE i == N + 1 - d
               a == After(stages, i)
    <3>1. i \in 1..N
      BY <1>n, <2>2, <2>4
    <3>2. a \in (i + 1)..(N + 1)
      BY <1>a, <3>1 DEF Segment
    <3>3. N + 1 - a \in 0..N /\ N + 1 - a < d /\ N + 1 - (N + 1 - a) = a
      BY <1>n, <2>2, <3>1, <3>2
    <3>4. N + 1 - a \notin Bad
      BY <2>1, <2>2, <3>3, <1>n
    <3> HIDE DEF a, i
    <3>5. \E c : CutAt(stages, a, From[a], c)
      BY <3>3, <3>4
    <3>6. \E c : CutAt(stages, i, From[i], c)
      BY <3>1, <3>5, <1>7 DEF a
    <3> QED
      BY <2>2, <3>6 DEF i
  <2> QED
    BY <2>3, <2>4
<1>9. \E c : CutAt(stages, 1, From[1], c)
  <2>1. N \in 0..N /\ N + 1 - N = 1
    BY <1>n
  <2>2. \E c : CutAt(stages, N + 1 - N, From[N + 1 - N], c)
    BY <1>8, <2>1
  <2> QED
    BY <2>1, <2>2
<1> QED
  BY <1>1, <1>9

\* A batch of the list: its stages are those between its cuts, and there is
\* one, or they are all of one group.
Batch(stages, b, from, end) ==
  /\ from \in 1..Len(stages) /\ end \in (from + 1)..(Len(stages) + 1)
  /\ b \in Seq(Rows) /\ Len(b) = end - from
  /\ \A k \in 1..Len(b) : b[k] = stages[from + k - 1]
  /\ Len(b) > 1 => /\ stages[from].group # ""
                   /\ \A k \in 1..Len(b) : b[k].group = stages[from].group

LEMMA BatchFacts ==
  ASSUME NEW stages \in Seq(Rows), NEW i, NEW B, NEW c, CutAt(stages, i, B, c), NEW j \in 1..Len(B)
  PROVE  Batch(stages, B[j], c[j], c[j + 1])
<1> DEFINE from == c[j]
           end == c[j + 1]
           b == B[j]
<1>1. Segment(stages, from, end) /\ b = SubSeq(stages, from, end - 1)
  BY DEF CutAt
<1> HIDE DEF from, end, b
<1>2. /\ from \in Nat /\ end \in Nat /\ Len(stages) \in Nat
      /\ 1 <= from /\ from < end /\ end <= Len(stages) + 1
  BY <1>1, SegmentEnds
<1>3. \A k \in from..(end - 1) : stages[k] \in Rows
  BY <1>2
<1>4. b \in Seq(Rows) /\ Len(b) = end - from /\ \A k \in 1..(end - from) : b[k] = stages[from + k - 1]
  <2>1. from \in Int /\ end - 1 \in Int /\ from <= end - 1
        /\ (end - 1) - from + 1 = end - from
    BY <1>2
  <2> QED
    BY <1>1, <1>3, <2>1, SubSeqProperties
<1>5. \A k \in 1..Len(b) : b[k] = stages[from + k - 1]
  BY <1>4
<1>6. ASSUME Len(b) > 1
      PROVE  stages[from].group # "" /\ \A k \in 1..Len(b) : b[k].group = stages[from].group
  <2>1. end # from + 1
    BY <1>2, <1>4, <1>6
  <2>2. stages[from].group # "" /\ GroupRun(stages, stages[from].group, from + 1, end)
    BY <1>1, <2>1 DEF Segment
  <2>3. \A k \in (from + 1)..(end - 1) : stages[k].group = stages[from].group
    BY <2>2 DEF GroupRun
  <2>4. ASSUME NEW k \in 1..Len(b) PROVE stages[from + k - 1].group = stages[from].group
    <3>1. from + k - 1 = from \/ from + k - 1 \in (from + 1)..(end - 1)
      BY <1>2, <1>4
    <3> QED
      BY <2>3, <3>1
  <2> QED
    BY <1>5, <2>2, <2>4
<1>7. from \in 1..Len(stages) /\ end \in (from + 1)..(Len(stages) + 1)
  BY <1>2
<1> QED
  BY <1>4, <1>5, <1>6, <1>7 DEF from, end, b, Batch

\* The batches one after the other are the list.
LEMMA BatchesWhole ==
  ASSUME NEW stages \in Seq(Rows), NEW B, NEW c, CutAt(stages, 1, B, c)
  PROVE  LET Whole[i \in 0..Len(B)] == IF i = 0 THEN << >> ELSE Whole[i - 1] \o B[i]
         IN  Whole[Len(B)] = stages
<1> DEFINE L == Len(B)
           N == Len(stages)
           Eqn(f) == f = [i \in 0..L |-> IF i = 0 THEN << >> ELSE f[i - 1] \o B[i]]
           Upto(i) == SubSeq(stages, 1, c[i + 1] - 1)
           W == CHOOSE f : Eqn(f)
<1>n. L \in Nat /\ N \in Nat /\ c[1] = 1 /\ c[L + 1] = N + 1
  BY DEF CutAt
<1>0. Upto(0) = << >>
  BY <1>n, SubSeqEmpty
<1>1. ASSUME NEW i \in 1..L PROVE Upto(i) = Upto(i - 1) \o B[i]
  <2> DEFINE from == c[i]
             end == c[i + 1]
  <2>1. Segment(stages, from, end) /\ B[i] = SubSeq(stages, from, end - 1)
    BY DEF CutAt
  <2>2. (i - 1) + 1 = i
    BY <1>n
  <2> HIDE DEF from, end
  <2>3. /\ from \in Nat /\ end \in Nat /\ 1 <= from /\ from < end /\ end <= N + 1
    BY <2>1, SegmentEnds
  <2>4. SubSeq(stages, 1, from - 1) \o SubSeq(stages, from, end - 1) = SubSeq(stages, 1, end - 1)
    <3>1. 1 \in 1..(N + 1) /\ from - 1 \in (1 - 1)..N /\ end - 1 \in (from - 1)..N /\ (from - 1) + 1 = from
      BY <1>n, <2>3
    <3> HIDE DEF N
    <3>2. SubSeq(stages, 1, from - 1) \o SubSeq(stages, (from - 1) + 1, end - 1) = SubSeq(stages, 1, end - 1)
      BY <3>1, ConcatAdjacentSubSeq DEF N
    <3> QED
      BY <3>1, <3>2
  <2>5. Upto(i) = SubSeq(stages, 1, end - 1) /\ Upto(i - 1) = SubSeq(stages, 1, from - 1)
    BY <2>2 DEF from, end
  <2> QED
    BY <2>1, <2>4, <2>5
<1>2. Upto(L) = stages
  <2>1. c[L + 1] - 1 = N
    BY <1>n
  <2> QED
    BY <2>1, SubSeqFull
<1> HIDE DEF Upto
<1>3. \E f : Eqn(f)
  <2> DEFINE f == [i \in 0..L |-> Upto(i)]
  <2>1. ASSUME NEW i \in 0..L PROVE f[i] = IF i = 0 THEN << >> ELSE f[i - 1] \o B[i]
    <3>1. CASE i = 0
      BY <3>1, <1>0
    <3>2. CASE i # 0
      <4>1. i \in 1..L /\ i - 1 \in 0..L
        BY <1>n, <3>2
      <4> QED
        BY <1>1, <3>2, <4>1
    <3> QED
      BY <3>1, <3>2
  <2>2. f = [i \in 0..L |-> f[i]]
    OBVIOUS
  <2> HIDE DEF f
  <2>3. Eqn(f)
    BY <2>1, <2>2
  <2> QED
    BY <2>3
<1>4. Eqn(W)
  BY <1>3
<1> HIDE DEF W
<1>5. W[0] = << >> /\ \A i \in 1..L : W[i] = W[i - 1] \o B[i]
  <2>1. \A i \in 0..L : W[i] = IF i = 0 THEN << >> ELSE W[i - 1] \o B[i]
    BY <1>4
  <2>2. 0 \in 0..L /\ \A i \in 1..L : i \in 0..L /\ i # 0
    BY <1>n
  <2> QED
    BY <2>1, <2>2
<1>6. W[L] = Upto(L)
  <2> DEFINE Bad == {i \in 0..L : W[i] # Upto(i)}
  <2>1. Bad = {}
    <3> SUFFICES ASSUME Bad # {} PROVE FALSE
      OBVIOUS
    <3>1. PICK i \in Bad : \A y \in Bad : i <= y
      <4>1. Bad \in SUBSET Nat
        BY <1>n
      <4> QED
        BY <4>1, LeastNatural
    <3>2. i # 0
      BY <1>0, <1>5
    <3>3. i \in 1..L /\ i - 1 \in 0..L /\ ~(i <= i - 1)
      BY <1>n, <3>2
    <3>4. W[i - 1] = Upto(i - 1)
      BY <3>1, <3>3
    <3> QED
      BY <1>1, <1>5, <3>3, <3>4
  <2> QED
    BY <2>1, <1>n
<1>7. W[L] = stages
  BY <1>2, <1>6
<1> QED
  BY <1>7 DEF W

\* _iter_stage_batches is right about any list.
IsGroup(b, g) == g # "" /\ \A k \in DOMAIN b : b[k].group = g

LEMMA BatchOfGroup ==
  ASSUME NEW stages \in Seq(Rows), NEW b, NEW from, NEW end, Batch(stages, b, from, end)
  PROVE  /\ Len(b) = 1 \/ (Len(b) > 1 /\ \E g \in Groups : IsGroup(b, g))
         /\ \A g : IsGroup(b, g) => stages[from].group = g
<1> DEFINE n == Len(b)
<1>1. from \in 1..Len(stages) /\ end \in (from + 1)..(Len(stages) + 1) /\ n = end - from
  BY DEF Batch
<1>2. b \in Seq(Rows) /\ \A k \in 1..n : b[k] = stages[from + k - 1]
  BY DEF Batch
<1>3. n > 1 => /\ stages[from].group # ""
               /\ \A k \in 1..n : b[k].group = stages[from].group
  BY DEF Batch
<1>4. DOMAIN b = 1..n
  BY <1>2
<1>l. Len(stages) \in Nat
  OBVIOUS
<1> HIDE DEF n
<1>5. from \in Nat /\ n \in Nat /\ n >= 1
  BY <1>1, <1>l
<1>6. stages[from].group \in Groups
  <2>1. stages[from] \in Rows
    BY <1>1
  <2> QED
    BY <2>1 DEF Rows
<1>7. n = 1 \/ (n > 1 /\ \E g \in Groups : IsGroup(b, g))
  <2>1. n > 1 => IsGroup(b, stages[from].group)
    BY <1>3, <1>4 DEF IsGroup
  <2>2. n = 1 \/ n > 1
    BY <1>5
  <2> QED
    BY <1>6, <2>1, <2>2
<1>8. ASSUME NEW g, IsGroup(b, g) PROVE stages[from].group = g
  <2>1. 1 \in 1..n /\ from + 1 - 1 = from
    BY <1>5
  <2>2. 1 \in DOMAIN b /\ b[1] = stages[from]
    BY <1>2, <1>4, <2>1
  <2> QED
    BY <1>8, <2>2 DEF IsGroup
<1> QED
  BY <1>7, <1>8 DEF n

LEMMA BatchesAreRight ==
  ASSUME flow.stages \in Seq(Rows), flow.batches = StageBatches(flow.stages)
  PROVE  BatchesPartition
<1> DEFINE stages == flow.stages
           B == flow.batches
<1>1. PICK c : CutAt(stages, 1, B, c)
  BY StageBatchesCut
<1>t. stages \in Seq(Rows) /\ Len(stages) \in Nat
  OBVIOUS
<1> HIDE DEF stages, B
<1>n. Len(B) \in Nat /\ DOMAIN B = 1..Len(B)
  BY <1>1 DEF CutAt
<1>2. LET Whole[i \in 0..Len(B)] == IF i = 0 THEN << >> ELSE Whole[i - 1] \o B[i]
      IN  Whole[Len(B)] = stages
  BY <1>1, <1>t, BatchesWhole
<1>3. ASSUME NEW i \in DOMAIN B
      PROVE  Batch(stages, B[i], c[i], c[i + 1])
  BY <1>1, <1>t, <1>n, <1>3, BatchFacts
<1>4. ASSUME NEW i \in DOMAIN B
      PROVE  \/ Len(B[i]) = 1
             \/ Len(B[i]) > 1 /\ \E g \in Groups : IsGroup(B[i], g)
  BY <1>3, <1>t, BatchOfGroup
<1>5. ASSUME NEW i \in 1..(Len(B) - 1), NEW g \in Groups, IsGroup(B[i], g), IsGroup(B[i + 1], g)
      PROVE  FALSE
  <2>1. i \in DOMAIN B /\ i + 1 \in DOMAIN B
    BY <1>n
  <2>2. Batch(stages, B[i], c[i], c[i + 1]) /\ Batch(stages, B[i + 1], c[i + 1], c[(i + 1) + 1])
    BY <1>3, <2>1
  <2>3. stages[c[i]].group = g /\ stages[c[i + 1]].group = g
    BY <1>5, <1>t, <2>2, BatchOfGroup
  <2>4. Segment(stages, c[i], c[i + 1])
    BY <1>1, <1>n, <2>1 DEF CutAt
  <2>5. GroupRun(stages, g, c[i] + 1, c[i + 1])
    BY <1>5, <2>3, <2>4 DEF Segment, IsGroup
  <2>6. c[i + 1] \in 1..Len(stages)
    BY <2>2 DEF Batch
  <2>7. c[i + 1] <= Len(stages)
    BY <1>t, <2>6
  <2> QED
    BY <2>3, <2>5, <2>7 DEF GroupRun
<1> QED
  BY <1>2, <1>4, <1>5 DEF BatchesPartition, IsGroup, stages, B

-----------------------------------------------------------------------------
(***************************************************************************)
(* The steps in order.                                                     *)
(***************************************************************************)
Before(s, t) == s.order < t.order \/ (s.order = t.order /\ s.id < t.id)
Sorted(rows) ==
  {list \in [1..Cardinality(rows) -> rows] :
     \A i, j \in 1..Cardinality(rows) : i < j => Before(list[i], list[j])}

\* Of several rows one comes before all others.
LEMMA FirstRow ==
  ASSUME NEW S \in SUBSET Rows, DistinctIds(S), S # {}
  PROVE  \E m \in S : \A s \in S \ {m} : Before(m, s)
<1> DEFINE Places == {s.order : s \in S}
<1>1. PICK x \in Places : \A y \in Places : x <= y
  <2>1. Places \in SUBSET Nat /\ Places # {}
    BY DEF Rows
  <2> QED
    BY <2>1, LeastNatural
<1> DEFINE Q == {s \in S : s.order = x}
           Ids == {s.id : s \in Q}
<1>2. PICK n \in Ids : \A y \in Ids : n <= y
  <2>1. Ids \in SUBSET Nat /\ Ids # {}
    BY DEF Rows
  <2> QED
    BY <2>1, LeastNatural
<1>3. PICK m \in S : m.order = x /\ m.id = n
  OBVIOUS
<1>4. ASSUME NEW s \in S \ {m} PROVE Before(m, s)
  <2>1. s.order \in Nat /\ s.id \in Nat /\ m.order \in Nat /\ m.id \in Nat
    BY DEF Rows
  <2>2. m.order <= s.order /\ s.id # m.id
    BY <1>1, <1>3 DEF DistinctIds
  <2>3. CASE m.order = s.order
    <3>1. m.id <= s.id
      BY <1>2, <1>3, <2>3
    <3> QED
      BY <2>1, <2>2, <2>3, <3>1 DEF Before
  <2> QED
    BY <2>1, <2>2, <2>3 DEF Before
<1> QED
  BY <1>4

LEMMA SortedExtends ==
  ASSUME NEW S \in SUBSET Rows, IsFiniteSet(S),
         NEW m \in S, \A s \in S \ {m} : Before(m, s), NEW t \in Sorted(S \ {m})
  PROVE  Sorted(S) # {}
<1> DEFINE Q == S \ {m}
           n == Cardinality(Q)
           list == [i \in 1..(n + 1) |-> IF i = 1 THEN m ELSE t[i - 1]]
<1>1. n \in Nat /\ Cardinality(S) = n + 1
  <2>1. IsFiniteSet(Q) /\ n = Cardinality(S) - 1
    BY FS_RemoveElement
  <2>2. n \in Nat /\ Cardinality(S) \in Nat
    BY <2>1, FS_CardinalityType
  <2> QED
    BY <2>1, <2>2
<1>2. t \in [1..n -> Q] /\ \A i, j \in 1..n : i < j => Before(t[i], t[j])
  BY DEF Sorted
<1> HIDE DEF n
<1>3. \A i \in 1..(n + 1) : i # 1 => i - 1 \in 1..n
  BY <1>1
<1>4. list \in [1..(n + 1) -> S]
  BY <1>2, <1>3
<1>5. ASSUME NEW i \in 1..(n + 1), NEW j \in 1..(n + 1), i < j
      PROVE  Before(list[i], list[j])
  <2>1. j # 1 /\ j - 1 \in 1..n
    BY <1>1, <1>5
  <2>2. list[j] = t[j - 1] /\ t[j - 1] \in Q
    BY <1>2, <2>1
  <2>3. CASE i = 1
    BY <2>2, <2>3
  <2>4. CASE i # 1
    <3>1. i - 1 \in 1..n /\ i - 1 < j - 1
      BY <1>1, <1>5, <2>4
    <3> QED
      BY <1>2, <2>1, <2>2, <2>4, <3>1
  <2> QED
    BY <2>3, <2>4
<1> HIDE DEF list
<1>6. list \in Sorted(S)
  BY <1>1, <1>4, <1>5 DEF Sorted
<1> QED
  BY <1>6

LEMMA SortedExists ==
  ASSUME NEW rows \in SUBSET Rows, IsFiniteSet(rows), DistinctIds(rows)
  PROVE  Sorted(rows) # {}
<1> DEFINE Bad(S) == IsFiniteSet(S) /\ DistinctIds(S) /\ Sorted(S) = {}
           Sizes == {k \in Nat : \E S \in SUBSET Rows : Bad(S) /\ Cardinality(S) = k}
<1>1. SUFFICES ASSUME Sorted(rows) = {} PROVE FALSE
  OBVIOUS
<1>2. Sizes # {} /\ Sizes \in SUBSET Nat
  <2>1. Cardinality(rows) \in Nat
    BY FS_CardinalityType
  <2> QED
    BY <1>1, <2>1
<1>3. PICK k \in Sizes : \A y \in Sizes : k <= y
  BY <1>2, LeastNatural
<1>4. PICK S \in SUBSET Rows : Bad(S) /\ Cardinality(S) = k
  OBVIOUS
<1>5. CASE S = {}
  <2>1. Cardinality(S) = 0
    BY <1>5, FS_EmptySet
  <2>2. [i \in 1..0 |-> i] \in Sorted(S)
    BY <1>5, <2>1 DEF Sorted
  <2> QED
    BY <1>4, <2>2
<1>6. CASE S # {}
  <2>1. PICK m \in S : \A s \in S \ {m} : Before(m, s)
    BY <1>4, <1>6, FirstRow
  <2>2. IsFiniteSet(S \ {m}) /\ Cardinality(S \ {m}) = k - 1
    BY <1>4, FS_RemoveElement
  <2>3. Cardinality(S \ {m}) \in Nat
    BY <2>2, FS_CardinalityType
  <2>4. DistinctIds(S \ {m})
    BY <1>4 DEF DistinctIds
  <2>5. Sorted(S \ {m}) # {}
    <3>1. k \in Nat /\ ~(k <= k - 1)
      OBVIOUS
    <3>2. Cardinality(S \ {m}) \notin Sizes
      BY <1>3, <2>2, <3>1
    <3> QED
      BY <2>2, <2>3, <2>4, <3>2
  <2>6. Sorted(S) # {}
    BY <1>4, <2>1, <2>5, SortedExtends
  <2> QED
    BY <1>4, <2>6
<1> QED
  BY <1>5, <1>6

\* The flow's stages are a list of rows.
LEMMA InOrderFacts ==
  ASSUME NEW rows \in SUBSET Rows, IsFiniteSet(rows), DistinctIds(rows)
  PROVE  InOrder(rows) \in Seq(Rows)
<1> DEFINE n == Cardinality(rows)
           list == InOrder(rows)
<1>1. n \in Nat
  BY FS_CardinalityType
<1>2. PICK t \in [1..n -> rows] : \A i, j \in 1..n : i < j => Before(t[i], t[j])
  BY SortedExists DEF Sorted
<1>3. list \in [1..n -> rows]
  <2>1. \A i, j \in DOMAIN t : i < j => \/ t[i].order < t[j].order
                                        \/ t[i].order = t[j].order /\ t[i].id < t[j].id
    BY <1>2 DEF Before
  <2> QED
    BY <2>1 DEF InOrder
<1> HIDE DEF n, list
<1>4. list \in Seq(Rows)
  BY <1>1, <1>3
<1> QED
  BY <1>4 DEF list

-----------------------------------------------------------------------------
(***************************************************************************)
(* The flow under construction.                                            *)
(***************************************************************************)
FlowFields == {"at", "why", "setting", "enabled", "rows", "runtime", "mode", "stages", "batches"}
FlowOK ==
  /\ flow = [f \in FlowFields |-> flow[f]]
  /\ flow.at \in {"start", "template", "steps", "config", "mode", "ready", "refused"}
  /\ flow.mode \in {"", "crewai", "template"}
  /\ flow.at \in {"mode", "ready"} => flow.mode # ""

LEMMA InitFlow == FlowInit => FlowOK
<1> SUFFICES ASSUME FlowInit PROVE FlowOK
  OBVIOUS
<1>1. DOMAIN flow = FlowFields
  BY DEF FlowInit, FlowFields
<1>2. flow.at = "start" /\ flow.mode = ""
  BY DEF FlowInit
<1>3. flow = [f \in DOMAIN flow |-> flow[f]]
  BY DEF FlowInit
<1> QED
  BY <1>1, <1>2, <1>3 DEF FlowOK

\* The step that moves on leaves a flow with the same fields.
LEMMA RefusedFlow ==
  ASSUME FlowOK, NEW why, flow' = Refused(why) PROVE FlowOK'
BY DEF FlowOK, Refused, FlowFields

LEMMA FlowStepOK ==
  ASSUME FlowOK, FlowStep PROVE FlowOK'
<1>1. CASE LoadTemplate
  BY <1>1 DEF LoadTemplate, FlowOK, FlowFields
<1>2. CASE LoadSteps
  <2>1. CASE flow' = [flow EXCEPT !.at = "steps", !.rows = steps]
    BY <2>1 DEF FlowOK, FlowFields
  <2> QED
    BY <1>2, <2>1, RefusedFlow DEF LoadSteps
<1>3. CASE LoadRuntimeConfig
  BY <1>3 DEF LoadRuntimeConfig, FlowOK, FlowFields
<1>4. CASE ResolveMode
  <2>1. PICK kind \in Kinds, setting \in Settings, server \in BOOLEAN :
          \/ flow' = [flow EXCEPT !.at = "mode", !.mode = "template"]
          \/ flow' = [flow EXCEPT !.at = "mode", !.mode = "crewai"]
          \/ flow' = [Refused("connection") EXCEPT !.setting = setting]
    BY <1>4 DEF ResolveMode
  <2> QED
    BY <2>1 DEF FlowOK, Refused, FlowFields
<1>5. CASE BuildStages
  <2>1. CASE flow' = Refused("step")
    BY <2>1, RefusedFlow
  <2>2. CASE flow' # Refused("step")
    <3> DEFINE stages == InOrder(flow.rows)
    <3>1. flow.at = "mode" /\ flow' = [flow EXCEPT !.at = "ready", !.stages = stages,
                                                    !.batches = StageBatches(stages)]
      BY <1>5, <2>2 DEF BuildStages
    <3> HIDE DEF stages
    <3> QED
      BY <3>1 DEF FlowOK, FlowFields
  <2> QED
    BY <2>1, <2>2
<1> QED
  BY <1>1, <1>2, <1>3, <1>4, <1>5 DEF FlowStep

\* The rows the flow has loaded are a state of the table, and what it is ready
\* with was made of them.
LoadedOK ==
  /\ flow.rows \subseteq Rows /\ IsFiniteSet(flow.rows) /\ DistinctIds(flow.rows)
  /\ flow.at = "ready" => flow.stages \in Seq(Rows) /\ flow.batches = StageBatches(flow.stages)

LEMMA InitLoaded == FlowInit => LoadedOK
<1> SUFFICES ASSUME FlowInit PROVE LoadedOK
  OBVIOUS
<1>1. flow.rows = {} /\ flow.at = "start"
  BY DEF FlowInit
<1> QED
  BY <1>1, FS_EmptySet DEF LoadedOK, DistinctIds

LEMMA FlowStepLoaded ==
  ASSUME FlowOK, LoadedOK, CatalogTypeOK, TableOK, FlowStep PROVE LoadedOK'
<1>d. DOMAIN flow = FlowFields
  BY DEF FlowOK
<1>k. ASSUME flow'.rows = flow.rows, flow'.at # "ready" PROVE LoadedOK'
  BY <1>k DEF LoadedOK
<1>r. ASSUME NEW why, flow' = Refused(why) PROVE LoadedOK'
  BY <1>r, <1>d, <1>k DEF Refused, FlowFields
<1>1. CASE LoadTemplate
  BY <1>1, <1>d, <1>k DEF LoadTemplate, FlowFields
<1>2. CASE LoadSteps
  <2>1. CASE flow' = [flow EXCEPT !.at = "steps", !.rows = steps]
    <3>1. flow'.rows = steps /\ flow'.at = "steps"
      BY <2>1, <1>d DEF FlowFields
    <3> QED
      BY <3>1 DEF LoadedOK, CatalogTypeOK, TableOK
  <2> QED
    BY <1>2, <2>1, <1>r DEF LoadSteps
<1>3. CASE LoadRuntimeConfig
  BY <1>3, <1>d, <1>k DEF LoadRuntimeConfig, FlowFields
<1>4. CASE ResolveMode
  <2>1. PICK kind \in Kinds, setting \in Settings, server \in BOOLEAN :
          \/ flow' = [flow EXCEPT !.at = "mode", !.mode = "template"]
          \/ flow' = [flow EXCEPT !.at = "mode", !.mode = "crewai"]
          \/ flow' = [Refused("connection") EXCEPT !.setting = setting]
    BY <1>4 DEF ResolveMode
  <2>2. flow'.rows = flow.rows /\ flow'.at # "ready"
    BY <2>1, <1>d DEF Refused, FlowFields
  <2> QED
    BY <2>2, <1>k
<1>5. CASE BuildStages
  <2>1. CASE flow' = Refused("step")
    BY <2>1, <1>r
  <2>2. CASE flow' # Refused("step")
    <3> DEFINE stages == InOrder(flow.rows)
    <3>1. flow' = [flow EXCEPT !.at = "ready", !.stages = stages,
                               !.batches = StageBatches(stages)]
      BY <1>5, <2>2 DEF BuildStages
    <3>2. stages \in Seq(Rows)
      BY InOrderFacts DEF LoadedOK
    <3> HIDE DEF stages
    <3>3. flow'.rows = flow.rows /\ flow'.stages = stages /\ flow'.batches = StageBatches(stages)
      BY <3>1, <1>d DEF FlowFields
    <3> QED
      BY <3>2, <3>3 DEF LoadedOK
  <2> QED
    BY <2>1, <2>2
<1> QED
  BY <1>1, <1>2, <1>3, <1>4, <1>5 DEF FlowStep

-----------------------------------------------------------------------------
SetupInv ==
  /\ ConfigInv /\ KeyAsAsked
  /\ CatalogInv /\ TableOK /\ EditInv /\ WholeOK
  /\ FlowOK /\ LoadedOK

LEMMA SetupInduction == Spec => []SetupInv
<1>1. Init => SetupInv
  <2>1. ConfigInit => KeyAsAsked
    BY DEF ConfigInit, KeyAsAsked
  <2> QED
    BY <2>1, InitConfigInv, InitCatalogInv, InitTable, InitEdit, InitWhole, InitFlow, InitLoaded DEF Init, SetupInv
<1>2. SetupInv /\ [Next]_vars => SetupInv'
  <2> SUFFICES ASSUME SetupInv, [Next]_vars PROVE SetupInv'
    OBVIOUS
  <2>s. ConfigInv /\ KeyAsAsked /\ CatalogInv /\ TableOK /\ EditInv /\ WholeOK
      /\ FlowOK /\ LoadedOK
    BY DEF SetupInv
  <2>c. ASSUME UNCHANGED configVars PROVE (ConfigInv /\ KeyAsAsked)'
    BY <2>s, <2>c DEF configVars, ConfigInv, ConfigTypeOK, SeenRowStays, KeyAsAsked
  <2>e. ASSUME UNCHANGED catalogVars PROVE (CatalogInv /\ TableOK /\ EditInv /\ WholeOK)'
    BY <2>s, <2>e DEF catalogVars, CatalogInv, CatalogTypeOK, IdsBounded, TableOK, EditInv,
                      WholeOK, SeenOK, WholeLists, By, ListOf, Past, Overlapped
  <2>f. ASSUME UNCHANGED flow PROVE (FlowOK /\ LoadedOK)'
    BY <2>s, <2>f DEF FlowOK, LoadedOK
  <2>1. CASE FlowStep /\ UNCHANGED <<catalogVars, configVars>>
    BY <2>s, <2>1, <2>c, <2>e, FlowStepOK, FlowStepLoaded DEF SetupInv, CatalogInv
  <2>2. ASSUME NEW r \in Edits, Edit(r), UNCHANGED <<configVars, flow>>
        PROVE  SetupInv'
    BY <2>s, <2>2, <2>c, <2>f, EditKeepsCatalogInv, EditKeepsTable, EditKeepsInv, EditKeepsWhole DEF SetupInv
  <2>3. ASSUME NEW r \in Updates, Update(r), UNCHANGED <<catalogVars, flow>>
        PROVE  SetupInv'
    BY <2>s, <2>3, <2>e, <2>f, UpdateKeepsConfigInv, UpdateKeepsKeys DEF SetupInv
  <2>4. CASE UNCHANGED vars
    BY <2>4, <2>c, <2>e, <2>f DEF vars, SetupInv
  <2> QED
    BY <2>1, <2>2, <2>3, <2>4 DEF Next
<1> QED
  BY <1>1, <1>2, PTL DEF Spec

\* The tables, the requests and the flow under construction have values of
\* their types: in particular every step has a positive id, although on SQLite
\* the next id is computed from the rows that happen to be left, and a flow
\* past _resolve_runtime_mode has a mode.
THEOREM SetupTypeCorrect == Spec => []TypeOK
<1>1. SetupInv => TypeOK
  BY DEF SetupInv, ConfigInv, CatalogInv, FlowOK, TypeOK
<1> QED
  BY <1>1, SetupInduction, PTL

\* A key stays until it is typed again or cleared, for any number of updates
\* with any bodies (LLMConfigService.update_user_config).
THEOREM KeysCorrect == Spec => []KeyAsAsked
BY SetupInduction, PTL DEF SetupInv

\* The page calls the settings ready exactly when a run would use them
\* (_build_response, get_runtime_config_for_user).
THEOREM ReadyCorrect == Spec => []ReadyIffRuntime
<1>1. SetupInv => ReadyIffRuntime
  BY ReadyIsRuntime DEF SetupInv, ConfigInv, ConfigTypeOK, ReadyIffRuntime
<1> QED
  BY <1>1, SetupInduction, PTL

\* A stage of a role that is ready is run with what the page shows for it
\* (_build_available_roles, CrewAIStageRunner.resolve_runtime_settings).
THEOREM RolesCorrect == Spec => []RoleSettingsAreUsed
<1>1. SetupInv => RoleSettingsAreUsed
  <2> SUFFICES ASSUME SetupInv, config # NoConfig, NEW a \in Agents
               PROVE  LET used == Connection(RuntimeOf(config), a)
                      IN /\ RoleReady(config, a) =>
                              /\ used.base = EffectiveBase(config, a)
                              /\ used.key = EffectiveKey(config, a)
                              /\ RoleModel(config, a) # Blank => used.model = RoleModel(config, a)
                         /\ AccountReady(config) => used.key # Server
    BY DEF RoleSettingsAreUsed
  <2>1. config \in Config
    BY DEF SetupInv, ConfigInv, ConfigTypeOK
  <2> QED
    BY <2>1, ReadyRoleIsUsed, ReadyAccountIsUsed
<1> QED
  BY <1>1, SetupInduction, PTL

\* The steps of a workflow are the whole list of one request, unless two
\* replacements overlapped, and whole lists on MySQL whatever overlapped
\* (CatalogService._replace_workflow_steps).
THEOREM StepsCorrect == Spec => []StepsOfOneRequest
<1>1. SetupInv => StepsOfOneRequest
  BY DEF SetupInv, WholeOK, WholeLists, By, StepsBy, StepsOfOneRequest
<1> QED
  BY <1>1, SetupInduction, PTL

\* The batches of a flow that is ready are, one after the other, its list of
\* stages, each is one stage or neighbours of one group, and no group is split
\* that is together in the list (_iter_stage_batches), whatever lists the
\* requests have stored.
THEOREM BatchesCorrect == Spec => []BatchesPartition
<1>1. SetupInv => BatchesPartition
  <2>1. flow.at # "ready" => BatchesPartition
    BY DEF BatchesPartition
  <2> QED
    BY <2>1, BatchesAreRight DEF SetupInv, LoadedOK
<1> QED
  BY <1>1, SetupInduction, PTL
=============================================================================
