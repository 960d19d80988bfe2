------------------------------ MODULE LLMConfig ------------------------------
(***************************************************************************)
(* A user's connection settings (LLMConfigService): one row with the       *)
(* account's connection, the models that older versions stored per role    *)
(* and the connections that override the account's for a role.  Requests   *)
(* update parts of it, the page shows what they amount to, and a run takes *)
(* from them the connection of each stage (CrewAIStageRunner).             *)
(*                                                                         *)
(* A request reads the row once and commits once; between the two, others  *)
(* may commit.                                                             *)
(***************************************************************************)
EXTENDS Naturals, FiniteSets

CONSTANTS
  Agents,   \* agent_code of the roles in the catalog
  Updates,  \* PUT /llm-config requests; the keys typed in one are named after it
  Payloads, \* their bodies: an optional field is {} or {v}
  Stored    \* the rows older versions may have left

\* A base_url, a model or a key that is blank; the connection of the server's
\* environment; the connection of the account.
Blank == "blank"
Server == "server"
Account == "account"

BaseURLs == {Blank, "url"}
Models == {Blank, "model"}
Keys == {Blank, "old"} \union Updates

NoConfig == [none |-> TRUE]
Role == [on : BOOLEAN, base : BaseURLs, key : Keys, model : Models]
\* A role that was never stored is one of which everything is blank
\* (_normalize_stored_agent_runtime_overrides drops such an entry).
NoRole == [on |-> FALSE, base |-> Blank, key |-> Blank, model |-> Blank]
Config == [enabled : BOOLEAN, key : Keys, model : Models,
           legacy : [Agents -> Models], roles : [Agents -> Role]]
NewConfig == [enabled |-> TRUE, key |-> Blank, model |-> "model",
              legacy |-> [a \in Agents |-> Blank], roles |-> [a \in Agents |-> NoRole]]

\* A key field: left out, typed (maybe as blanks only), and the clear flag.
KeyPatch == [clear : BOOLEAN, typed : {"no", "blank", "key"}]
RolePatch == [on : BOOLEAN, base : SUBSET BaseURLs, model : SUBSET Models, key : KeyPatch]
LeftOut == [clear |-> FALSE, typed |-> "no"]

ASSUME ConfigAssumption ==
  /\ {Blank, "old", Server} \intersect Updates = {}
  /\ Account \notin Agents
  /\ \A p \in Payloads :
       /\ p.enabled \subseteq BOOLEAN
       /\ p.model \subseteq Models
       /\ p.key \in KeyPatch
       /\ p.legacy \subseteq [Agents -> Models]
       /\ DOMAIN p.roles \subseteq Agents
       /\ \A a \in DOMAIN p.roles : p.roles[a] \in RolePatch
  /\ Stored \subseteq {NoConfig} \union Config

VARIABLES
  config,  \* the user_llm_configs row
  update,  \* where each request is in its code
  asked    \* the key last typed or cleared for each role and the account

configVars == <<config, update, asked>>

-----------------------------------------------------------------------------
(***************************************************************************)
(* What an update makes of the row it read.                                *)
(***************************************************************************)
Given(field, old) == IF field = {} THEN old ELSE CHOOSE v \in field : TRUE

\* Mutant: a field of blanks overwrites the key.
KeyAfterBlank(patch, old, r) ==
  IF patch.clear \/ patch.typed = "blank" THEN Blank ELSE IF patch.typed = "key" THEN r ELSE old

\* "clear" beats a typed key; what is left out or blank keeps the stored one.
KeyAfter(patch, old, r) ==
  IF patch.clear THEN Blank ELSE IF patch.typed = "key" THEN r ELSE old

\* Mutant: the roles that are not named are dropped.
OnlyNamedRoles(roles, p, r) ==
  [a \in DOMAIN p.roles |->
     [on |-> p.roles[a].on, base |-> Given(p.roles[a].base, roles[a].base),
      key |-> KeyAfter(p.roles[a].key, roles[a].key, r),
      model |-> Given(p.roles[a].model, roles[a].model)]]

\* _merge_agent_runtime_overrides: a role that is not named keeps its entry,
\* one that is named gets its switch from the payload, where it is never absent.
MergedRoles(roles, p, r) ==
  [a \in Agents |->
     IF a \notin DOMAIN p.roles THEN roles[a]
     ELSE LET q == p.roles[a]
          IN [on |-> q.on, base |-> Given(q.base, roles[a].base),
              key |-> KeyAfter(q.key, roles[a].key, r),
              model |-> Given(q.model, roles[a].model)]]

\* The models of older versions are replaced if given, and a role that is
\* named loses the one it has.
LegacyAfter(legacy, p) ==
  [a \in Agents |-> IF a \in DOMAIN p.roles THEN Blank ELSE Given(p.legacy, legacy)[a]]

Updated(c, p, r) ==
  [enabled |-> Given(p.enabled, c.enabled),
   key     |-> KeyAfter(p.key, c.key, r),
   model   |-> Given(p.model, c.model),
   legacy  |-> LegacyAfter(c.legacy, p),
   roles   |-> MergedRoles(c.roles, p, r)]

\* The row after an UPDATE: only the columns that the request changed are
\* written, legacy and roles as a whole.
Written(now, read, new) ==
  [enabled |-> IF new.enabled # read.enabled THEN new.enabled ELSE now.enabled,
   key     |-> IF new.key # read.key THEN new.key ELSE now.key,
   model   |-> IF new.model # read.model THEN new.model ELSE now.model,
   legacy  |-> IF new.legacy # read.legacy THEN new.legacy ELSE now.legacy,
   roles   |-> IF new.roles # read.roles THEN new.roles ELSE now.roles]

\* The keys the user has asked for once the request is done.
PatchFor(p, who) ==
  IF who = Account THEN p.key
  ELSE IF who \in DOMAIN p.roles THEN p.roles[who].key ELSE LeftOut
AskedAfter(p, r) ==
  [who \in Agents \union {Account} |->
     IF PatchFor(p, who).clear THEN Blank
     ELSE IF PatchFor(p, who).typed = "key" THEN r ELSE asked[who]]

-----------------------------------------------------------------------------
Idle == [at |-> "idle"]
\* crossed are the columns with keys that the request spoke of and another one
\* had changed since it read them (nothing in the code reads it).
Over(how, crossed) == [at |-> how, crossed |-> crossed]
Request == {Idle} \union [at : {"read"}, body : Payloads, seen : {NoConfig} \union Config]
             \union [at : {"done", "failed"}, crossed : SUBSET {"key", "roles"}]

Speaks(p, column) ==
  IF column = "key" THEN p.key.clear \/ p.key.typed = "key" ELSE DOMAIN p.roles # {}
Crossed(now, read, p) == {f \in {"key", "roles"} : now[f] # read[f] /\ Speaks(p, f)}

KeyOf(c, who) ==
  IF c = NoConfig THEN Blank ELSE IF who = Account THEN c.key ELSE c.roles[who].key

ConfigInit ==
  /\ config \in Stored
  /\ update = [r \in Updates |-> Idle]
  /\ asked = [who \in Agents \union {Account} |-> KeyOf(config, who)]

ReadConfig(r) ==
  /\ update[r] = Idle
  /\ \E p \in Payloads : update' = [update EXCEPT ![r] = [at |-> "read", body |-> p, seen |-> config]]
  /\ UNCHANGED <<config, asked>>

\* The row is inserted by a request that found none, and updated by one that did.
CommitConfig(r) ==
  /\ update[r].at = "read"
  /\ LET p == update[r].body
         seen == update[r].seen
     IN \/ /\ seen = NoConfig
           /\ config # NoConfig        \* uq_user_llm_config_user_id
           /\ update' = [update EXCEPT ![r] = Over("failed", {})]
           /\ UNCHANGED <<config, asked>>
        \/ /\ seen = NoConfig
           /\ config = NoConfig
           /\ config' = Updated(NewConfig, p, r)
           /\ asked' = AskedAfter(p, r)
           /\ update' = [update EXCEPT ![r] = Over("done", {})]
        \/ /\ seen # NoConfig
           /\ config' = Written(config, seen, Updated(seen, p, r))
           /\ asked' = AskedAfter(p, r)
           /\ update' = [update EXCEPT ![r] = Over("done", Crossed(config, seen, p))]

Update(r) == ReadConfig(r) \/ CommitConfig(r)

-----------------------------------------------------------------------------
(***************************************************************************)
(* What the page shows of a row (_build_response).                         *)
(***************************************************************************)
Or(x, y) == IF x # Blank THEN x ELSE y

\* The account's own connection is usable; its base_url is never blank.
AccountReady(c) == c.enabled /\ c.key # Blank

\* A role's own connection is switched on, or it only has an older version's model.
RoleOn(c, a) == c.roles[a].on \/ (c.legacy[a] # Blank /\ c.roles[a] = NoRole)

RoleModel(c, a) == Or(c.roles[a].model, c.legacy[a])
EffectiveBase(c, a) == Or(c.roles[a].base, IF AccountReady(c) THEN Account ELSE Blank)
EffectiveKey(c, a) == Or(c.roles[a].key, IF AccountReady(c) THEN c.key ELSE Blank)

\* is_ready of a role (there always is a model) and of the whole.
RoleReady(c, a) ==
  RoleOn(c, a) /\ EffectiveBase(c, a) # Blank /\ EffectiveKey(c, a) # Blank
IsReady(c) ==
  c # NoConfig /\ (AccountReady(c) \/ \E a \in Agents : RoleReady(c, a))

(***************************************************************************)
(* What a run takes from it (get_runtime_config_for_user).                 *)
(***************************************************************************)
NoRuntime == [none |-> TRUE]

RuntimeRole(c, a) ==
  [on |-> RoleOn(c, a), base |-> c.roles[a].base, key |-> c.roles[a].key,
   model |-> RoleModel(c, a)]

\* Mutant: a role's connection counts although it is switched off.
RuntimeOfAnyRole(c) ==
  IF c = NoConfig \/ (~AccountReady(c) /\ \A a \in Agents : Blank \in {c.roles[a].base, c.roles[a].key})
  THEN NoRuntime ELSE [roles |-> [a \in Agents |-> RuntimeRole(c, a)]]

RuntimeOf(c) ==
  IF \/ c = NoConfig
     \/ /\ ~AccountReady(c)
        /\ \A a \in Agents : LET o == RuntimeRole(c, a)
                             IN ~(o.on /\ o.base # Blank /\ o.key # Blank)
  THEN NoRuntime
  ELSE [base   |-> IF c.enabled THEN Account ELSE Blank,
        key    |-> IF c.enabled THEN c.key ELSE Blank,
        model  |-> IF c.enabled THEN c.model ELSE Blank,
        legacy |-> c.legacy,
        roles  |-> [a \in Agents |-> RuntimeRole(c, a)]]

\* The connection of a role's stages (resolve_runtime_settings): each part
\* from the role if it has its own, else the account, else the server.
AccountOrRoleModel(rt, a) ==
  IF rt = NoRuntime THEN Server ELSE Or(rt.legacy[a], Or(rt.model, Server))

\* Mutant: a role that is switched on does not fall back to the account.
ConnectionOwnOnly(rt, a) ==
  IF rt = NoRuntime THEN [base |-> Server, key |-> Server, model |-> Server]
  ELSE LET own == rt.roles[a]
       IN [base  |-> IF own.on THEN Or(own.base, Server) ELSE Or(rt.base, Server),
           key   |-> IF own.on THEN Or(own.key, Server) ELSE Or(rt.key, Server),
           model |-> Or(own.model, AccountOrRoleModel(rt, a))]

Connection(rt, a) ==
  IF rt = NoRuntime THEN [base |-> Server, key |-> Server, model |-> Server]
  ELSE IF rt.roles[a].on
  THEN [base  |-> Or(rt.roles[a].base, Or(rt.base, Server)),
        key   |-> Or(rt.roles[a].key, Or(rt.key, Server)),
        model |-> Or(rt.roles[a].model, AccountOrRoleModel(rt, a))]
  ELSE [base  |-> Or(rt.base, Server), key |-> Or(rt.key, Server),
        model |-> AccountOrRoleModel(rt, a)]

-----------------------------------------------------------------------------
\* The values of the row and of the requests.
ConfigTypeOK ==
  /\ config \in {NoConfig} \union Config
  /\ asked \in [Agents \union {Account} -> Keys]
  /\ update \in [Updates -> Request]

\* The page and the runs decide by different code whether there is a usable
\* connection (_build_response over the effective values of the roles,
\* get_runtime_config_for_user over what they have of their own): they agree
\* on every row that updates can leave.
ReadyIffRuntime == IsReady(config) <=> RuntimeOf(config) # NoRuntime

\* A role that the page calls ready is run with the connection the page has it
\* ready for, and with the model the page shows for it; and an account that is
\* ready never leaves a stage to the server's key (_build_available_roles,
\* resolve_runtime_settings).
RoleSettingsAreUsed ==
  config # NoConfig =>
    \A a \in Agents :
      LET used == Connection(RuntimeOf(config), a)
      IN /\ RoleReady(config, a) =>
              /\ used.base = EffectiveBase(config, a)
              /\ used.key = EffectiveKey(config, a)
              /\ RoleModel(config, a) # Blank => used.model = RoleModel(config, a)
         /\ AccountReady(config) => used.key # Server

\* A key stays until it is typed again or cleared: updates that leave it out,
\* that turn a connection off or that name only other roles do not lose it
\* (update_user_config, _merge_agent_runtime_overrides), and neither does one
\* committed over a row it had not read; unless it speaks of the very column that
\* another had changed meanwhile: api_key, or the roles' settings as a whole.
ColumnOf(who) == IF who = Account THEN "key" ELSE "roles"
KeyAsAsked ==
  \A who \in Agents \union {Account} :
    (\A r \in Updates : update[r].at = "done" => ColumnOf(who) \notin update[r].crossed) =>
      KeyOf(config, who) = asked[who]
=============================================================================
