------------------------------ MODULE OrgConfig ------------------------------
(* The organization configuration of one process: config.py, and POST       *)
(* /admin/reload, which replaces it and the key store.  The configuration   *)
(* is read when it is first needed and kept until a reload.  Secrets        *)
(* Manager, the local file and the other instances are external.            *)

EXTENDS Naturals

CONSTANTS
  Documents,     \* what a source may hold: records with organizations, a set
  NoDoc,         \* a source without a readable document; an empty _config
  LocalFile,     \* what LOCAL_CONFIG_PATH holds
  Fallback,      \* keys loaded without the secret: the local file's, or none
  MaxChanges     \* bound on the other instances' changes of the keys

ASSUME DocumentsOK == NoDoc \notin Documents /\ LocalFile \in Documents \cup {NoDoc}
ASSUME KeysOK == Fallback \notin Nat /\ MaxChanges \in Nat

VARIABLES
  secret,        \* what Secrets Manager holds
  config,        \* _config
  held,          \* history: what the secret has held since the load _config is from
  fellBack,      \* history: that load did not get the secret
  changes,       \* how often other instances have changed the keys in the secret
  keys,          \* the keys in memory: how many of these changes they have, or Fallback
  promised       \* history: the changes there were at the last reload answered 200

keysVars == <<changes, keys, promised>>
configVars == <<secret, config, held, fellBack, keysVars>>

ConfigInit ==
  /\ secret \in Documents \cup {NoDoc} /\ config = NoDoc
  /\ held = {} /\ fellBack = FALSE
  /\ changes = 0 /\ keys = 0 /\ promised = 0

(* load_from_secrets_manager: any call may fail, and every failure is None. *)
FromSecret == {secret, NoDoc}

Usable(doc) == doc # NoDoc /\ doc.organizations # {}

(* load_config, given what Secrets Manager gave: NoDoc where it raises.  A  *)
(* document without organizations is refused, not passed over.              *)
Loaded(got) ==
  LET doc == IF got = NoDoc THEN LocalFile ELSE got
  IN  IF Usable(doc) THEN doc ELSE NoDoc

(* Mutation: every call loads again. *)
Cached_Never(got) == Loaded(got)

(* get_config: what _config is after it; NoDoc where it raises. *)
Cached(got) == IF config = NoDoc THEN Loaded(got) ELSE config

Record(got) == held' = {secret} /\ fellBack' = (got = NoDoc)

(* A request that calls get_config, and is given cfg. *)
GetConfig(cfg) ==
  \E got \in FromSecret :
    /\ cfg = Cached(got)
    /\ config' = cfg
    /\ IF cfg # config THEN Record(got) ELSE UNCHANGED <<held, fellBack>>
    /\ UNCHANGED <<secret, keysVars>>

(* _load_key_entries: any failure of the secret is the local file, or no    *)
(* keys, and raises nothing.  A load is its read here; KeyStore has the     *)
(* time that passes before what was read is installed.                      *)
LoadedKeys == {changes, Fallback}

(* Mutation: a reload reads what is cached. *)
Fresh_Cached(got) == Cached(got)

Fresh(got) == Loaded(got)

Promise(code) == promised' = IF code = "200" THEN changes ELSE promised

(* Mutation: a configuration that cannot be loaded ends the reload quietly. *)
Reload_Swallows(code) ==
  /\ \E got \in FromSecret :
       LET cfg == Fresh(got) IN
       IF cfg = NoDoc THEN code = "200" /\ UNCHANGED <<config, held, fellBack, keys>>
       ELSE /\ config' = cfg /\ Record(got)
            /\ IF code = "200" THEN keys' \in LoadedKeys ELSE UNCHANGED keys
  /\ Promise(code)
  /\ UNCHANGED <<secret, changes>>

(* POST /admin/reload, answered 200, or 500 where load_config raises, or an *)
(* entry of the keys is none; the key store's turn comes second.            *)
Reload(code) ==
  /\ \E got \in FromSecret :
       LET cfg == Fresh(got) IN
       IF cfg = NoDoc THEN code = "500" /\ UNCHANGED <<config, held, fellBack, keys>>
       ELSE /\ config' = cfg /\ Record(got)
            /\ IF code = "200" THEN keys' \in LoadedKeys ELSE UNCHANGED keys
  /\ Promise(code)
  /\ UNCHANGED <<secret, changes>>

(* The process is started anew: lifespan loads the keys, not the config.    *)
Restart ==
  /\ config' = NoDoc /\ held' = {} /\ fellBack' = FALSE
  /\ keys' \in LoadedKeys
  /\ UNCHANGED <<secret, changes, promised>>

(* Another secret is deployed. *)
Deploy ==
  /\ secret' \in (Documents \cup {NoDoc}) \ {secret}
  /\ held' = IF config = NoDoc THEN {} ELSE held \cup {secret'}
  /\ UNCHANGED <<config, fellBack, keysVars>>

(* Another instance revokes or rotates a key ... *)
KeysChange ==
  /\ changes < MaxChanges /\ changes' = changes + 1
  /\ UNCHANGED <<secret, config, held, fellBack, keys, promised>>

(* ... and at the first request after the TTL this one loads its keys.      *)
KeysExpire ==
  /\ keys' \in LoadedKeys
  /\ UNCHANGED <<secret, config, held, fellBack, changes, promised>>

ConfigNext ==
  \/ \E cfg \in Documents \cup {NoDoc} : GetConfig(cfg)
  \/ \E code \in {"200", "500"} : Reload(code)
  \/ Restart \/ Deploy \/ KeysChange \/ KeysExpire

ConfigSpec == ConfigInit /\ [][ConfigNext]_configVars

-----------------------------------------------------------------------------
(* Once configured, a process stays configured, whatever becomes of its     *)
(* sources and however its reloads end.  What it uses is usable and no      *)
(* older than its last load, and the local file is used only where the      *)
(* secret could not be read.  A reload answered 200 is binding on the keys  *)
(* too, over every later restart and refresh: the process knows each change *)
(* older than it, unless its last load of the keys failed and left it with  *)
(* the local file's or none, of which the answer says nothing (config.py,   *)
(* reload in admin.py, _load_key_entries in key_store.py).                  *)
KeysKnown == keys = Fallback \/ promised <= keys

ReloadBinds ==
  /\ held # {} => config # NoDoc
  /\ config # NoDoc =>
       /\ Usable(config)
       /\ config \in held \/ (fellBack /\ config = LocalFile)
  /\ KeysKnown
=============================================================================
