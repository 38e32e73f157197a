------------------------ MODULE ConfiguredRoutesProofs ------------------------
(* Proofs about ConfiguredRoutes: what its routes do to the configuration   *)
(* are steps of OrgConfig, so that reloads bind; a Webflow request works on *)
(* one document; organizations are kept apart; a fetch skips nobody; and a  *)
(* report of differences, applied, settles them, while others change the    *)
(* list.                                                                    *)
EXTENDS ConfiguredRoutes, SequenceTheorems, FiniteSetTheorems, WellFoundedInduction, TLAPS

USE DocumentsOK, IdsOK

-----------------------------------------------------------------------------
(* The configuration *)

(* Of what is configured ...                                                *)
DocBinds ==
  /\ held # {} => config # NoDoc
  /\ config # NoDoc =>
       /\ Usable(config)
       /\ config \in held \/ (fellBack /\ config = LocalFile)

(* ... and of the keys, of whose changes none is known before it is made.   *)
KeysCounted ==
  /\ changes \in Nat /\ promised \in 0..changes
  /\ keys \in (0..changes) \cup {Fallback}

ConfigInv == DocBinds /\ KeysCounted /\ KeysKnown

(* What load_config returns is the document it was given, or the local one. *)
LEMMA LoadedFrom ==
  ASSUME NEW got \in FromSecret, Loaded(got) # NoDoc
  PROVE  /\ Usable(Loaded(got))
         /\ IF got = NoDoc THEN Loaded(got) = LocalFile ELSE Loaded(got) = secret
  BY DEF Loaded, FromSecret, Usable

(* A load that succeeds leaves a configuration that is accounted for. *)
LEMMA LoadBinds ==
  ASSUME NEW got \in FromSecret, Loaded(got) # NoDoc, config' = Loaded(got), Record(got)
  PROVE  DocBinds'
<1>1. CASE got = NoDoc
  <2>1. fellBack' = TRUE BY <1>1 DEF Record
  <2>2. config' = LocalFile /\ Usable(config') BY <1>1, LoadedFrom
  <2> QED BY <2>1, <2>2 DEF DocBinds, Usable
<1>2. CASE got # NoDoc
  <2>1. held' = {secret} BY DEF Record
  <2>2. config' = secret /\ Usable(config') BY <1>2, LoadedFrom
  <2> QED BY <2>1, <2>2 DEF DocBinds, Usable
<1> QED BY <1>1, <1>2

LEMMA GetConfigBinds ==
  ASSUME DocBinds, NEW cfg \in Documents \cup {NoDoc}, GetConfig(cfg)
  PROVE  DocBinds'
<1>1. PICK got \in FromSecret :
        /\ cfg = Cached(got) /\ config' = cfg
        /\ IF cfg # config THEN Record(got) ELSE UNCHANGED <<held, fellBack>>
  BY DEF GetConfig
<1>2. CASE cfg = config
  BY <1>1, <1>2 DEF DocBinds, Usable
<1>3. CASE cfg # config
  <2>1. cfg = Loaded(got) /\ Loaded(got) # NoDoc
    BY <1>1, <1>3 DEF Cached, Loaded
  <2> QED BY <1>1, <1>3, <2>1, LoadBinds
<1> QED BY <1>2, <1>3

(* A reload: the configuration first, then the keys. *)
LEMMA ReloadKeepsBound ==
  ASSUME ConfigInv, NEW code \in {"200", "500"}, Reload(code)
  PROVE  ConfigInv'
<1>1. PICK got \in FromSecret :
        IF Fresh(got) = NoDoc THEN code = "500" /\ UNCHANGED <<config, held, fellBack, keys>>
        ELSE /\ config' = Fresh(got) /\ Record(got)
             /\ IF code = "200" THEN keys' \in LoadedKeys ELSE UNCHANGED keys
  BY DEF Reload
<1>2. changes' = changes /\ promised' = (IF code = "200" THEN changes ELSE promised)
  BY DEF Reload, Promise
<1>3. DocBinds'
  <2>1. CASE Fresh(got) = NoDoc
    BY <1>1, <2>1 DEF ConfigInv, DocBinds, Usable
  <2>2. CASE Fresh(got) # NoDoc
    BY <1>1, <2>2, LoadBinds DEF Fresh
  <2> QED BY <2>1, <2>2
<1>4. KeysCounted' /\ KeysKnown'
  <2>1. CASE code = "200"
    <3>1. keys' \in {changes, Fallback} /\ promised' = changes
      BY <1>1, <1>2, <2>1 DEF LoadedKeys
    <3> QED BY <1>2, <3>1, KeysOK DEF ConfigInv, KeysCounted, KeysKnown
  <2>2. CASE code = "500"
    <3>1. keys' = keys /\ promised' = promised
      BY <1>1, <1>2, <2>2
    <3> QED BY <1>2, <3>1 DEF ConfigInv, KeysCounted, KeysKnown
  <2> QED BY <2>1, <2>2
<1> QED BY <1>3, <1>4 DEF ConfigInv

(* The keys are loaded at a restart and after the TTL. *)
LEMMA KeysLoaded ==
  ASSUME KeysCounted, KeysKnown, UNCHANGED <<changes, promised>>, keys' \in LoadedKeys
  PROVE  KeysCounted' /\ KeysKnown'
BY KeysOK DEF KeysCounted, KeysKnown, LoadedKeys

(* No step of the configuration or of the world unbinds it. *)
LEMMA ConfigStepBinds ==
  ASSUME ConfigInv, [ConfigNext]_configVars
  PROVE  ConfigInv'
<1>1. ASSUME NEW cfg \in Documents \cup {NoDoc}, GetConfig(cfg) PROVE ConfigInv'
  <2>1. DocBinds' BY <1>1, GetConfigBinds DEF ConfigInv
  <2>2. UNCHANGED keysVars BY <1>1 DEF GetConfig
  <2> QED BY <2>1, <2>2 DEF ConfigInv, keysVars, KeysCounted, KeysKnown
<1>2. ASSUME NEW code \in {"200", "500"}, Reload(code) PROVE ConfigInv'
  BY <1>2, ReloadKeepsBound
<1>3. CASE Restart
  <2>1. DocBinds' BY <1>3 DEF Restart, DocBinds
  <2>2. KeysCounted' /\ KeysKnown' BY <1>3, KeysLoaded DEF Restart, ConfigInv
  <2> QED BY <2>1, <2>2 DEF ConfigInv
<1>4. CASE Deploy
  <2>1. UNCHANGED <<config, fellBack, keysVars>> /\ held' = (IF config = NoDoc THEN {} ELSE held \cup {secret'})
    BY <1>4 DEF Deploy
  <2>2. DocBinds' BY <2>1 DEF ConfigInv, DocBinds, Usable
  <2> QED BY <2>1, <2>2 DEF ConfigInv, keysVars, KeysCounted, KeysKnown
<1>5. CASE UNCHANGED configVars
  BY <1>5 DEF configVars, keysVars, ConfigInv, DocBinds, Usable, KeysCounted, KeysKnown
<1>6. CASE KeysChange
  <2>1. DocBinds' BY <1>6 DEF KeysChange, ConfigInv, DocBinds, Usable
  <2>2. KeysCounted' /\ KeysKnown' BY <1>6 DEF KeysChange, ConfigInv, KeysCounted, KeysKnown
  <2> QED BY <2>1, <2>2 DEF ConfigInv
<1>7. CASE KeysExpire
  <2>1. DocBinds' BY <1>7 DEF KeysExpire, ConfigInv, DocBinds, Usable
  <2>2. KeysCounted' /\ KeysKnown' BY <1>7, KeysLoaded DEF KeysExpire, ConfigInv
  <2> QED BY <2>1, <2>2 DEF ConfigInv
<1> QED BY <1>1, <1>2, <1>3, <1>4, <1>5, <1>6, <1>7 DEF ConfigNext

(* What each step of the routes does to the configuration. *)
LEMMA RoutesConfigure ==
  ASSUME [Next]_vars
  PROVE  [ConfigNext]_configVars
<1>1. CASE AskDirect \/ AskWebflow \/ ServeUsers \/ CallWebflow \/ Dismiss
  BY <1>1 DEF AskDirect, AskWebflow, ServeUsers, CallWebflow, Dismiss
<1>2. CASE AskWrapped
  <2>1. UNCHANGED configVars \/ \E cfg \in Documents \cup {NoDoc} : GetConfig(cfg)
    BY <1>2 DEF AskWrapped, GetWrapped
  <2> QED BY <2>1 DEF ConfigNext
<1>3. CASE LookUp
  <2>1. \E cfg \in Documents \cup {NoDoc} : GetConfig(cfg) BY <1>3 DEF LookUp
  <2> QED BY <2>1 DEF ConfigNext
<1>4. CASE AdminReload
  BY <1>4 DEF AdminReload, ConfigNext
<1>5. CASE Crash
  BY <1>5 DEF Crash, ConfigNext
<1>6. CASE World
  BY <1>6 DEF World, WorldMoves, ConfigNext
<1>7. CASE UNCHANGED vars
  BY <1>7 DEF vars
<1> QED BY <1>1, <1>2, <1>3, <1>4, <1>5, <1>6, <1>7 DEF Next, Work

(* Every behaviour of the routes is one of config.py and /admin/reload:     *)
(* none of them sets the configuration on its own.                          *)
THEOREM RoutesAreConfigured == Spec => ConfigSpec
<1>1. Init => ConfigInit BY DEF Init
<1>2. [Next]_vars => [ConfigNext]_configVars BY RoutesConfigure
<1> QED BY <1>1, <1>2, PTL DEF Spec, ConfigSpec

(* A reload answered 200 is binding, on the keys too unless their load fell *)
(* back, and what is configured stays so, for all documents, whatever fails *)
(* and in whatever order (reload_config, get_config, load_config,           *)
(* _load_key_entries).                                                      *)
THEOREM ReloadIsBinding == ConfigSpec => []ReloadBinds
<1>1. ConfigInit => ConfigInv
  BY KeysOK DEF ConfigInit, ConfigInv, DocBinds, KeysCounted, KeysKnown
<1>2. ConfigInv /\ [ConfigNext]_configVars => ConfigInv' BY ConfigStepBinds
<1>3. ConfigInv => ReloadBinds BY DEF ConfigInv, DocBinds, ReloadBinds
<1> QED BY <1>1, <1>2, <1>3, PTL DEF ConfigSpec

(* The same of the routes that use the configuration. *)
THEOREM RoutesReloadBinds == Spec => []ReloadBinds
  BY RoutesAreConfigured, ReloadIsBinding, PTL

-----------------------------------------------------------------------------
(* Webflow requests and the configuration *)

(* An idle process remembers nothing of the last request. *)
IdleIsClean == pc = "idle" => answer = "none" /\ took = {}

OneInv == IdleIsClean /\ OneDocument

(* Once there is a configuration, get_config returns it. *)
LEMMA ConfigKept ==
  ASSUME NEW cfg \in Documents \cup {NoDoc}, GetConfig(cfg)
  PROVE  config' = cfg /\ (config # NoDoc => cfg = config)
  BY DEF GetConfig, Cached

(* The steps that answer with no 400 and look nothing up. *)
LEMMA QuietSteps ==
  ASSUME OneInv, UNCHANGED <<config, took, began>>, mode' \in {mode, "users"},
         answer' # "400" \/ answer' = answer,
         pc' = "idle" => pc = "idle" /\ answer' = answer
  PROVE  OneInv'
  BY DEF OneInv, IdleIsClean, OneDocument, Setting

(* A look-up: while nothing is configured, what was taken before is the     *)
(* environment's.                                                           *)
LEMMA LookUpKeepsOne ==
  ASSUME OneInv, LookUp
  PROVE  OneInv'
<1>1. PICK cfg \in Documents \cup {NoDoc} :
        /\ GetConfig(cfg)
        /\ IF Setting(cfg, Upcoming) = Empty /\ ~Optional(Upcoming)
           THEN Answer(IF Upcoming = "token" THEN "500" ELSE "400") /\ UNCHANGED took
           ELSE took' = took \cup {[setting |-> Upcoming, value |-> Setting(cfg, Upcoming)]}
                /\ UNCHANGED <<pc, answer>>
  BY DEF LookUp
<1>2. pc = "webflow" /\ UNCHANGED <<mode, began>> BY DEF LookUp
<1>3. pc' # "idle" BY <1>1, <1>2 DEF Answer
<1>4. CASE mode # "webflow"
  BY <1>2, <1>3, <1>4 DEF OneInv, IdleIsClean, OneDocument
<1>5. CASE mode = "webflow"
  <2>1. config' = cfg /\ (config # NoDoc => cfg = config)
    BY <1>1, ConfigKept
  <2>2. began # NoDoc => config = began /\ config' = began
    BY <1>5, <2>1 DEF OneInv, OneDocument
  <2>3. config = NoDoc => began = NoDoc
    BY <1>5 DEF OneInv, OneDocument
  <2>4. \A x : Setting(NoDoc, x) = Env[x]
    BY DEF Setting
  <2>5. ASSUME NEW t \in took
        PROVE  t.value = Setting(config', t.setting) \/ (began' = NoDoc /\ t.value = Env[t.setting])
    <3>1. t.value = Setting(config, t.setting) \/ (began = NoDoc /\ t.value = Env[t.setting])
      BY <1>5 DEF OneInv, OneDocument
    <3>2. CASE config = NoDoc
      BY <1>2, <2>3, <2>4, <3>1, <3>2
    <3>3. CASE config # NoDoc
      BY <1>2, <2>1, <3>1, <3>3
    <3> QED BY <3>2, <3>3
  <2>6. Upcoming \in {"token", "bills", "orgs"} BY DEF Upcoming
  <2>7. CASE Setting(cfg, Upcoming) = Empty /\ ~Optional(Upcoming)
    <3>1. took' = took /\ answer' = (IF Upcoming = "token" THEN "500" ELSE "400")
      BY <1>1, <2>7 DEF Answer
    <3>2. answer' = "400" => \E x \in {"bills", "orgs"} : Setting(config', x) = Empty
      BY <2>1, <2>6, <2>7, <3>1
    <3> QED BY <1>2, <1>3, <1>5, <2>2, <2>5, <3>1, <3>2 DEF OneInv, IdleIsClean, OneDocument, Setting
  <2>8. CASE ~(Setting(cfg, Upcoming) = Empty /\ ~Optional(Upcoming))
    <3>1. /\ took' = took \cup {[setting |-> Upcoming, value |-> Setting(config', Upcoming)]}
          /\ answer' = answer /\ pc' = pc
      BY <1>1, <2>1, <2>8
    <3>2. \A t \in took' : t.value = Setting(config', t.setting) \/ (began' = NoDoc /\ t.value = Env[t.setting])
      <4> DEFINE new == [setting |-> Upcoming, value |-> Setting(config', Upcoming)]
      <4>1. new.value = Setting(config', new.setting)
        OBVIOUS
      <4>2. took' = took \cup {new}
        BY <3>1
      <4> HIDE DEF new
      <4> QED BY <2>5, <4>1, <4>2
    <3>3. answer' = "400" => \E x \in {"bills", "orgs"} :
             Setting(config', x) = Empty \/ (began' = NoDoc /\ Env[x] = Empty)
      <4>1. answer = "400" => \E x \in {"bills", "orgs"} :
               Setting(config, x) = Empty \/ (began = NoDoc /\ Env[x] = Empty)
        BY <1>5 DEF OneInv, OneDocument
      <4>2. CASE config = NoDoc
        BY <1>2, <2>3, <2>4, <3>1, <4>1, <4>2
      <4>3. CASE config # NoDoc
        BY <1>2, <2>1, <3>1, <4>1, <4>3
      <4> QED BY <4>2, <4>3
    <3> QED BY <1>2, <1>3, <1>5, <2>2, <3>2, <3>3 DEF OneInv, IdleIsClean, OneDocument, Setting
  <2> QED BY <2>7, <2>8
<1> QED BY <1>4, <1>5

LEMMA OneStep ==
  ASSUME OneInv, [Next]_vars
  PROVE  OneInv'
<1>1. CASE AskDirect \/ AskWrapped \/ AskWebflow \/ AdminReload
  <2>1. CASE AskDirect
    BY <2>1 DEF AskDirect, Ask, configVars, routeVars, OneInv, IdleIsClean, OneDocument
  <2>2. CASE AskWrapped
    <3>1. mode' = "wrapped" /\ pc' # "idle"
      BY <2>2 DEF AskWrapped, GetWrapped, WrappedFor, Answer
    <3> QED BY <3>1 DEF OneInv, IdleIsClean, OneDocument
  <2>3. CASE AskWebflow
    <3>1. pc = "idle" /\ pc' = "webflow" /\ began' = config /\ UNCHANGED <<config, answer, took>>
      BY <2>3 DEF AskWebflow, configVars
    <3> QED BY <3>1 DEF OneInv, IdleIsClean, OneDocument
  <2>4. CASE AdminReload
    BY <2>4 DEF AdminReload, Answer, OneInv, IdleIsClean, OneDocument
  <2> QED BY <1>1, <2>1, <2>2, <2>3, <2>4
<1>2. CASE ServeUsers
  <2>1. UNCHANGED <<config, took, began, mode>>
    BY <1>2 DEF ServeUsers, configVars, routeVars, Serve, FetchUsers, FetchPage, FetchFails, Compare
  <2>2. pc' # "idle" /\ (answer' # "400" \/ answer' = answer)
    BY <1>2 DEF ServeUsers, Serve, FetchUsers, Fetched, FetchPage, FetchFails, Compare, Answer
  <2> QED BY <2>1, <2>2, QuietSteps
<1>3. CASE LookUp
  BY <1>3, LookUpKeepsOne
<1>4. CASE CallWebflow
  <2>1. UNCHANGED <<config, took, began, mode>>
    BY <1>4 DEF CallWebflow, configVars
  <2>2. pc' # "idle" /\ answer' # "400"
    BY <1>4 DEF CallWebflow, Answer
  <2> QED BY <2>1, <2>2, QuietSteps
<1>5. CASE Dismiss \/ Crash
  <2>1. mode' = "none" /\ answer' = "none" /\ took' = {}
    BY <1>5 DEF Dismiss, Crash, Return, Clear
  <2> QED BY <2>1 DEF OneInv, IdleIsClean, OneDocument
<1>6. CASE World
  <2>1. UNCHANGED <<config, took, began, mode, answer, pc>>
    BY <1>6 DEF World, WorldMoves, UsersChange, ListChanges, Deploy, KeysChange, KeysExpire, diffVars, configVars, routeVars
  <2> QED BY <2>1, QuietSteps
<1>7. CASE UNCHANGED vars
  <2>1. UNCHANGED <<config, took, began, mode, answer, pc>>
    BY <1>7 DEF vars, diffVars, configVars, routeVars
  <2> QED BY <2>1, QuietSteps
<1> QED BY <1>1, <1>2, <1>3, <1>4, <1>5, <1>6, <1>7 DEF Next, Work

(* No Webflow request works with settings of two documents, however often   *)
(* the configuration fails to load, or another is deployed, while it looks  *)
(* them up (_get_webflow_config and its callers).                           *)
THEOREM WebflowWorksOnOneDocument == Spec => []OneDocument
<1>1. Init => OneInv
  BY DEF Init, DiffInit, OneInv, IdleIsClean, OneDocument
<1>2. OneInv /\ [Next]_vars => OneInv' BY OneStep
<1>3. OneInv => OneDocument BY DEF OneInv
<1> QED BY <1>1, <1>2, <1>3, PTL DEF Spec

-----------------------------------------------------------------------------
(* The pre-authenticated wrappers *)

(* Where a wrapper can be, and that it has no answer while it fetches. *)
WrappedAt == mode = "wrapped" => pc = "answered" \/ (pc = "users" /\ answer = "none")

OrgsInv == OneInv /\ WrappedAt /\ OrgsKeptApart

(* A wrapper's request, in one step up to its answer or its fetch. *)
LEMMA AskWrappedApart ==
  ASSUME OrgsInv, AskWrapped
  PROVE  (WrappedAt /\ OrgsKeptApart)'
<1>1. PICK route \in {"users", "events"}, org \in Orgs, limit \in SUBSET Orgs :
        request' = [route |-> route, org |-> org, limit |-> limit] /\ GetWrapped(route, org, limit)
  BY DEF AskWrapped
<1>2. request'.org = org /\ request'.limit = limit /\ began' = config /\ answer = "none"
  BY <1>1 DEF AskWrapped, OrgsInv, OneInv, IdleIsClean
<1>3. CASE Excluded(org, limit)
  <2>1. answer' = "403" /\ pc' = "answered" /\ config' = config
    BY <1>1, <1>3 DEF GetWrapped, Answer, configVars
  <2> QED BY <1>2, <1>3, <2>1 DEF WrappedAt, OrgsKeptApart, Excluded
<1>4. CASE ~Excluded(org, limit)
  <2>1. PICK cfg \in Documents \cup {NoDoc} : config' = cfg /\ WrappedFor(route, org, cfg)
    BY <1>1, <1>4 DEF GetWrapped, GetConfig
  <2>2. CASE cfg = NoDoc \/ org \notin cfg.organizations
    BY <1>2, <1>4, <2>1, <2>2 DEF WrappedFor, Answer, WrappedAt, OrgsKeptApart, Excluded
  <2>3. CASE cfg # NoDoc /\ org \in cfg.organizations
    <3>1. \/ pc' = "answered" /\ answer' \in {"200", "500", "502"}
          \/ pc' = "users" /\ answer' = "none"
      BY <1>2, <2>1, <2>3 DEF WrappedFor, UpstreamAnswers, Answer
    <3> QED BY <1>2, <1>4, <2>1, <2>3, <3>1 DEF WrappedAt, OrgsKeptApart, Excluded
  <2> QED BY <2>2, <2>3
<1> QED BY <1>3, <1>4

LEMMA OrgsStep ==
  ASSUME OrgsInv, [Next]_vars
  PROVE  (WrappedAt /\ OrgsKeptApart)'
<1>1. CASE AskDirect \/ AskWebflow \/ AdminReload \/ Dismiss \/ Crash
  <2>1. mode' # "wrapped"
    BY <1>1 DEF AskDirect, Ask, AskWebflow, AdminReload, Dismiss, Crash, Return, Clear
  <2> QED BY <2>1 DEF WrappedAt, OrgsKeptApart
<1>2. CASE AskWrapped
  BY <1>2, AskWrappedApart
<1>3. CASE ServeUsers
  <2>1. UNCHANGED <<config, request, began, mode>>
    BY <1>3 DEF ServeUsers, configVars, routeVars, Serve, FetchUsers, FetchPage, FetchFails, Compare
  <2>2. CASE mode # "wrapped"
    BY <2>1, <2>2 DEF WrappedAt, OrgsKeptApart
  <2>3. CASE mode = "wrapped"
    <3>1. pc = "users" /\ answer = "none"
      BY <1>3, <2>3 DEF OrgsInv, WrappedAt, ServeUsers, Serve, FetchUsers, FetchPage, FetchFails, Compare
    <3>2. \/ pc' = "answered" /\ answer' \in {"200", "500", "502"}
          \/ pc' = "users" /\ answer' = "none"
      BY <1>3, <2>3, <3>1 DEF ServeUsers, Serve, FetchUsers, Fetched, FetchPage, FetchFails, Compare, Answer
    <3> QED BY <2>1, <2>3, <3>1, <3>2 DEF OrgsInv, WrappedAt, OrgsKeptApart, Excluded
  <2> QED BY <2>2, <2>3
<1>4. CASE LookUp \/ CallWebflow
  <2>1. mode # "wrapped" /\ mode' = mode
    BY <1>4 DEF OrgsInv, WrappedAt, LookUp, CallWebflow
  <2> QED BY <2>1 DEF WrappedAt, OrgsKeptApart
<1>5. CASE World \/ UNCHANGED vars
  <2>1. UNCHANGED <<config, request, began, mode, answer, pc>>
    BY <1>5 DEF World, WorldMoves, UsersChange, ListChanges, Deploy, KeysChange, KeysExpire, vars, diffVars, configVars, routeVars
  <2> QED BY <2>1 DEF OrgsInv, WrappedAt, OrgsKeptApart, Excluded
<1> QED BY <1>1, <1>2, <1>3, <1>4, <1>5 DEF Next, Work

(* A key limited to other organizations learns nothing about one, for all   *)
(* documents and restrictions (_check_org_access before                     *)
(* fetch_tokens_from_config).                                               *)
THEOREM OrganizationsAreKeptApart == Spec => []OrgsKeptApart
<1>1. Init => OrgsInv
  BY DEF Init, DiffInit, OrgsInv, OneInv, IdleIsClean, OneDocument, WrappedAt, OrgsKeptApart
<1>2. OrgsInv /\ [Next]_vars => OrgsInv' BY OneStep, OrgsStep DEF OrgsInv
<1>3. OrgsInv => OrgsKeptApart BY DEF OrgsInv
<1> QED BY <1>1, <1>2, <1>3, PTL DEF Spec
-----------------------------------------------------------------------------
(* The fetch of users *)

Users == [id : Ids, state : States]

FetchType == voatz \in [Ids -> States] /\ users \in Seq(Users)

(* What a fetch is, to the routes that drive it.                            *)
FetchStep ==
  \/ StartFetch \/ EndFetch \/ FetchUserPage \/ FetchUsersFails \/ UserChanges
  \/ UNCHANGED <<voatzVars, fetchVars>>

LEMMA RoutesFetch ==
  ASSUME [Next]_vars
  PROVE  FetchStep
<1>1. CASE AskDirect
  BY <1>1 DEF AskDirect, Ask, FetchStep
<1>2. CASE AskWrapped
  BY <1>2 DEF AskWrapped, GetWrapped, WrappedFor, FetchStep
<1>3. CASE AskWebflow \/ AdminReload \/ CallWebflow \/ LookUp
  BY <1>3 DEF AskWebflow, AdminReload, CallWebflow, LookUp, Untouched, FetchStep
<1>4. CASE ServeUsers
  BY <1>4 DEF ServeUsers, Serve, FetchUsers, FetchPage, FetchFails, Compare, FetchStep
<1>5. CASE Dismiss \/ Crash
  BY <1>5 DEF Dismiss, Crash, Return, Clear, FetchStep
<1>6. CASE World
  BY <1>6 DEF World, UsersChange, ListChanges, FetchStep
<1>7. CASE UNCHANGED vars
  BY <1>7 DEF vars, FetchStep
<1> QED BY <1>1, <1>2, <1>3, <1>4, <1>5, <1>6, <1>7 DEF Next, Work

(* A page is a sequence of users who are registered above its cursor.       *)
LEMMA PageType ==
  ASSUME FetchType, NEW id, NEW page \in UserPages(id)
  PROVE  /\ page \in Seq(Users) /\ Len(page) \in Nat /\ DOMAIN page = 1..Len(page)
         /\ \A i \in DOMAIN page : page[i].id \in Above(id)
<1> DEFINE shown == {[id |-> u, state |-> voatz[u]] : u \in Above(id)}
<1>1. \A v \in shown : v \in Users /\ v.id \in Above(id)
  BY DEF Above, registered, FetchType, Users
<1>2. PICK n \in 0..Limit : page \in [1..n -> shown]
  BY DEF UserPages, BoundedSeq, SeqOf
<1> HIDE DEF shown
<1>3. page \in [1..n -> Users] /\ n \in Nat
  BY <1>1, <1>2
<1>4. page \in Seq(Users) /\ DOMAIN page = 1..n
  BY <1>3
<1>5. Len(page) = n
  BY <1>3, <1>4
<1> QED
  BY <1>1, <1>2, <1>4, <1>5

(* The next page: in order, past the last, and with nobody left out.        *)
LEMMA NextPage ==
  ASSUME FetchType, FetchInv, resp = "none", NEW page \in UserPages(min_id), page # <<>>,
         users' = users \o page, min_id' = Last(page).id, UNCHANGED <<voatzVars, resp>>
  PROVE  FetchType' /\ FetchInv'
<1> DEFINE m == Len(users)
           n == Len(page)
<1>1. /\ page \in Seq(Users) /\ n \in Nat /\ DOMAIN page = 1..n
      /\ \A i \in 1..n : page[i].id \in Above(min_id)
  BY PageType
<1>2. n > 0
  BY <1>1
<1>3. users \in Seq(Users) /\ m \in Nat /\ DOMAIN users = 1..m
  BY DEF FetchType
<1>4. /\ users' \in Seq(Users) /\ Len(users') = m + n /\ DOMAIN users' = 1..(m + n)
      /\ \A i \in 1..m : users'[i] = users[i]
      /\ \A i \in 1..n : users'[m + i] = page[i]
  BY <1>1, <1>3
<1>5. \A i \in (m+1)..(m+n) : i - m \in 1..n /\ users'[i] = page[i - m]
  BY <1>1, <1>3, <1>4
<1>6. Last(users') = page[n] /\ min_id' = page[n].id /\ users' # <<>>
  BY <1>1, <1>2, <1>3, <1>4 DEF Last
<1>7. ASSUME NEW i \in 1..m
      PROVE  users[i].id \in Nat /\ users[i].id <= min_id /\ min_id \in Nat
  <2>1. users # <<>> /\ m \in 1..m
    BY <1>3
  <2>2. min_id = users[m].id
    BY <2>1 DEF FetchInv, CursorAtLast, Last
  <2>3. users[i] \in Users /\ users[m] \in Users
    BY <1>3, <2>1
  <2>4. users[i].id \in Nat /\ users[m].id \in Nat
    BY <2>3 DEF Users
  <2>5. i < m => users[i].id < users[m].id
    BY <1>3, <2>1 DEF FetchInv, Ordered
  <2>6. i = m \/ i < m
    <3>1. m \in Nat /\ i \in 1..m
      BY <1>3
    <3> HIDE DEF m
    <3> QED BY <3>1
  <2> QED BY <2>2, <2>4, <2>5, <2>6
<1>8. \A i \in 1..n : page[i].id \in Nat /\ (min_id # NoMinId => page[i].id > min_id)
  BY <1>1 DEF Above, registered
<1>9. \A i, j \in 1..n : i < j => page[i].id < page[j].id
  BY <1>1 DEF UserPages
<1> HIDE DEF m, n
<1>10. Ordered'
  <2> SUFFICES ASSUME NEW i \in 1..(m + n), NEW j \in 1..(m + n), i < j
               PROVE  users'[i].id < users'[j].id
    BY <1>4 DEF Ordered
  <2>1. CASE j <= m
    <3>1. i \in 1..m /\ j \in 1..m
      BY <1>1, <1>3, <2>1 DEF m, n
    <3> QED BY <1>3, <1>4, <3>1 DEF FetchInv, Ordered
  <2>2. CASE i <= m /\ j > m
    <3>1. i \in 1..m /\ j \in (m+1)..(m+n)
      BY <1>1, <1>3, <2>2 DEF m, n
    <3>2. users'[i] = users[i] /\ users'[j] = page[j - m] /\ j - m \in 1..n
      BY <1>4, <1>5, <3>1
    <3>3. min_id # NoMinId
      BY <1>7, <3>1
    <3> QED BY <1>7, <1>8, <3>1, <3>2, <3>3
  <2>3. CASE i > m
    <3>1. i \in (m+1)..(m+n) /\ j \in (m+1)..(m+n)
      BY <1>1, <1>3, <2>3 DEF m, n
    <3>2. /\ users'[i] = page[i - m] /\ i - m \in 1..n
          /\ users'[j] = page[j - m] /\ j - m \in 1..n
      BY <1>5, <3>1
    <3>3. i - m < j - m
      BY <1>3, <3>1 DEF m
    <3> QED BY <1>9, <3>2, <3>3
  <2> QED BY <1>1, <1>3, <2>1, <2>2, <2>3 DEF m, n
<1>11. CursorAtLast'
  BY <1>6 DEF CursorAtLast
<1>12. StayedFound'
  <2> SUFFICES ASSUME NEW u \in stayed, u \notin Above(min_id')
               PROVE  \E i \in DOMAIN users' : users'[i].id = u
    BY DEF FetchInv, StayedFound, voatzVars, registered, Above
  <2>1. u \in registered /\ u \in Nat
    BY DEF FetchInv, StayedFound, registered
  <2>2. CASE \E i \in DOMAIN users : users[i].id = u
    BY <1>1, <1>3, <1>4, <2>2 DEF m, n
  <2>3. CASE u \in Above(min_id)
    <3>1. u <= page[n].id
      <4>1. n \in 1..n BY <1>1, <1>2 DEF n
      <4>2. min_id' \in Nat /\ min_id' # NoMinId BY <1>6, <1>8, <4>1
      <4>3. UNCHANGED registered BY DEF voatzVars, registered
      <4> QED BY <1>6, <2>1, <4>2, <4>3 DEF Above
    <3>2. \E j \in 1..n : page[j].id = u
      <4>1. n \in 1..n /\ page[n].id \in Nat BY <1>1, <1>2, <1>8 DEF n
      <4>2. u < page[n].id => \E j \in 1..n : page[j].id = u
        BY <1>1, <2>3, <4>1 DEF UserPages
      <4> QED BY <2>1, <3>1, <4>1, <4>2
    <3>3. PICK j \in 1..n : page[j].id = u
      BY <3>2
    <3>4. m + j \in 1..(m + n)
      BY <1>1, <1>3 DEF m, n
    <3> QED BY <1>4, <3>3, <3>4
  <2> QED BY <2>2, <2>3 DEF FetchInv, StayedFound
<1>13. FetchType'
  BY <1>4 DEF FetchType, voatzVars
<1> QED BY <1>10, <1>11, <1>12, <1>13 DEF FetchInv

LEMMA FetchKept ==
  ASSUME FetchType, FetchInv, FetchStep
  PROVE  FetchType' /\ FetchInv'
<1> USE DEF voatzVars, fetchVars
<1>1. CASE StartFetch \/ EndFetch
  <2>1. /\ users' = <<>> /\ min_id' = NoMinId /\ resp' = "none" /\ voatz' = voatz
        /\ stayed' \subseteq registered /\ registered' = registered
    BY <1>1 DEF StartFetch, EndFetch, registered
  <2> QED BY <2>1 DEF FetchType, FetchInv, Ordered, CursorAtLast, StayedFound, Above
<1>2. CASE FetchUserPage
  <2> PICK page \in UserPages(min_id) :
        IF page = <<>> THEN resp' = "list" /\ UNCHANGED <<users, min_id>>
        ELSE users' = users \o page /\ min_id' = Last(page).id /\ UNCHANGED resp
    BY <1>2 DEF FetchUserPage, Asked
  <2>1. CASE page = <<>>
    <3>1. Above(min_id) = {}
      BY <2>1 DEF UserPages
    <3> QED
      BY <1>2, <2>1, <3>1 DEF FetchUserPage, FetchType, FetchInv, Ordered, CursorAtLast,
                              StayedFound, registered
  <2>2. CASE page # <<>>
    BY <1>2, <2>2, NextPage DEF FetchUserPage
  <2> QED BY <2>1, <2>2
<1>3. CASE FetchUsersFails
  BY <1>3 DEF FetchUsersFails, FetchType, FetchInv, Ordered, CursorAtLast, StayedFound,
              registered, Above
<1>4. CASE UserChanges
  <2> PICK u \in Ids, state \in States :
        /\ voatz' = [voatz EXCEPT ![u] = state]
        /\ stayed' = IF state = "absent" THEN stayed \ {u} ELSE stayed
    BY <1>4 DEF UserChanges
  <2>1. UNCHANGED <<min_id, users, resp>>
    BY <1>4 DEF UserChanges
  <2>2. stayed' \subseteq stayed /\ \A x \in stayed' : x \in registered => x \in registered'
    BY DEF FetchType, registered
  <2>3. \A x \in stayed' : x \in Above(min_id) => x \in Above(min_id)'
    BY <2>1, <2>2 DEF Above
  <2>4. FetchType'
    BY <2>1 DEF FetchType
  <2> QED BY <2>1, <2>2, <2>3, <2>4 DEF FetchInv, Ordered, CursorAtLast, StayedFound
<1>5. CASE UNCHANGED <<voatzVars, fetchVars>>
  BY <1>5 DEF FetchType, FetchInv, Ordered, CursorAtLast, StayedFound, registered, Above
<1> QED BY <1>1, <1>2, <1>3, <1>4, <1>5 DEF FetchStep

(* Nobody who was there all along is left out of a fetch, and nobody is in  *)
(* it twice, for any number of users, pages of any size and whoever         *)
(* registers or leaves between two pages (fetch_users and its cursor).      *)
THEOREM NobodyIsSkipped == Spec => []NobodySkipped
<1>1. Init => FetchType /\ FetchInv
  BY DEF Init, DiffInit, FetchInit, FetchType, FetchInv, Ordered, CursorAtLast, StayedFound
<1>2. FetchType /\ FetchInv /\ [Next]_vars => (FetchType /\ FetchInv)'
  BY RoutesFetch, FetchKept
<1>3. FetchType /\ FetchInv => NobodySkipped
  <2> SUFFICES ASSUME FetchType, FetchInv PROVE NobodySkipped
    OBVIOUS
  <2>1. ASSUME NEW i \in DOMAIN users
        PROVE  i \in Nat /\ users[i].id \in Nat
    <3>1. i \in Nat /\ users[i] \in Users
      BY DEF FetchType
    <3> QED BY <3>1 DEF Users
  <2>2. \A i, j \in DOMAIN users : i # j => users[i].id # users[j].id
    BY <2>1 DEF FetchInv, Ordered
  <2> QED BY <2>2 DEF FetchInv, StayedFound, NobodySkipped
<1> QED BY <1>1, <1>2, <1>3, PTL DEF Spec
-----------------------------------------------------------------------------
(* Reports                                                                  *)

(* SetToSeq lists a finite set, and all of it. *)
LEMMA SetToSeqIs ==
  ASSUME NEW S, IsFiniteSet(S)
  PROVE  /\ Cardinality(S) \in Nat
         /\ SetToSeq(S) \in [1..Cardinality(S) -> S]
         /\ \A x \in S : \E k \in 1..Cardinality(S) : SetToSeq(S)[k] = x
<1> DEFINE n == Cardinality(S)
           f == SetToSeq(S)
<1>1. n \in Nat /\ ExistsBijection(1..n, S)
  BY FS_CardinalityType
<1>2. \E g \in [1..n -> S] : IsInjective(g)
  BY <1>1 DEF ExistsBijection, Bijection, Injection
<1>3. f \in [1..n -> S] /\ IsInjective(f)
  BY <1>2 DEF SetToSeq
<1>4. f \in Injection(1..n, S)
  <2> HIDE DEF f, n
  <2> QED BY <1>3 DEF Injection
<1>5. Cardinality(1..n) = n
  <2>1. IsFiniteSet(1..n) /\ Cardinality(1..n) = IF 1 > n THEN 0 ELSE n - 1 + 1
    <3>1. 1 \in Int /\ n \in Int
      BY <1>1
    <3> HIDE DEF n
    <3> QED BY <3>1, FS_Interval, Zenon
  <2> HIDE DEF n
  <2> QED BY <1>1, <2>1
<1>6. f \in Surjection(1..n, S)
  <2> HIDE DEF f
  <2> QED BY <1>4, <1>5, FS_Injection
<1>7. \A x \in S : \E k \in 1..n : f[k] = x
  <2> HIDE DEF f, n
  <2> QED BY <1>6 DEF Surjection
<1> QED BY <1>1, <1>3, <1>7

(* The image of a finite set is finite. *)
LEMMA ImageFinite ==
  ASSUME NEW S, IsFiniteSet(S), NEW f, DOMAIN f = S, NEW T, \A y : y \in T <=> \E x \in S : y = f[x]
  PROVE  IsFiniteSet(T)
<1> DEFINE g == [x \in S |-> f[x]]
<1>1. g \in Surjection(S, T)
  BY DEF Surjection
<1> HIDE DEF g
<1> QED BY <1>1, FS_Surjection

LEMMA VoatzIdsFinite ==
  ASSUME FetchType
  PROVE  voatz_ids \subseteq Ids /\ IsFiniteSet(voatz_ids)
<1> DEFINE S == {i \in DOMAIN users : Counts(users[i])}
           f == [i \in S |-> users[i].id]
<1>1. Len(users) \in Nat /\ DOMAIN users = 1..Len(users) /\ \A i \in DOMAIN users : users[i] \in Users
  BY DEF FetchType
<1>2. IsFiniteSet(S)
  <2>1. IsFiniteSet(1..Len(users))
    <3>1. 1 \in Int /\ Len(users) \in Int
      BY <1>1
    <3> QED BY <3>1, FS_Interval, Zenon
  <2>2. S \in SUBSET (1..Len(users))
    BY <1>1
  <2> HIDE DEF S
  <2> QED BY <2>1, <2>2, FS_Subset
<1>3. \A y : y \in voatz_ids <=> \E i \in S : y = users[i].id
  BY DEF voatz_ids, ToSet
<1>4. DOMAIN f = S /\ \A y : y \in voatz_ids <=> \E i \in S : y = f[i]
  <2> HIDE DEF S
  <2> QED BY <1>3
<1>5. IsFiniteSet(voatz_ids)
  <2> HIDE DEF S, f
  <2> QED BY <1>2, <1>4, ImageFinite
<1>6. voatz_ids \subseteq Ids
  BY <1>1, <1>3 DEF Users
<1> QED BY <1>5, <1>6

(* A finite set of positions has a last one: of the sets "this one and      *)
(* those after it", one is minimal.                                         *)
LEMMA SomeLast ==
  ASSUME NEW S, IsFiniteSet(S), S # {}, \A i \in S : i \in Nat
  PROVE  \E i \in S : \A j \in S : j <= i
<1> DEFINE after(i) == {j \in S : i <= j}
           T == {after(i) : i \in S}
<1>1. IsWellFoundedOn(StrictSubsetOrdering(S), SUBSET S)
  <2> HIDE DEF T
  <2>1. FiniteSubsetsOf(S) = SUBSET S
    BY FS_FiniteSubsetsOfFinite
  <2>2. IsWellFoundedOn(StrictSubsetOrdering(S), FiniteSubsetsOf(S))
    BY FS_StrictSubsetOrderingWellFounded
  <2> QED BY <2>1, <2>2
<1>2. T \subseteq SUBSET S /\ T # {}
  <2>1. \A i \in S : after(i) \in SUBSET S
    OBVIOUS
  <2>2. PICK i \in S : TRUE
    OBVIOUS
  <2> HIDE DEF after
  <2> QED BY <2>1, <2>2
<1>3. PICK U \in T : \A V \in T : <<V, U>> \notin StrictSubsetOrdering(S)
  <2> HIDE DEF T
  <2> QED BY <1>1, <1>2, WFMin
<1>4. PICK i \in S : U = after(i)
  BY <1>3
<1>5. ASSUME NEW j \in S, ~(j <= i) PROVE FALSE
  <2>0. i \in Nat /\ j \in Nat /\ i < j /\ \A k \in S : k \in Nat
    BY <1>5
  <2>1. after(j) \subseteq after(i) /\ i \in after(i) /\ i \notin after(j)
    <3>1. \A k \in S : j <= k => i <= k
      BY <2>0
    <3>2. ~(j <= i) /\ i <= i
      BY <2>0
    <3> QED BY <3>1, <3>2
  <2>2. after(j) \in T /\ after(j) \subseteq S /\ after(i) \subseteq S
    OBVIOUS
  <2>3. <<after(j), after(i)>> \in StrictSubsetOrdering(S)
    <3> HIDE DEF after
    <3> QED BY <2>1, <2>2 DEF StrictSubsetOrdering
  <2> QED BY <1>3, <1>4, <2>2, <2>3
<1> QED BY <1>5

(* Of each VOATZ_ID of a page there is a last contact.                      *)
LEMMA LastIsThere ==
  ASSUME list \in Seq(Contact), NEW j \in Counted
  PROVE  \E k \in LastOfId : list[k].vid = list[j].vid
<1> DEFINE S == {k \in Counted : list[k].vid = list[j].vid}
<1>1. Len(list) \in Nat /\ Counted \subseteq 1..Len(list)
  BY DEF Counted, Page
<1>2. IsFiniteSet(1..Len(list))
  <2>1. 1 \in Int /\ Len(list) \in Int
    BY <1>1
  <2> QED BY <2>1, FS_Interval, Zenon
<1>3. S \in SUBSET (1..Len(list)) /\ j \in S
  BY <1>1
<1>4. IsFiniteSet(S)
  <2> HIDE DEF S
  <2> QED BY <1>2, <1>3, FS_Subset
<1>5. PICK k \in S : \A i \in S : i <= k
  <2>1. \A i \in S : i \in Nat
    BY <1>1
  <2> HIDE DEF S
  <2> QED BY <1>3, <1>4, <2>1, SomeLast
<1>6. k \in LastOfId
  BY <1>5 DEF LastOfId
<1> QED BY <1>5, <1>6

(* The contacts of a list are finitely many. *)
LEMMA ListFinite ==
  ASSUME list \in Seq(Contact)
  PROVE  IsFiniteSet(ToSet(list)) /\ ToSet(list) \subseteq Contact
<1>1. Len(list) \in Nat /\ DOMAIN list = 1..Len(list) /\ \A i \in DOMAIN list : list[i] \in Contact
  OBVIOUS
<1>2. IsFiniteSet(1..Len(list))
  <2>1. 1 \in Int /\ Len(list) \in Int
    BY <1>1
  <2> QED BY <2>1, FS_Interval, Zenon
<1>3. \A y : y \in ToSet(list) <=> \E i \in 1..Len(list) : y = list[i]
  BY <1>1 DEF ToSet
<1>4. IsFiniteSet(ToSet(list))
  <2> DEFINE T == ToSet(list)
             D == 1..Len(list)
  <2>1. IsFiniteSet(D) /\ DOMAIN list = D /\ \A y : y \in T <=> \E i \in D : y = list[i]
    BY <1>1, <1>2, <1>3
  <2> HIDE DEF T, D
  <2>2. IsFiniteSet(T)
    BY <2>1, ImageFinite
  <2> QED BY <2>2 DEF T
<1> QED BY <1>1, <1>3, <1>4

(* The list after a report was applied is of what stays and what is new.    *)
LEMMA EntriesAre ==
  ASSUME list \in Seq(Contact), IsFiniteSet(report.added), report.added \subseteq Ids
  PROVE  IsFiniteSet(Entries) /\ Entries \subseteq Contact
<1> DEFINE New == {NewContact(u) : u \in report.added}
           f == [u \in report.added |-> NewContact(u)]
<1>1. Kept \subseteq Contact /\ IsFiniteSet(Kept)
  <2>1. Kept \in SUBSET ToSet(list)
    BY DEF Kept
  <2> QED BY <2>1, ListFinite, FS_Subset
<1>2. IsFiniteSet(New)
  <2>1. DOMAIN f = report.added /\ \A y : y \in New <=> \E u \in report.added : y = f[u]
    OBVIOUS
  <2> HIDE DEF New, f
  <2> QED BY <2>1, ImageFinite
<1>3. New \subseteq Contact
  <2>1. \A u \in report.added : NewContact(u) \in Contact
    BY ContactsOK DEF NewContact, Contact
  <2> QED BY <2>1
<1>4. Entries = Kept \cup New
  BY DEF Entries
<1> HIDE DEF New
<1> QED BY <1>1, <1>2, <1>3, <1>4, FS_Union

LEMMA AppliedIs ==
  ASSUME list \in Seq(Contact), IsFiniteSet(report.added), report.added \subseteq Ids
  PROVE  Applied \in Seq(Contact) /\ ToSet(Applied) = Entries
<1> DEFINE n == Cardinality(Entries)
<1>1. /\ n \in Nat /\ Applied \in [1..n -> Entries]
      /\ \A e \in Entries : \E k \in 1..n : Applied[k] = e
  BY EntriesAre, SetToSeqIs DEF Applied
<1>2. Entries \subseteq Contact
  BY EntriesAre
<1> HIDE DEF n
<1>3. Applied \in [1..n -> Contact]
  BY <1>1, <1>2
<1>4. ToSet(Applied) = Entries
  BY <1>1 DEF ToSet
<1> QED BY <1>1, <1>3, <1>4

(* Who of the list is listed, by contact. *)
LEMMA ListedIs ==
  ASSUME NEW l, NEW c \in ToSet(l), IsListed(c)
  PROVE  c.vid \in Listed(l)
<1>1. PICK i \in DOMAIN l : c = l[i]
  BY DEF ToSet
<1> QED BY <1>1 DEF Listed

(* Nobody whom a report takes off the list was fetched, or is blacklisted.  *)
LEMMA NobodyWronged ==
  ASSUME FetchType, ReadRight, report = Difference
  PROVE  \A c \in report.contacts : c.vid \notin voatz_ids /\ ~(c.vid # None /\ c.banned)
<1>1. None \notin voatz_ids
  BY VoatzIdsFinite, ContactsOK
<1>2. \A c \in report.contacts : c \in brevo_no_voatz_id_users \/ (c \in brevo_details /\ c.vid \notin voatz_ids)
  BY DEF Difference
<1> QED BY <1>1, <1>2 DEF ReadRight, IsListed, Anonymous

(* What a report leaves, applied: if nobody left while the pages were read, *)
(* all who were fetched are listed ...                                      *)
LEMMA FetchedAreListed ==
  ASSUME FetchType, DiffInv, report = Difference, mode = "user_updates", ~left, ToSet(list') = Entries
  PROVE  voatz_ids \subseteq Listed(list')
<1> SUFFICES ASSUME NEW v \in voatz_ids PROVE v \in Listed(list')
  OBVIOUS
<1>1. v # None /\ report.added = voatz_ids \ brevo_ids
  BY VoatzIdsFinite, ContactsOK DEF Difference
<1>2. CASE v \in brevo_ids
  <2>1. PICK c \in brevo_details : c.vid = v
    BY <1>2 DEF DiffInv, ReadRight
  <2>2. IsListed(c) /\ c \in ToSet(list)
    BY DEF DiffInv, ReadRight
  <2>3. c \notin report.contacts
    BY <2>1, NobodyWronged DEF DiffInv
  <2>4. c \in ToSet(list')
    BY <2>2, <2>3 DEF Entries, Kept
  <2> QED BY <2>1, <2>2, <2>4, ListedIs
<1>3. CASE v \notin brevo_ids
  <2>1. NewContact(v) \in ToSet(list')
    BY <1>1, <1>3 DEF Entries
  <2>2. IsListed(NewContact(v)) /\ NewContact(v).vid = v
    BY <1>1 DEF NewContact, IsListed
  <2> QED BY <2>1, <2>2, ListedIs
<1> QED BY <1>2, <1>3

(* ... and who should not be has just joined, or had a double who is gone.  *)
LEMMA StraysAreDoubles ==
  ASSUME FetchType, DiffInv, report = Difference, mode = "user_updates", ~left, ReadUpTo(Len(list)),
         ToSet(list') = Entries, NEW c \in Entries \ joined
  PROVE  /\ ~Anonymous(c)
         /\ IsListed(c) /\ c.vid \notin voatz_ids => \E d \in ToSet(list) \ Entries : d.vid = c.vid
<1>1. /\ report.added = voatz_ids \ brevo_ids
      /\ report.contacts = {d \in brevo_details : d.vid \notin voatz_ids} \cup brevo_no_voatz_id_users
  BY DEF Difference
<1>2. CASE c \in Kept
  <2>1. PICK j \in DOMAIN list : c = list[j]
    BY <1>2 DEF Kept, ToSet
  <2>2. j <= Len(list)
    BY DEF DiffInv
  <2>3. WasRead(c)
    BY <2>1, <2>2 DEF ReadUpTo
  <2>4. ~Anonymous(c)
    BY <1>1, <1>2, <2>3 DEF WasRead, Kept
  <2>5. ASSUME IsListed(c), c.vid \notin voatz_ids
        PROVE  \E d \in ToSet(list) \ Entries : d.vid = c.vid
    <3>1. PICK d \in brevo_details : d.vid = c.vid
      BY <2>3, <2>5 DEF WasRead, DiffInv, ReadRight
    <3>2. d \in ToSet(list) /\ d \in report.contacts
      BY <1>1, <2>5, <3>1 DEF DiffInv, ReadRight
    <3>3. \A u \in report.added : d # NewContact(u)
      BY <1>1, <2>5, <3>1 DEF NewContact
    <3> QED BY <3>1, <3>2, <3>3 DEF Entries, Kept
  <2> QED BY <2>4, <2>5
<1>3. CASE \E u \in report.added : c = NewContact(u)
  <2>1. PICK u \in report.added : c = NewContact(u)
    BY <1>3
  <2>2. c.vid = u /\ u \in voatz_ids /\ u # None
    BY <1>1, <2>1, VoatzIdsFinite, ContactsOK DEF NewContact
  <2> QED BY <2>2 DEF Anonymous
<1> QED BY <1>2, <1>3 DEF Entries

(* Where the list and what was read of it stay, so does how far it was read.*)
LEMMA ReadKept ==
  ASSUME UNCHANGED <<list, joined, brevo_ids, brevo_no_voatz_id_users>>
  PROVE  \A n : ReadUpTo(n)' <=> ReadUpTo(n)
BY DEF ReadUpTo, WasRead

LEMMA NothingRead ==
  ASSUME list \in Seq(Contact)
  PROVE  ReadUpTo(0)
BY DEF ReadUpTo

LEMMA NothingReadThen ==
  ASSUME list' \in Seq(Contact)
  PROVE  ReadUpTo(0)'
BY DEF ReadUpTo

LEMMA RightKept ==
  ASSUME ReadRight, ToSet(list) \subseteq ToSet(list'),
         UNCHANGED <<mode, left, brevo_ids, brevo_details, brevo_no_voatz_id_users>>
  PROVE  ReadRight'
BY DEF ReadRight

(* One page more: of each VOATZ_ID one contact, the last, ...               *)
LEMMA PageIsRight ==
  ASSUME DiffInv, FetchPage
  PROVE  ReadRight'
<1>1. /\ list \in Seq(Contact) /\ mode = "user_updates" /\ ReadRight
      /\ UNCHANGED <<list, left, mode>>
  BY DEF DiffInv, FetchPage, listVars
<1>2. \A j \in Page : list[j] \in Contact /\ list[j] \in ToSet(list)
  BY <1>1 DEF Page, ToSet
<1>3. /\ \A j \in Counted : IsListed(list[j]) /\ j \in Page
      /\ LastOfId \subseteq Counted
  BY DEF Counted, LastOfId, IsListed
<1>4. \A c \in brevo_details' : c \in brevo_details \/ \E j \in LastOfId : c = list[j]
  BY DEF FetchPage
<1>5. \A c \in brevo_no_voatz_id_users' :
        c \in brevo_no_voatz_id_users \/ \E j \in Page : c = list[j] /\ Anonymous(c)
  BY DEF FetchPage, Anonymous
<1>6. brevo_ids' = {c.vid : c \in brevo_details'}
  <2>1. ASSUME NEW v \in brevo_ids' PROVE \E c \in brevo_details' : c.vid = v
    <3>1. CASE \E j \in Counted : list[j].vid = v
      <4>1. PICK k \in LastOfId : list[k].vid = v
        BY <1>1, <3>1, LastIsThere
      <4>2. list[k] \in brevo_details'
        BY DEF FetchPage
      <4> QED BY <4>1, <4>2
    <3>2. CASE ~\E j \in Counted : list[j].vid = v
      <4>1. v \in brevo_ids
        BY <2>1, <3>2 DEF FetchPage
      <4>2. PICK c \in brevo_details : c.vid = v
        BY <1>1, <4>1 DEF ReadRight
      <4> QED BY <3>2, <4>2 DEF FetchPage
    <3> QED BY <3>1, <3>2
  <2>2. ASSUME NEW c \in brevo_details' PROVE c.vid \in brevo_ids'
    <3>1. CASE c \in brevo_details
      BY <1>1, <3>1 DEF ReadRight, FetchPage
    <3>2. CASE \E j \in LastOfId : c = list[j]
      BY <1>3, <3>2 DEF FetchPage
    <3> QED BY <1>4, <3>1, <3>2
  <2> QED BY <2>1, <2>2
<1>7. brevo_details' \subseteq Contact /\ \A c \in brevo_details' : IsListed(c)
  BY <1>1, <1>2, <1>3, <1>4 DEF ReadRight
<1>8. brevo_no_voatz_id_users' \subseteq Contact /\ \A c \in brevo_no_voatz_id_users' : Anonymous(c)
  BY <1>1, <1>2, <1>5 DEF ReadRight
<1>9. ~left' => brevo_details' \cup brevo_no_voatz_id_users' \subseteq ToSet(list')
  <2> SUFFICES ASSUME ~left PROVE brevo_details' \cup brevo_no_voatz_id_users' \subseteq ToSet(list)
    BY <1>1
  <2>1. brevo_details \cup brevo_no_voatz_id_users \subseteq ToSet(list)
    BY <1>1 DEF ReadRight
  <2> QED BY <1>2, <1>3, <1>4, <1>5, <2>1
<1> QED BY <1>6, <1>7, <1>8, <1>9 DEF ReadRight

(* ... and nobody left out. *)
LEMMA PageRead ==
  ASSUME DiffInv, FetchPage, ~left
  PROVE  /\ offset' = offset + PageSize => ReadUpTo(offset)'
         /\ pc' = "compared" => ReadUpTo(Len(list))'
<1>1. /\ offset \in Nat /\ PageSize \in Nat \ {0} /\ list \in Seq(Contact) /\ Len(list) \in Nat
      /\ ReadUpTo(offset) /\ UNCHANGED <<list, joined>>
  BY PageSizeOK DEF DiffInv, FetchPage, listVars
<1>2. ASSUME NEW j \in DOMAIN list, j <= offset + PageSize
      PROVE  list'[j] \in joined' \/ WasRead(list[j])'
  <2>1. CASE j <= offset
    <3>1. list[j] \in joined \/ WasRead(list[j])
      BY <1>1, <2>1 DEF ReadUpTo
    <3>2. brevo_ids \subseteq brevo_ids' /\ brevo_no_voatz_id_users \subseteq brevo_no_voatz_id_users'
      BY DEF FetchPage
    <3> QED BY <1>1, <3>1, <3>2 DEF WasRead
  <2>2. CASE offset < j
    <3>1. j \in Page
      BY <1>2, <2>2 DEF Page
    <3>2. IsListed(list[j]) => list[j].vid \in brevo_ids'
      BY <3>1 DEF FetchPage, Counted, IsListed
    <3>3. Anonymous(list[j]) => list[j] \in brevo_no_voatz_id_users'
      BY <3>1 DEF FetchPage, Anonymous
    <3> QED BY <1>1, <3>2, <3>3 DEF WasRead
  <2>3. j \in Int
    BY <1>1
  <2> QED BY <1>1, <2>1, <2>2, <2>3
<1>3. ASSUME NEW m, \A j \in DOMAIN list : j <= m => j <= offset + PageSize
      PROVE  \A j \in DOMAIN list' : j <= m => list'[j] \in joined' \/ WasRead(list[j])'
  BY <1>1, <1>2, <1>3
<1>4. offset' = offset + PageSize => ReadUpTo(offset)'
  BY <1>1, <1>3 DEF ReadUpTo
<1>5. ASSUME pc' = "compared" PROVE ReadUpTo(Len(list))'
  <2>1. Len(list) < offset + PageSize
    BY <1>5 DEF FetchPage, Short, DiffInv
  <2>2. \A j \in DOMAIN list : j <= offset + PageSize
    BY <1>1, <2>1
  <2> QED BY <1>1, <1>3, <2>2 DEF ReadUpTo
<1> QED BY <1>4, <1>5

(* Each step of the process. *)
LEMMA AsksDiff ==
  ASSUME DiffInv, AskDirect \/ AskWrapped \/ AskWebflow \/ AdminReload
  PROVE  DiffInv'
<1>1. /\ pc = "idle" /\ offset = 0 /\ report = Nothing /\ list \in Seq(Contact)
      /\ brevo_ids = {} /\ brevo_details = {} /\ brevo_no_voatz_id_users = {}
  <2>1. pc = "idle"
    BY DEF AskDirect, Ask, AskWrapped, AskWebflow, AdminReload
  <2> QED BY <2>1 DEF DiffInv
<1>2. UNCHANGED <<list, left, offset, brevo_details, brevo_no_voatz_id_users, report>>
  BY DEF AskDirect, Ask, AskWrapped, AskWebflow, AdminReload, Untouched, listVars, pageVars
<1>3. mode' = "user_updates" => brevo_ids' = {}
  BY <1>1 DEF AskDirect, Ask, AskWrapped, AskWebflow, AdminReload, Untouched, pageVars
<1>4. ReadRight' /\ ReadUpTo(0)' /\ list' \in Seq(Contact)
  BY <1>1, <1>2, <1>3, NothingReadThen DEF ReadRight
<1>5. CASE AskDirect
  BY <1>1, <1>2, <1>4, <1>5 DEF DiffInv, AskDirect, Ask
<1>6. CASE AskWrapped
  <2>1. mode' = "wrapped" /\ pc' \in {"users", "answered"}
    BY <1>6 DEF AskWrapped, GetWrapped, WrappedFor, Answer
  <2> QED BY <1>1, <1>2, <1>4, <2>1 DEF DiffInv, Comparing
<1>7. CASE AskWebflow
  <2>1. mode' = "webflow" /\ pc' = "webflow"
    BY <1>7 DEF AskWebflow
  <2> QED BY <1>1, <1>2, <1>4, <2>1 DEF DiffInv, Comparing
<1>8. CASE AdminReload
  <2>1. mode' = "reload" /\ pc' = "answered"
    BY <1>8 DEF AdminReload, Answer
  <2> QED BY <1>1, <1>2, <1>4, <2>1 DEF DiffInv, Comparing
<1> QED BY <1>5, <1>6, <1>7, <1>8

LEMMA FetchDiff ==
  ASSUME DiffInv, FetchUsers
  PROVE  DiffInv'
<1>1. /\ pc = "users" /\ report = Nothing /\ list \in Seq(Contact) /\ offset \in Nat /\ ReadRight
      /\ mode = "user_updates" => offset = 0
      /\ UNCHANGED <<list, left, joined, mode, offset, brevo_ids, brevo_details, brevo_no_voatz_id_users, report>>
  BY DEF FetchUsers, DiffInv, listVars, pageVars
<1>2. ReadUpTo(0)' /\ ReadRight'
  BY <1>1, NothingReadThen, RightKept
<1>3. \/ pc' = "compared" /\ mode = "diff_only"
      \/ pc' = "paging" /\ mode = "user_updates"
      \/ pc' = "answered" /\ (answer' = "200" => ~Comparing)
      \/ pc' = "users"
  BY <1>1 DEF FetchUsers, Fetched, Answer, Comparing
<1> QED BY <1>1, <1>2, <1>3 DEF DiffInv, Comparing

LEMMA ComparesDiff ==
  ASSUME DiffInv, FetchPage \/ FetchFails \/ Compare
  PROVE  DiffInv'
<1>1. CASE FetchPage
  <2>1. /\ pc = "paging" /\ mode = "user_updates" /\ report = Nothing /\ list \in Seq(Contact) /\ offset \in Nat
        /\ UNCHANGED <<list, left, mode, report>>
    BY <1>1 DEF FetchPage, DiffInv, listVars
  <2>2. \/ pc' = "compared" /\ offset' = offset
        \/ pc' = "paging" /\ offset' = offset + PageSize
    BY <1>1, <2>1 DEF FetchPage
  <2>3. offset' \in Nat
    BY <2>1, <2>2, PageSizeOK
  <2>4. ReadRight'
    BY <1>1, PageIsRight
  <2>5. ~left => ReadUpTo(offset)' /\ (pc' = "compared" => ReadUpTo(Len(list))')
    <3> SUFFICES ASSUME ~left PROVE ReadUpTo(offset)' /\ (pc' = "compared" => ReadUpTo(Len(list))')
      OBVIOUS
    <3>1. CASE pc' = "paging"
      BY <1>1, <2>2, <3>1, PageRead
    <3>2. CASE pc' = "compared"
      <4>1. ReadUpTo(Len(list))'
        BY <1>1, <3>2, PageRead
      <4>2. \A j \in DOMAIN list' : j <= Len(list')
        BY <2>1
      <4> QED BY <4>1, <4>2 DEF ReadUpTo
    <3> QED BY <2>2, <3>1, <3>2
  <2> QED BY <2>1, <2>2, <2>3, <2>4, <2>5 DEF DiffInv, Comparing
<1>2. CASE FetchFails
  <2>1. /\ pc' = "answered" /\ answer' # "200" /\ pc = "paging" /\ report = Nothing /\ list \in Seq(Contact)
        /\ UNCHANGED <<listVars, mode, pageVars, report>>
    BY <1>2 DEF FetchFails, Answer, DiffInv
  <2>2. ReadRight' /\ (ReadUpTo(offset)' <=> ReadUpTo(offset))
    BY <2>1, RightKept DEF DiffInv, ReadUpTo, WasRead, listVars, pageVars
  <2> QED BY <2>1, <2>2 DEF DiffInv, listVars, pageVars
<1>3. CASE Compare
  <2>1. /\ pc = "compared" /\ Comparing /\ pc' = "answered" /\ answer' = "200" /\ report' = Difference
        /\ UNCHANGED <<users, listVars, mode, pageVars>> /\ list \in Seq(Contact)
    BY <1>3 DEF Compare, Answer, DiffInv, fetchVars
  <2>2. Difference' = Difference /\ Comparing'
    BY <2>1 DEF Difference, voatz_ids, Counts, Comparing, pageVars
  <2>3. /\ ReadRight' /\ (ReadUpTo(offset)' <=> ReadUpTo(offset))
        /\ ReadUpTo(Len(list))' <=> ReadUpTo(Len(list))
    BY <2>1, RightKept DEF DiffInv, ReadUpTo, WasRead, listVars, pageVars
  <2> QED BY <2>1, <2>2, <2>3 DEF DiffInv, listVars, pageVars
<1> QED BY <1>1, <1>2, <1>3

LEMMA WebflowDiff ==
  ASSUME DiffInv, LookUp \/ CallWebflow
  PROVE  DiffInv'
<1>1. /\ pc = "webflow" /\ mode = "webflow" /\ report = Nothing /\ list \in Seq(Contact)
      /\ UNCHANGED <<listVars, pageVars, mode, report>> /\ pc' \in {"webflow", "answered"}
  BY DEF LookUp, CallWebflow, Answer, Untouched, DiffInv
<1>2. ReadRight'
  BY <1>1, RightKept DEF DiffInv, listVars, pageVars
<1> QED BY <1>1, <1>2 DEF DiffInv, Comparing, listVars, pageVars

(* Nothing of a request is left when it is over. *)
LEMMA ClearDiff ==
  ASSUME Clear, list' \in Seq(Contact)
  PROVE  DiffInv'
<1>1. /\ pc' = "idle" /\ mode' = "none" /\ offset' = 0 /\ brevo_ids' = {} /\ brevo_details' = {}
      /\ brevo_no_voatz_id_users' = {} /\ report' = Nothing
  BY DEF Clear
<1>2. ReadRight'
  BY <1>1 DEF ReadRight
<1> QED BY <1>1, <1>2 DEF DiffInv

LEMMA ReturnDiff ==
  ASSUME DiffInv, FetchType, Return
  PROVE  DiffInv' /\ Settled /\ AppliesOrNot
<1>1. /\ pc = "answered" /\ pc' = "idle" /\ list \in Seq(Contact) /\ Clear
      /\ list' = (IF mode = "user_updates" /\ answer = "200" THEN Applied ELSE list)
  BY DEF Return, Clear, DiffInv
<1>2. CASE mode = "user_updates" /\ answer = "200"
  <2>1. report = Difference /\ (~left => ReadUpTo(Len(list)))
    BY <1>1, <1>2 DEF DiffInv, Comparing
  <2>2. report.added \subseteq Ids /\ IsFiniteSet(report.added)
    <3>1. report.added \in SUBSET voatz_ids
      BY <2>1 DEF Difference
    <3> QED BY <3>1, VoatzIdsFinite, FS_Subset
  <2>3. list' \in Seq(Contact) /\ ToSet(list') = Entries
    BY <1>1, <1>2, <2>2, AppliedIs
  <2>4. \A c \in ToSet(list) \ Entries : c.vid \notin voatz_ids /\ ~(c.vid # None /\ c.banned)
    <3>1. ToSet(list) \ Entries \subseteq report.contacts
      BY DEF Entries, Kept
    <3> QED BY <2>1, <3>1, NobodyWronged DEF DiffInv
  <2>5. Settled
    BY <1>2, <2>1, <2>3, <2>4, FetchedAreListed, StraysAreDoubles DEF Settled
  <2>6. AppliesOrNot
    BY <1>2 DEF AppliesOrNot, Comparing
  <2> QED BY <1>1, <2>3, <2>5, <2>6, ClearDiff
<1>3. CASE ~(mode = "user_updates" /\ answer = "200")
  <2>1. list' = list /\ DiffInv' /\ Settled
    BY <1>1, <1>3, ClearDiff DEF Settled
  <2>2. CASE mode = "diff_only" /\ answer = "200"
    <3>1. report = Difference
      BY <1>1, <2>2 DEF DiffInv, Comparing
    <3>2. (brevo_ids \ report.removed) \cup report.added = voatz_ids
      BY <3>1 DEF Difference
    <3> QED BY <2>1, <2>2, <3>2 DEF AppliesOrNot, Comparing
  <2>3. CASE ~(mode = "diff_only" /\ answer = "200")
    <3>1. report = Nothing
      BY <1>1, <1>3, <2>3 DEF DiffInv, Comparing
    <3> QED BY <1>3, <2>1, <2>3, <3>1 DEF AppliesOrNot, Comparing
  <2> QED BY <2>2, <2>3
<1> QED BY <1>2, <1>3

(* A contact is put in: those before it stay, those after it move on.       *)
LEMMA InsertIs ==
  ASSUME list \in Seq(Contact), NEW c \in Contact, NEW i \in 1..(Len(list) + 1), list' = InsertAt(list, i, c)
  PROVE  /\ list' \in Seq(Contact) /\ Len(list') = Len(list) + 1
         /\ \A j \in 1..Len(list') :
              list'[j] = IF j < i THEN list[j] ELSE IF j = i THEN c ELSE list[j - 1]
<1>1. Len(list) \in Nat /\ i \in Int /\ 1 <= i /\ i <= Len(list) + 1
  OBVIOUS
<1> DEFINE s == SubSeq(list, 1, i - 1)
           t == SubSeq(list, i, Len(list))
           u == s \o <<c>>
<1>2. s \in Seq(Contact) /\ Len(s) = i - 1 /\ \A j \in 1..(i - 1) : s[j] = list[j]
  <2>1. \A j \in 1..(i - 1) : list[j] \in Contact
    BY <1>1, ElementOfSeq
  <2>2. s \in Seq(Contact) /\ Len(s) = (IF 1 <= i - 1 THEN i - 1 - 1 + 1 ELSE 0)
        /\ \A j \in 1..(i - 1 - 1 + 1) : s[j] = list[1 + j - 1]
    BY <1>1, <2>1, SubSeqProperties
  <2> HIDE DEF s
  <2>3. Len(s) = i - 1 /\ i - 1 - 1 + 1 = i - 1 /\ \A j \in 1..(i - 1) : 1 + j - 1 = j
    BY <1>1, <2>2
  <2>4. \A j \in 1..(i - 1) : s[j] = list[j]
    BY <2>2, <2>3
  <2> QED BY <2>2, <2>3, <2>4
<1>3. t \in Seq(Contact) /\ Len(t) = Len(list) - i + 1 /\ \A j \in 1..(Len(list) - i + 1) : t[j] = list[i + j - 1]
  <2>1. \A j \in i..Len(list) : list[j] \in Contact
    BY <1>1, ElementOfSeq
  <2>2. t \in Seq(Contact) /\ Len(t) = (IF i <= Len(list) THEN Len(list) - i + 1 ELSE 0)
        /\ \A j \in 1..(Len(list) - i + 1) : t[j] = list[i + j - 1]
    BY <1>1, <2>1, SubSeqProperties
  <2> HIDE DEF t
  <2> QED BY <1>1, <2>2
<1>4. <<c>> \in Seq(Contact) /\ Len(<<c>>) = 1 /\ <<c>>[1] = c
  OBVIOUS
<1> HIDE DEF s, t
<1>5. u \in Seq(Contact) /\ Len(u) = i /\ (\A j \in 1..i : u[j] = IF j <= i - 1 THEN s[j] ELSE <<c>>[j - (i - 1)])
  <2>1. u \in Seq(Contact) /\ Len(u) = Len(s) + 1
        /\ \A j \in 1..(Len(s) + 1) : u[j] = IF j <= Len(s) THEN s[j] ELSE <<c>>[j - Len(s)]
    BY <1>2, <1>4, ConcatProperties
  <2>2. Len(s) + 1 = i
    BY <1>1, <1>2
  <2> HIDE DEF u
  <2> QED BY <1>2, <2>1, <2>2
<1>6. list' = u \o t
  BY DEF InsertAt, s, t
<1> HIDE DEF u
<1>7. list' \in Seq(Contact) /\ Len(list') = i + Len(t)
      /\ \A j \in 1..(i + Len(t)) : list'[j] = IF j <= i THEN u[j] ELSE t[j - i]
  BY <1>3, <1>5, <1>6, ConcatProperties
<1>8. Len(list') = Len(list) + 1 /\ i + Len(t) = Len(list) + 1
  BY <1>1, <1>3, <1>7
<1>9. ASSUME NEW j \in 1..Len(list')
      PROVE  list'[j] = IF j < i THEN list[j] ELSE IF j = i THEN c ELSE list[j - 1]
  <2>0. j \in Int /\ j >= 1 /\ j <= Len(list) + 1 /\ j \in 1..(i + Len(t))
    BY <1>8
  <2>1. CASE j < i
    BY <1>1, <1>2, <1>5, <1>7, <2>0, <2>1
  <2>2. CASE j = i
    <3>1. j - (i - 1) = 1 /\ ~(j <= i - 1) /\ j \in 1..i
      BY <1>1, <2>2
    <3>2. u[j] = <<c>>[1]
      BY <1>5, <3>1
    <3> QED BY <1>1, <1>4, <1>7, <2>0, <2>2, <3>2
  <2>3. CASE j > i
    <3>1. j - i \in 1..(Len(list) - i + 1) /\ i + (j - i) - 1 = j - 1
      BY <1>1, <2>0, <2>3
    <3>2. t[j - i] = list[j - 1]
      BY <1>3, <3>1
    <3> QED BY <1>1, <1>7, <2>0, <2>3, <3>2
  <2> QED BY <1>1, <2>0, <2>1, <2>2, <2>3
<1> QED BY <1>7, <1>8, <1>9

(* A contact is taken out. *)
LEMMA RemoveIs ==
  ASSUME list \in Seq(Contact), NEW i \in DOMAIN list, list' = RemoveAt(list, i)
  PROVE  list' \in Seq(Contact)
<1>1. i \in Int /\ Len(list) \in Int /\ 1 <= i /\ i <= Len(list)
  OBVIOUS
<1>2. SubSeq(list, 1, i - 1) \in Seq(Contact)
  BY <1>1, ElementOfSeq, SubSeqProperties
<1>3. SubSeq(list, i + 1, Len(list)) \in Seq(Contact)
  BY <1>1, ElementOfSeq, SubSeqProperties
<1> QED BY <1>2, <1>3, ConcatProperties DEF RemoveAt

(* Others change the list.  What was read of it was read, and who is new    *)
(* has joined; once somebody has left, nothing is promised.                 *)
LEMMA ListChangesDiff ==
  ASSUME DiffInv, ListChanges
  PROVE  DiffInv'
<1>1. /\ list \in Seq(Contact) /\ ReadRight /\ offset \in Nat
      /\ UNCHANGED <<users, pc, mode, answer, offset, brevo_ids, brevo_details, brevo_no_voatz_id_users, report>>
  BY DEF DiffInv, ListChanges, pageVars, fetchVars
<1>2. Difference' = Difference /\ Comparing' = Comparing
  BY <1>1 DEF Difference, voatz_ids, Counts, Comparing
<1>3. ASSUME NEW i \in DOMAIN list, list' = RemoveAt(list, i), left' = (pc # "idle")
      PROVE  DiffInv'
  <2>1. list' \in Seq(Contact)
    BY <1>1, <1>3, RemoveIs
  <2>2. CASE pc = "idle"
    <3>1. offset = 0 /\ brevo_ids = {} /\ brevo_details = {} /\ brevo_no_voatz_id_users = {}
      BY <2>2 DEF DiffInv
    <3>2. ReadRight' /\ ReadUpTo(offset)'
      BY <1>1, <2>1, <3>1 DEF ReadRight, ReadUpTo
    <3> QED BY <1>1, <1>2, <2>1, <2>2, <3>1, <3>2 DEF DiffInv
  <2>3. CASE pc # "idle"
    <3>1. left'
      BY <1>3, <2>3
    <3>2. ReadRight'
      BY <1>1, <3>1 DEF ReadRight
    <3> QED BY <1>1, <1>2, <2>1, <3>1, <3>2 DEF DiffInv
  <2> QED BY <2>2, <2>3
<1>4. ASSUME NEW c \in Others, NEW i \in 1..(Len(list) + 1), list' = InsertAt(list, i, c), left' = left,
             joined' = (IF pc = "idle" THEN {} ELSE joined \cup {c})
      PROVE  DiffInv'
  <2>1. /\ list' \in Seq(Contact) /\ Len(list') = Len(list) + 1
        /\ \A j \in 1..Len(list') :
             list'[j] = IF j < i THEN list[j] ELSE IF j = i THEN c ELSE list[j - 1]
    BY <1>1, <1>4, InsertIs, ContactsOK
  <2>2. Len(list) \in Nat /\ i \in Int /\ 1 <= i /\ i <= Len(list) + 1 /\ DOMAIN list = 1..Len(list)
        /\ DOMAIN list' = 1..(Len(list) + 1)
    BY <1>1, <2>1
  <2>3. ToSet(list) \subseteq ToSet(list')
    <3>1. ASSUME NEW j \in DOMAIN list PROVE \E k \in DOMAIN list' : list'[k] = list[j]
      <4>1. CASE j < i
        BY <2>1, <2>2, <4>1
      <4>2. CASE j >= i
        <5>1. j + 1 \in 1..Len(list') /\ ~(j + 1 < i) /\ j + 1 # i /\ j + 1 - 1 = j
          BY <2>1, <2>2, <4>2
        <5>2. list'[j + 1] = list[j]
          BY <2>1, <5>1
        <5> QED BY <2>1, <2>2, <5>1, <5>2
      <4> QED BY <2>2, <4>1, <4>2
    <3> QED BY <3>1 DEF ToSet
  <2>4. ReadRight'
    BY <1>1, <1>4, <2>3, RightKept
  <2>5. ASSUME NEW n \in Nat, NEW m \in Nat, pc # "idle", ReadUpTo(n), NEW j \in DOMAIN list', j <= m,
               m = n \/ (n = Len(list) /\ m = Len(list) + 1)
        PROVE  list'[j] \in joined' \/ WasRead(list[j])'
    <3>1. \A x : WasRead(x) => WasRead(x)'
      BY <1>1 DEF WasRead, IsListed, Anonymous
    <3>2. joined' = joined \cup {c} /\ j \in 1..Len(list')
      BY <1>4, <2>1, <2>2, <2>5
    <3>3. CASE j < i
      <4>0. j \in Int /\ 1 <= j /\ j <= Len(list)
        BY <2>1, <2>2, <3>2, <3>3
      <4>1. j \in DOMAIN list
        BY <2>2, <4>0
      <4>2. j <= n
        BY <2>5, <4>0
      <4>3. list'[j] = list[j]
        BY <2>1, <3>2, <3>3
      <4> QED BY <1>1, <2>5, <3>2, <4>1, <4>2, <4>3 DEF ReadUpTo, WasRead
    <3>4. CASE j = i
      <4>1. list'[j] = c
        BY <2>1, <2>2, <3>2, <3>4
      <4> QED BY <3>2, <4>1
    <3>5. CASE j > i
      <4>1. j - 1 \in DOMAIN list /\ j - 1 <= n /\ list'[j] = list[j - 1]
        BY <2>1, <2>2, <2>5, <3>2, <3>5
      <4> QED BY <1>1, <2>5, <3>2, <4>1 DEF ReadUpTo, WasRead
    <3> QED BY <2>2, <3>3, <3>4, <3>5
  <2>6. pc # "idle" /\ ReadUpTo(offset) => ReadUpTo(offset)'
    BY <1>1, <2>5 DEF ReadUpTo
  <2>7. ASSUME pc # "idle", ReadUpTo(Len(list))
        PROVE  ReadUpTo(Len(list))'
    <3>1. Len(list) \in Nat /\ Len(list) + 1 \in Nat
      BY <2>2
    <3>2. \A j \in DOMAIN list' : j <= Len(list) + 1 => list'[j] \in joined' \/ WasRead(list[j])'
      BY <2>5, <2>7, <3>1
    <3> QED BY <2>1, <3>2 DEF ReadUpTo
  <2>8. pc = "idle" => offset = 0 /\ ReadUpTo(0)'
    BY <2>1, NothingReadThen DEF DiffInv
  <2>9. pc = "idle" => ReadUpTo(offset)'
    BY <1>1, <2>8 DEF ReadUpTo
  <2> QED BY <1>1, <1>2, <1>4, <2>1, <2>4, <2>6, <2>7, <2>9 DEF DiffInv
<1> QED BY <1>3, <1>4 DEF ListChanges

LEMMA DiffStep ==
  ASSUME DiffInv, FetchType, [Next]_vars
  PROVE  DiffInv' /\ [Settled /\ AppliesOrNot]_<<voatzVars, fetchVars, diffVars>>
<1> USE DEF Settled, AppliesOrNot
<1>1. ASSUME UNCHANGED <<users, diffVars>>
      PROVE  DiffInv' /\ Settled /\ AppliesOrNot
  <2>1. /\ UNCHANGED <<list, left, joined, pc, mode, answer, offset, brevo_ids, brevo_details,
                       brevo_no_voatz_id_users, report>>
        /\ Difference' = Difference /\ Comparing' = Comparing
    BY <1>1 DEF diffVars, listVars, pageVars, Difference, voatz_ids, Counts, Comparing
  <2>2. ReadRight => ReadRight'
    BY <2>1, RightKept
  <2>3. (ReadUpTo(offset) => ReadUpTo(offset)') /\ (ReadUpTo(Len(list)) => ReadUpTo(Len(list))')
    BY <2>1 DEF ReadUpTo, WasRead
  <2> QED BY <2>1, <2>2, <2>3 DEF DiffInv
<1>2. CASE AskDirect \/ AskWrapped \/ AskWebflow \/ AdminReload
  <2>1. pc = "idle"
    BY <1>2 DEF AskDirect, Ask, AskWrapped, AskWebflow, AdminReload
  <2> QED BY <1>2, <2>1, AsksDiff
<1>3. CASE ServeUsers
  <2>1. pc # "answered"
    BY <1>3 DEF ServeUsers, Serve, FetchUsers, FetchPage, FetchFails, Compare
  <2> QED BY <1>3, <2>1, FetchDiff, ComparesDiff DEF ServeUsers, Serve
<1>4. CASE LookUp \/ CallWebflow
  <2>1. pc = "webflow"
    BY <1>4 DEF LookUp, CallWebflow
  <2> QED BY <1>4, <2>1, WebflowDiff
<1>5. CASE Dismiss
  BY <1>5, ReturnDiff DEF Dismiss
<1>6. CASE Crash
  <2>1. pc # "answered" /\ Clear /\ list' \in Seq(Contact)
    BY <1>6 DEF Crash, DiffInv
  <2> QED BY <2>1, ClearDiff
<1>7. CASE World
  <2>1. CASE ListChanges
    <3>1. pc' = pc
      BY <2>1 DEF ListChanges
    <3> QED BY <2>1, <3>1, ListChangesDiff
  <2>2. CASE ~ListChanges
    <3>1. UNCHANGED <<users, diffVars>>
      BY <1>7, <2>2 DEF World, UsersChange, UserChanges, fetchVars
    <3> QED BY <1>1, <3>1
  <2> QED BY <2>1, <2>2
<1>8. CASE UNCHANGED vars
  <2>1. UNCHANGED <<users, diffVars>>
    BY <1>8 DEF vars, fetchVars
  <2> QED BY <1>1, <2>1
<1> QED BY <1>2, <1>3, <1>4, <1>5, <1>6, <1>7, <1>8 DEF Next, Work

(* Whoever applies a report of compare_users takes nobody off the list who  *)
(* was fetched, or is blacklisted and has a VOATZ_ID, whatever others did   *)
(* to it meanwhile; and unless a contact left it while it was read,         *)
(* everybody who was fetched is then on it, and of those who should not be  *)
(* each VOATZ_ID has lost one contact.  The voter ids of a diff_only        *)
(* request come out right; anything else reports nothing.                   *)
THEOREM ReportsSettle == Spec => ReportSettles
<1>1. Init => FetchType /\ FetchInv /\ DiffInv
  <2> SUFFICES ASSUME Init PROVE FetchType /\ FetchInv /\ DiffInv
    OBVIOUS
  <2>1. FetchType /\ FetchInv
    BY DEF Init, DiffInit, FetchInit, FetchType, FetchInv, Ordered, CursorAtLast, StayedFound
  <2>2. /\ pc = "idle" /\ mode = "none" /\ offset = 0 /\ brevo_ids = {} /\ brevo_details = {}
        /\ brevo_no_voatz_id_users = {} /\ report = Nothing /\ list \in Seq(Contact)
    BY ContactsOK DEF Init, DiffInit
  <2>3. ReadRight /\ ReadUpTo(0)
    BY <2>2, NothingRead DEF ReadRight
  <2> QED BY <2>1, <2>2, <2>3 DEF DiffInv
<1>2. FetchType /\ FetchInv /\ DiffInv /\ [Next]_vars => (FetchType /\ FetchInv /\ DiffInv)'
  BY RoutesFetch, FetchKept, DiffStep
<1>3. FetchType /\ FetchInv /\ DiffInv /\ [Next]_vars
      => [Settled /\ AppliesOrNot]_<<voatzVars, fetchVars, diffVars>>
  BY DiffStep
<1> QED BY <1>1, <1>2, <1>3, PTL DEF Spec, ReportSettles
=============================================================================
