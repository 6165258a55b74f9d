------------------------------ MODULE Assembly ------------------------------
(***************************************************************************)
(* What the HMI server assembles when it starts (mctivity_hmi.py,          *)
(* feature_registry.py): the modules of a profile whose requirements are   *)
(* met, the capabilities they provide, the features they enable, and the   *)
(* warnings that say what is missing; and the answer it then gives to a    *)
(* request before anything is asked of an axis.                            *)
(*                                                                         *)
(* An assembly is a record of what the server finds:                       *)
(*   profile   the modules the profile lists, Unreadable if it cannot be   *)
(*             loaded                                                      *)
(*   missing   modules without a readable manifest                         *)
(*   aux       MCTIVITY_AUX_ENCODER_ENABLED                                *)
(*   registry  the entries of feature_registry.json in their order,        *)
(*             <<>> if it cannot be loaded                                 *)
(*   execute   MCTIVITY_ANTI_SWAY_EXECUTE_ENABLED                          *)
(*   token     an API token is set                                         *)
(*   loopback  the server listens on a loopback address                    *)
(***************************************************************************)
EXTENDS CommandRules

CONSTANTS
    Unreadable,   \* a profile that cannot be loaded
    Manifest,     \* of every module: what it requires, conflicts with, provides
    BuiltIn       \* _DEFAULT_FEATURE_REGISTRY

ASSUME ManifestAssumption ==
    \A m \in DOMAIN Manifest :
        /\ Manifest[m].requires \subseteq DOMAIN Manifest
        /\ Manifest[m].conflicts \subseteq DOMAIN Manifest

-----------------------------------------------------------------------------
(* Modules.                                                                *)

Requested(a) == (IF a.profile = Unreadable THEN {} ELSE a.profile)
                  \ (IF a.aux THEN {} ELSE {"feature-logic-aux-encoder"})
Found(a)     == Requested(a) \ a.missing

Supported(S) == {m \in S : Manifest[m].requires \subseteq S}

\* The rounds of _build_module_runtime: what is left after the n-th.
Rounds(a) ==
    LET left[n \in Nat] ==
          IF n = 0 THEN Found(a)
          ELSE LET before == left[n - 1] IN Supported(before)
    IN  left
\* Every round but the last removes a module.
\* Faulty: a single round.
Loaded_X(a) == Rounds(a)[1]
Loaded(a) == Rounds(a)[Cardinality(Found(a))]

Capabilities(a) == UNION {Manifest[m].provides : m \in Loaded(a)}

Warnings(a) ==
    IF a.profile = Unreadable THEN {<<"profile_load_failed">>}
    ELSE {<<"module_manifest_missing", m>> : m \in Requested(a) \cap a.missing}
      \cup UNION {UNION {{<<"module_missing_requirement", m, q>> :
                             q \in Manifest[m].requires \ S} : m \in S} :
                    S \in {Rounds(a)[n] : n \in 0..Cardinality(Found(a))}}
      \cup UNION {{<<"module_conflict", m, q>> :
                      q \in Manifest[m].conflicts \cap Loaded(a)} :
                    m \in Loaded(a)}
      \cup (IF "axis.state.persist" \in Capabilities(a) THEN {}
            ELSE {<<"ui_state_persist_disabled">>})

-----------------------------------------------------------------------------
(* Features.  An entry is [key, logic, commands, modes]; one that is not an*)
(* object or has no name is Unreadable.                                    *)

Readable(e) == e # Unreadable

\* _normalize_feature_registry and _load_feature_registry.
Registry(a) ==
    LET entries == SelectSeq(a.registry, Readable) IN
    IF entries = <<>> THEN BuiltIn ELSE entries

\* The later of two entries that claim a command or a mode is reported.
RegistryWarnings(a) ==
    LET n == Len(a.registry)
        Claims(i) == a.registry[i].commands \cup a.registry[i].modes
        good == {i \in 1..n : Readable(a.registry[i])} IN
    {<<"feature_registry_invalid_entry", i>> : i \in (1..n) \ good}
      \cup {<<"feature_registry_empty", i>> : i \in
              {k \in good : {} \in {a.registry[k].logic, a.registry[k].commands,
                                    a.registry[k].modes}}}
      \cup {<<"feature_registry_conflict", i>> : i \in
              {k \in good : \E j \in good : j < k /\ Claims(j) \cap Claims(k) # {}}}
      \cup (IF good = {} THEN {<<"feature_registry_fallback_default">>} ELSE {})

\* resolve_enabled_feature_keys: one logic module is enough.
Enabled(a) ==
    {Registry(a)[i].key : i \in {k \in DOMAIN Registry(a) :
                                   Registry(a)[k].logic \cap Loaded(a) # {}}}

\* The globals of the server: computed once, before it serves anything.
Server(a) ==
    [capabilities |-> Capabilities(a), registry |-> Registry(a),
     enabled |-> Enabled(a), execute |-> a.execute, token |-> a.token,
     loopback |-> a.loopback]

\* /api/health/modular.
Healthy(a) == Warnings(a) \cup RegistryWarnings(a) = {}

-----------------------------------------------------------------------------
(* Requests.  A request has the payload p, the faults of its envelope, and *)
(* says whether it comes from a loopback address and has the right token.  *)

Faults == <<"path", "host", "origin", "content_type", "body">>

\* validate_web_access lets the server start.
Serves(a) == a.loopback \/ a.token

\* _is_authorized.
Authorized(r, s) == IF s.token THEN r.token ELSE s.loopback /\ r.local

\* The answer of do_POST to a command that goes no further, or "none": the
\* checks in their order.
Refusal(r, s) ==
    LET p    == r.p
        caps == s.capabilities
        dev  == NormalDevice(Get(p, "device", "mctivity"), caps)
        key  == FeatureKey(s.registry, p)
        envelope == First(Faults, r.faults) IN
    IF envelope \notin {"none", "body"}                    THEN envelope
    ELSE IF ~Authorized(r, s)                              THEN "unauthorized"
    ELSE IF envelope = "body"                              THEN "invalid_body"
    ELSE IF p["cmd"] \notin ValidCommands                  THEN "unsupported_command"
    ELSE IF p["cmd"] = "set_mode" /\ Get(p, "mode", "") \notin ValidModes
                                                           THEN "unsupported_mode"
    ELSE IF dev = "none"                                   THEN "unsupported_device"
    ELSE IF dev = "aux_encoder" /\ p["cmd"] # "status"     THEN "read_only_device"
    ELSE IF dev = "aux_encoder"                            THEN "none"
    ELSE IF ~Sanitary(p, dev, caps)                        THEN "unsanitary"
    ELSE IF ~(RequiredCapability(p) \subseteq caps)        THEN "missing_capability"
    ELSE IF NeedsExecution(p) /\ ~s.execute                THEN "execution_disabled"
    ELSE IF key \in Handled /\ key \notin s.enabled       THEN "feature_not_loaded"
    ELSE "none"

=============================================================================
