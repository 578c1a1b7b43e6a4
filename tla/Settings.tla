------------------------------ MODULE Settings ------------------------------
(***************************************************************************)
(* The environment variables that bound the v2 simulations, and what the   *)
(* start-up makes of them.  An environment gives some of the variables a   *)
(* value: a number, Blank, or Text that is not a number.                   *)
(***************************************************************************)
EXTENDS Integers

CONSTANTS Defaults,   \* the value of each variable that is not set
          Ceilings,   \* the largest value of each count
          Blank, Text

\* The caps that are read with a warning at their first use ...
Limits == {"OCS_MAX_STEPS", "OCS_MAX_CHAIN_SIZE", "OCS_MAX_HISTORICAL_PRICES"}

Enabled == "OCS_SNAPSHOT_PERSISTENCE_ENABLED"

\* ... and the ones that start-up insists on.
Counts == DOMAIN Defaults \ (Limits \cup {Enabled})

ASSUME SettingsAssumption ==
    /\ Limits \cup {Enabled, "OCS_MAX_SNAPSHOT_CONTRACTS", "OCS_SNAPSHOT_BATCH_ROWS",
                    "OCS_MAX_CACHED_SNAPSHOTS", "OCS_MAX_CACHED_SNAPSHOT_CONTRACTS"}
           \subseteq DOMAIN Defaults
    /\ Defaults[Enabled] \in BOOLEAN
    /\ \A name \in DOMAIN Defaults \ {Enabled} : Defaults[name] \in Nat \ {0}
    /\ \A name \in Counts : Ceilings[name] \in Nat
    /\ Blank \notin Nat /\ Text \notin Nat

\* One of the variables is a switch, the others are numbers.
IsEnvironment(env) ==
    \A name \in DOMAIN env :
        env[name] \in {Blank, Text} \cup (IF name = Enabled THEN BOOLEAN ELSE Nat)

IsSet(env, name) == name \in DOMAIN env /\ env[name] # Blank

IsNumber(env, name) == env[name] # Text

\* parse_limit: a value that is no positive number is no reason not to start.
Limit(env, name) ==
    IF IsSet(env, name) /\ IsNumber(env, name) /\ env[name] > 0
    THEN env[name] ELSE Defaults[name]

\* parse_bounded and its like: one that is set must be a number in range.
Accepts(env, name) ==
    IsSet(env, name) => IsNumber(env, name) /\ env[name] \in 1..Ceilings[name]

Value(env, name) == IF IsSet(env, name) THEN env[name] ELSE Defaults[name]

Loaded(env) ==
    [name \in DOMAIN Defaults |->
        IF name \in Limits THEN Limit(env, name) ELSE Value(env, name)]

\* Bug: the repository is configured before the cap it compares with is published.
BoundsAgreeByDefault(env) ==
    Value(env, Enabled) =>
        Value(env, "OCS_SNAPSHOT_BATCH_ROWS") >= Defaults["OCS_MAX_SNAPSHOT_CONTRACTS"]

\* What may be created may be filed.
BoundsAgree(env) ==
    Value(env, Enabled) =>
        Value(env, "OCS_SNAPSHOT_BATCH_ROWS") >= Value(env, "OCS_MAX_SNAPSHOT_CONTRACTS")

\* The environments that the service starts with.
StartsUp(env) ==
    /\ \A name \in Counts : Accepts(env, name)
    /\ IsSet(env, Enabled) => env[Enabled] \in BOOLEAN
    /\ BoundsAgree(env)
=============================================================================
