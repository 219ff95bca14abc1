---------------------------- MODULE Configuration ----------------------------
(***************************************************************************)
(* internal/configs/config.go: environment variables, default tags and the *)
(* tag validate:"required".  No tag bounds a number from below.            *)
(***************************************************************************)
EXTENDS Integers

CONSTANTS
  Field,     \* fields of Config
  IntField,  \* fields of kind int; the others are strings
  Required,  \* fields tagged validate:"required"
  Text,      \* values an environment variable may have
  Unset,     \* the variable is absent or empty
  Default,   \* Default[f]: the default tag of f, Unset if it has none
  Numeral,   \* texts strconv.Atoi accepts
  Atoi       \* Atoi[t]: the number t stands for

ASSUME ConfigurationAssumption ==
  /\ IntField \subseteq Field
  /\ Required \subseteq Field
  /\ Unset \in Text
  /\ Numeral \subseteq Text \ {Unset}
  /\ Atoi \in [Numeral -> Int]
  /\ Default \in [Field -> Text]
  /\ \A f \in IntField : Default[f] \in Numeral \cup {Unset}

Environment == [Field -> Text]
ZeroValue(f) == IF f \in IntField THEN 0 ELSE Unset

(* The kinds of the fields: int or string. *)
WellTyped(cfg) ==
  /\ DOMAIN cfg = Field
  /\ \A f \in Field : IF f \in IntField THEN cfg[f] \in Int ELSE cfg[f] \in Text

(* An empty variable counts as an absent one: the default applies. *)
EnvValue(env, f) == IF env[f] = Unset THEN Default[f] ELSE env[f]


(* mapEnvToStruct returns an error, on which LoadConfig panics. *)
mapEnvFails(env) ==
  \E f \in IntField : EnvValue(env, f) \notin Numeral \cup {Unset}

(* The structure mapEnvToStruct fills; a field without a value keeps its   *)
(* zero value.                                                             *)
mapEnvToStruct(env) ==
  [f \in Field |->
     IF EnvValue(env, f) = Unset THEN ZeroValue(f)
     ELSE IF f \in IntField THEN Atoi[EnvValue(env, f)]
     ELSE EnvValue(env, f)]

(* validator's "required": not the zero value of the field's kind. *)
ValidateConfig(cfg) == \A f \in Required : cfg[f] # ZeroValue(f)
=============================================================================
