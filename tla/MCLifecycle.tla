----------------------------- MODULE MCLifecycle -----------------------------
(* Three fields stand for the twenty of Config: a required string, a       *)
(* required number and a string with a default.                            *)
EXTENDS Lifecycle, TLC

MCField == {"DATABASE_URL", "GEOAPIFY_REQ_TIMEOUT", "SERVER_PORT"}
MCIntField == {"GEOAPIFY_REQ_TIMEOUT"}
MCRequired == {"DATABASE_URL", "GEOAPIFY_REQ_TIMEOUT"}
MCText == {"", "-1", "0", "8080", "word"}
MCNumeral == {"-1", "0", "8080"}
MCAtoi == ("-1" :> -1) @@ ("0" :> 0) @@ ("8080" :> 8080)
MCDefault ==
  [f \in MCField |-> IF f = "SERVER_PORT" THEN "8080" ELSE ""]
MCListenable == {"0", "8080"}
=============================================================================
