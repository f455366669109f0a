----------------------------- MODULE MCEnvelope -----------------------------
(***************************************************************************)
(* An installation that the first configuration of the server serves, one  *)
(* whose machine code is blank, one with another API key, one with a short *)
(* AES key; a configuration with the other API key but another client key, *)
(* one with another server key, and two that from_env refuses.             *)
(***************************************************************************)
EXTENDS Envelope, TLC

CONSTANTS a, blank, other, short, k1, k2, k3, wrong

MCLength == [k \in Keys |-> IF k = wrong THEN 31 ELSE 32]

Env(api_key, client_key, server_key) ==
  [api_key |-> api_key, client_aes_key |-> client_key,
   server_aes_key |-> server_key]
MCConfigs == {Env("key", k1, k2), Env("other", k3, k2), Env("key", k1, k3),
              Env("key", k1, wrong), Env("key", wrong, k2)}

Installed(env, machine) == env @@ [machine_code |-> machine]
MCSettings ==
  a :> Installed(Env("key", k1, k2), a) @@
  blank :> Installed(Env("key", k1, k2), blank) @@
  other :> Installed(Env("other", k1, k2), other) @@
  short :> Installed(Env("key", wrong, k2), short)
=============================================================================
