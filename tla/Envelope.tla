------------------------------ MODULE Envelope ------------------------------
(***************************************************************************)
(* POST /api/verify as its two ends see it: the example client seals a     *)
(* request with one AES-256-GCM key, the server opens it, verifies, and    *)
(* seals the verdict with another.  Each end has an implementation of its  *)
(* own of the packing: base64 of a nonce and the ciphertext after it.  A   *)
(* packing whose tag fits is the key and the plaintext it was sealed with; *)
(* which nonce it has is left to chance, and tells nothing.                *)
(* Connections break, bytes change on the way, an earlier reply arrives in *)
(* the place of a later one, the server crashes and comes back with        *)
(* another configuration, and people run the client again.  Verification   *)
(* of the one licence is any verdict, in one step: VerifyApi says which.   *)
(***************************************************************************)
EXTENDS Integers

CONSTANTS
  Clients,         \* installations of the client
  Settings,        \* [Clients -> [api_key, client_aes_key, server_aes_key,
                   \*              machine_code]]: their environments
  Configs,         \* the environments operators start the server with
  Keys,            \* AES keys that somebody configures
  Length,          \* [Keys -> Nat]: their bytes
  Blank,           \* a machine code of white space only
  None

KeyBytes == 32

Machines == {Settings[c].machine_code : c \in Clients}
ApiKeys  == {s.api_key : s \in Configs} \cup {Settings[c].api_key : c \in Clients}
Config   == [api_key : ApiKeys, client_aes_key : Keys, server_aes_key : Keys]

\* VerifyResponse.status, as far as it matters here: all the statuses of a
\* refusal (invalid, banned, expired, machine_mismatch) are one.
Verdicts == {"valid", "refused", "error", "bad_request"}

ASSUME EnvelopeAssumption ==
  /\ Length \in [Keys -> Nat]
  /\ Configs \subseteq Config
  /\ \A c \in Clients : {Settings[c].client_aes_key,
                         Settings[c].server_aes_key} \subseteq Keys
  /\ None \notin Configs \cup Clients \cup Machines /\ None \notin Verdicts

VARIABLES
  config,          \* the running server's configuration, None while it is down
  bound,           \* the machine of the licence
  http,            \* [Clients -> what the client's connection holds]
  client,          \* [Clients -> what the client does, or printed last]
  replies          \* history: every reply a server has sealed

vars == <<config, bound, http, client, replies>>

VerifyRequest  == [machine_code : Machines]
VerifyResponse == [status : Verdicts]

\* EncryptedPayload: base64 of a packing whose tag fits one key; or a string
\* that is none, because it is damaged, too short or no base64; or a body
\* that is no such JSON object.
Packed  == [form : {"packed"}, key : Keys,
            plaintext : VerifyRequest \cup VerifyResponse]
Damaged == [form : {"damaged", "not_json"}]
Payload == Packed \cup Damaged

Refusals   == {"400", "401", "500"}
Connection == {[at |-> "closed"]}
  \cup [at : {"sent"},     api_key : ApiKeys, payload : Payload]
  \cup [at : {"verified"}, response : VerifyResponse]
  \cup [at : {"replied"},  code : {"200"}, payload : Payload]
  \cup [at : {"replied"},  code : Refusals]

\* Types.
EnvelopeTypeOK ==
  /\ config \in Configs \cup {None}
  /\ bound \in Machines \cup {None}
  /\ \A c \in Clients :
       /\ \/ http[c].at = "closed"
          \/ http[c].at = "sent" /\ http[c].payload \in Payload
          \/ http[c].at = "verified" /\ http[c].response \in VerifyResponse
          \/ http[c].at = "replied" /\ \/ http[c].code \in Refusals
                                       \/ http[c].payload \in Payload
       /\ client[c] \in {"idle", "waiting", "failed"} \cup Verdicts
       /\ client[c] = "waiting" <=> http[c].at # "closed"
  /\ replies \subseteq Packed

Closed == [at |-> "closed"]
Init ==
  /\ config = None /\ bound = None
  /\ http = [c \in Clients |-> Closed]
  /\ client = [c \in Clients |-> "idle"]
  /\ replies = {}

-----------------------------------------------------------------------------
(* crypto.rs.                                                              *)

validate_aes_key(key) == Length[key] = KeyBytes

Sealed(plaintext, key) ==
  [form |-> "packed", key |-> key, plaintext |-> plaintext]

\* What encrypt_json returns, nothing if it is an error.
encrypt_json(value, key) ==
  IF validate_aes_key(key) THEN {Sealed(value, key)} ELSE {}

\* decrypt_json succeeds: key, base64, length, tag, JSON of the type.
decrypts_to(payload, key, type) ==
  /\ validate_aes_key(key)
  /\ payload.form = "packed"
  /\ payload.key = key
  /\ payload.plaintext \in type

\* The example client's own copies of these.  Mutant: no tag is looked at.
client_decrypts_to_unchecked(payload, key, type) ==
  payload.form = "packed" /\ payload.plaintext \in type
client_validate_key(key) == Length[key] = KeyBytes
client_encrypt_json(value, key) ==
  IF client_validate_key(key) THEN {Sealed(value, key)} ELSE {}
client_decrypts_to(payload, key, type) ==
  /\ client_validate_key(key)
  /\ payload.form = "packed"
  /\ payload.key = key
  /\ payload.plaintext \in type

-----------------------------------------------------------------------------
(* The server.                                                             *)

\* Mutant: only the first of the two keys is looked at.
keys_valid_first(env) == validate_aes_key(env.client_aes_key)
keys_valid(env) ==
  validate_aes_key(env.client_aes_key) /\ validate_aes_key(env.server_aes_key)

\* Config::from_env, and main as far as it depends on it: with a bad key the
\* process ends, else it comes to accept requests.
from_env(env) ==
  /\ config = None
  /\ keys_valid(env)
  /\ config' = env
  /\ UNCHANGED <<bound, http, client, replies>>

Reply(c, reply) ==
  /\ http' = [http EXCEPT ![c] = reply]
  /\ UNCHANGED <<config, client>>
Refuse(c, code) ==
  /\ Reply(c, [at |-> "replied", code |-> code])
  /\ UNCHANGED <<bound, replies>>

\* Mutant: the header is not looked at.
api_key_matches_any(api_key) == TRUE
api_key_matches(api_key) == api_key = config.api_key

\* verify_license up to the call of verify_license_payload: the Json
\* extractor comes first, then the header, then the envelope.
RefuseRequest(c) ==
  /\ config # None /\ http[c].at = "sent"
  /\ \/ http[c].payload.form = "not_json" /\ Refuse(c, "400")
     \/ /\ http[c].payload.form # "not_json"
        /\ ~api_key_matches(http[c].api_key)
        /\ Refuse(c, "401")
     \/ /\ http[c].payload.form # "not_json"
        /\ api_key_matches(http[c].api_key)
        /\ ~decrypts_to(http[c].payload, config.client_aes_key, VerifyRequest)
        /\ Refuse(c, "400")

\* Mutant: the blank fields' status is not one that clients know.
verdict_misspelt(machine_code) ==
  IF machine_code = Blank THEN {"bad-request"} ELSE Verdicts \ {"bad_request"}
\* The verdicts verify_license_payload may come to.
verdict(machine_code) ==
  IF machine_code = Blank THEN {"bad_request"} ELSE Verdicts \ {"bad_request"}

\* Where a verdict may leave the licence: bound to the machine or, because
\* others move it as well, where it was.  An error may come after the write.
may_be_bound(status, machine_code) ==
  IF status \in {"valid", "error"} THEN {machine_code, bound} ELSE {bound}

Verify(c) ==
  LET machine_code == http[c].payload.plaintext.machine_code IN
  /\ config # None /\ http[c].at = "sent"
  /\ api_key_matches(http[c].api_key)
  /\ decrypts_to(http[c].payload, config.client_aes_key, VerifyRequest)
  /\ \E status \in verdict(machine_code) :
       /\ bound' \in may_be_bound(status, machine_code)
       /\ Reply(c, [at |-> "verified", response |-> [status |-> status]])
  /\ UNCHANGED replies

\* encrypted_response: its error branches are status 500.
encrypted_response(c) ==
  LET sealed == encrypt_json(http[c].response, config.server_aes_key) IN
  /\ config # None /\ http[c].at = "verified"
  /\ \/ sealed = {} /\ Refuse(c, "500")
     \/ \E payload \in sealed :
          /\ Reply(c, [at |-> "replied", code |-> "200", payload |-> payload])
          /\ replies' = replies \cup {payload}
          /\ UNCHANGED bound

\* The process dies: its connections close, the database stays.
Crash ==
  /\ config # None /\ config' = None
  /\ http' = [c \in Clients |-> Closed]
  /\ client' = [c \in Clients |->
                  IF client[c] = "waiting" THEN "failed" ELSE client[c]]
  /\ UNCHANGED <<bound, replies>>

-----------------------------------------------------------------------------
(* The client and its connection.                                          *)

Exit(c, outcome) ==
  /\ client' = [client EXCEPT ![c] = outcome]
  /\ http' = [http EXCEPT ![c] = Closed]
  /\ UNCHANGED <<config, bound, replies>>

\* A run of the client starts: its key is bad, or nobody listens, or the
\* sealed request is sent with the header.
Run(c) ==
  LET sealed == client_encrypt_json(
                  [machine_code |-> Settings[c].machine_code],
                  Settings[c].client_aes_key)
  IN
  /\ client[c] # "waiting"
  /\ \/ (sealed = {} \/ config = None) /\ Exit(c, "failed")
     \/ \E payload \in sealed :
          /\ config # None
          /\ client' = [client EXCEPT ![c] = "waiting"]
          /\ http' = [http EXCEPT ![c] =
               [at |-> "sent", api_key |-> Settings[c].api_key,
                payload |-> payload]]
          /\ UNCHANGED <<config, bound, replies>>

\* error_for_status, the JSON body, and the envelope; then it prints.
Receive(c) ==
  LET reads == /\ http[c].code = "200"
               /\ client_decrypts_to(http[c].payload,
                    Settings[c].server_aes_key, VerifyResponse)
  IN
  /\ http[c].at = "replied"
  /\ \/ ~reads /\ Exit(c, "failed")
     \/ reads /\ Exit(c, http[c].payload.plaintext.status)

\* The connection breaks, wherever the request is; send() is an error.
Break(c) == client[c] = "waiting" /\ Exit(c, "failed")

\* Bytes of a request or of a reply change on the way.
Damage(c) ==
  /\ http[c].at = "sent" \/ (http[c].at = "replied" /\ http[c].code = "200")
  /\ http[c].payload.form = "packed"
  /\ \E payload \in Damaged : http' = [http EXCEPT ![c].payload = payload]
  /\ UNCHANGED <<config, bound, client, replies>>

\* A reply that was sealed before, for another run or for another client,
\* arrives instead of this one: nothing in a reply names its request.
Mistake(c) ==
  /\ http[c].at = "replied" /\ http[c].code = "200"
  /\ \E payload \in replies : http' = [http EXCEPT ![c].payload = payload]
  /\ UNCHANGED <<config, bound, client, replies>>

Next ==
  \/ \E env \in Configs : from_env(env)
  \/ Crash
  \/ \E c \in Clients :
       \/ Run(c) \/ Receive(c) \/ Break(c) \/ Damage(c) \/ Mistake(c)
       \/ RefuseRequest(c) \/ Verify(c) \/ encrypted_response(c)

Spec == Init /\ [][Next]_vars

-----------------------------------------------------------------------------
\* Whatever breaks, changes, is mistaken for another reply or restarts on the
\* way: a verdict that a client prints is one that a server has sealed with
\* the key this client knows servers by.  For whom it was sealed and when,
\* the client cannot tell: encrypted_client.rs has nothing to compare.
PrintedWasSealed ==
  \A c \in Clients : client[c] \in Verdicts =>
    Sealed([status |-> client[c]], Settings[c].server_aes_key) \in replies

\* Only installations that some configuration of the server knows, by API
\* key and client key together, ever take the licence: no damage to a request
\* and no change of the configuration lets another in.
HoldersAreKnown ==
  bound # None =>
    \E c \in Clients, env \in Configs :
      /\ Settings[c].machine_code = bound
      /\ Settings[c].api_key = env.api_key
      /\ Settings[c].client_aes_key = env.client_aes_key

\* A server that accepts requests can seal its replies: the branch for a bad
\* key in encrypted_response is never taken.
RepliesCanBeSealed ==
  \A c \in Clients : http[c].at = "replied" => http[c].code # "500"
=============================================================================
