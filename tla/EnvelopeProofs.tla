---------------------------- MODULE EnvelopeProofs ----------------------------
(***************************************************************************)
(* Theorems about Envelope for every value of its constants.               *)
(***************************************************************************)
EXTENDS Envelope, TLAPS

-----------------------------------------------------------------------------
(* Types.                                                                  *)

Waiting == \A c \in Clients : client[c] = "waiting" <=> http[c].at # "closed"
TypeInv ==
  /\ config \in Configs \cup {None}
  /\ bound \in Machines \cup {None}
  /\ http \in [Clients -> Connection]
  /\ client \in [Clients -> {"idle", "waiting", "failed"} \cup Verdicts]
  /\ replies \subseteq Packed
  /\ Waiting

\* What a connection holds, by where the request is.
LEMMA ConnectionKinds ==
  ASSUME NEW x \in Connection
  PROVE  /\ x.at \in {"closed", "sent", "verified", "replied"}
         /\ x.at = "sent" => /\ x.api_key \in ApiKeys /\ x.payload \in Payload
                             /\ x = [at |-> "sent", api_key |-> x.api_key,
                                     payload |-> x.payload]
         /\ x.at = "verified" => x.response \in VerifyResponse
         /\ x.at = "replied" =>
              \/ x.code \in Refusals
              \/ /\ x.code = "200" /\ x.payload \in Payload
                 /\ x = [at |-> "replied", code |-> "200", payload |-> x.payload]
BY DEF Connection, Refusals

\* The invariant on types implies the one the runs check.
LEMMA Types == TypeInv => EnvelopeTypeOK
<1> SUFFICES ASSUME TypeInv, NEW c \in Clients
             PROVE  \/ http[c].at = "closed"
                    \/ http[c].at = "sent" /\ http[c].payload \in Payload
                    \/ http[c].at = "verified" /\ http[c].response \in VerifyResponse
                    \/ http[c].at = "replied" /\ \/ http[c].code \in Refusals
                                                 \/ http[c].payload \in Payload
  BY DEF TypeInv, Waiting, EnvelopeTypeOK
<1>1. http[c] \in Connection
  BY DEF TypeInv
<1> QED BY <1>1, ConnectionKinds

\* Sealing gives a packing, and damage takes its form away.
LEMMA PayloadForms ==
  /\ \A key \in Keys, plaintext \in VerifyRequest \cup VerifyResponse :
       Sealed(plaintext, key) \in Packed
  /\ \A p \in Packed : p \in Payload /\ p.form = "packed"
  /\ \A p \in Damaged : p \in Payload /\ p.form # "packed"
  /\ \A p \in Payload : p.form = "packed" =>
       p \in Packed /\ p = Sealed(p.plaintext, p.key)
BY DEF Sealed, Packed, Damaged, Payload

\* What the installations and the configurations are made of.
LEMMA Constants ==
  /\ None \notin Configs /\ None \notin Machines /\ None \notin Verdicts
  /\ \A c \in Clients :
       /\ Settings[c].client_aes_key \in Keys /\ Settings[c].server_aes_key \in Keys
       /\ Settings[c].machine_code \in Machines /\ Settings[c].api_key \in ApiKeys
       /\ [machine_code |-> Settings[c].machine_code] \in VerifyRequest
  /\ \A env \in Configs : /\ env.client_aes_key \in Keys
                          /\ env.server_aes_key \in Keys
BY EnvelopeAssumption DEF Machines, ApiKeys, VerifyRequest, Config

-----------------------------------------------------------------------------
(* What is on the way.                                                     *)

\* As long as it is undamaged, a request carries the machine code that its
\* installation put in, and a reply is one that was sealed.
Honest(c) ==
  LET x == http[c] IN
  /\ x.at = "sent" =>
       /\ x.api_key = Settings[c].api_key
       /\ x.payload.form = "packed" =>
            /\ x.payload.key = Settings[c].client_aes_key
            /\ x.payload.plaintext
                 = [machine_code |-> Settings[c].machine_code]
  /\ x.at = "replied" =>
       /\ x.code # "500"
       /\ x.code = "200" /\ x.payload.form = "packed" => x.payload \in replies

EnvelopeInv ==
  /\ config # None => keys_valid(config)
  /\ \A c \in Clients : Honest(c)
  /\ PrintedWasSealed
  /\ HoldersAreKnown

\* A step on one connection leaves the others alone.
OnlyAt(c) ==
  \A d \in Clients \ {c} : http'[d] = http[d] /\ client'[d] = client[d]

\* A client that starts sends its own machine code, sealed.
LEMMA RunStep ==
  ASSUME TypeInv, EnvelopeInv, NEW c \in Clients, Run(c)
  PROVE  /\ OnlyAt(c) /\ UNCHANGED <<config, bound, replies>>
         /\ http'[c] \in Connection
         /\ \/ client'[c] = "failed" /\ http'[c].at = "closed"
            \/ client'[c] = "waiting" /\ http'[c].at = "sent"
         /\ Honest(c)'
<1> DEFINE plaintext == [machine_code |-> Settings[c].machine_code]
           key == Settings[c].client_aes_key
<1>0. /\ http \in [Clients -> Connection] /\ DOMAIN client = Clients
      /\ plaintext \in VerifyRequest /\ key \in Keys
      /\ Settings[c].api_key \in ApiKeys
  BY Constants DEF TypeInv
<1>1. CASE Exit(c, "failed")
  BY <1>0, <1>1 DEF Exit, Closed, Connection, OnlyAt, Honest
<1>2. ASSUME NEW payload \in client_encrypt_json(plaintext, key),
             client' = [client EXCEPT ![c] = "waiting"],
             http' = [http EXCEPT ![c] =
                        [at |-> "sent", api_key |-> Settings[c].api_key,
                         payload |-> payload]],
             UNCHANGED <<config, bound, replies>>
      PROVE  /\ OnlyAt(c) /\ http'[c] \in Connection
             /\ client'[c] = "waiting" /\ http'[c].at = "sent"
             /\ Honest(c)'
  <2>1. payload = Sealed(plaintext, key)
    BY <1>2 DEF client_encrypt_json
  <2>2. payload \in Payload
    BY <1>0, <2>1, PayloadForms
  <2>3. http'[c] = [at |-> "sent", api_key |-> Settings[c].api_key,
                    payload |-> payload]
    BY <1>0, <1>2
  <2>4. http'[c] \in Connection
    BY <1>0, <2>2, <2>3 DEF Connection
  <2>5. Honest(c)'
    BY <2>1, <2>3 DEF Honest, Sealed
  <2> QED BY <1>0, <1>2, <2>3, <2>4, <2>5 DEF OnlyAt
<1> QED BY <1>1, <1>2 DEF Run, Exit

\* A client prints only what was sealed with the key it knows servers by.
LEMMA ReceiveStep ==
  ASSUME TypeInv, EnvelopeInv, NEW c \in Clients, Receive(c) \/ Break(c)
  PROVE  /\ OnlyAt(c) /\ UNCHANGED <<config, bound, replies>>
         /\ http'[c] = Closed
         /\ client'[c] \in {"failed"} \cup Verdicts
         /\ client'[c] \in Verdicts =>
              Sealed([status |-> client'[c]], Settings[c].server_aes_key)
                \in replies
<1>0. /\ http \in [Clients -> Connection] /\ DOMAIN client = Clients
      /\ http[c] \in Connection /\ Honest(c)
  BY DEF TypeInv, EnvelopeInv
<1>1. ASSUME NEW outcome, Exit(c, outcome)
      PROVE  /\ OnlyAt(c) /\ UNCHANGED <<config, bound, replies>>
             /\ http'[c] = Closed /\ client'[c] = outcome
  BY <1>0, <1>1 DEF Exit, OnlyAt
<1>2. "failed" \notin Verdicts
  BY DEF Verdicts
<1>3. CASE Break(c)
  BY <1>1, <1>2, <1>3 DEF Break
<1>4. CASE Receive(c)
  <2> DEFINE p == http[c].payload
             reads == /\ http[c].code = "200"
                      /\ client_decrypts_to(p, Settings[c].server_aes_key,
                                            VerifyResponse)
  <2>1. CASE ~reads
    BY <1>1, <1>2, <1>4, <2>1 DEF Receive
  <2>2. CASE reads
    <3>1. /\ p.form = "packed" /\ p.key = Settings[c].server_aes_key
          /\ p.plaintext \in VerifyResponse
      BY <2>2 DEF client_decrypts_to
    <3>2. p \in replies
      BY <1>0, <1>4, <2>2, <3>1 DEF Receive, Honest
    <3>3. p = Sealed(p.plaintext, p.key)
      BY <3>1, <3>2, PayloadForms DEF TypeInv
    <3>4. /\ p.plaintext = [status |-> p.plaintext.status]
          /\ p.plaintext.status \in Verdicts
      BY <3>1 DEF VerifyResponse
    <3> QED BY <1>1, <1>4, <2>2, <3>1, <3>2, <3>3, <3>4 DEF Receive
  <2> QED BY <2>1, <2>2
<1> QED BY <1>3, <1>4

\* Damage leaves a payload that nobody can open, and a mistake leaves one
\* that was sealed.
LEMMA OnTheWayStep ==
  ASSUME TypeInv, EnvelopeInv, NEW c \in Clients, Damage(c) \/ Mistake(c)
  PROVE  /\ OnlyAt(c) /\ UNCHANGED <<config, bound, client, replies>>
         /\ http'[c] \in Connection /\ http'[c].at = http[c].at
         /\ http'[c].at # "closed" /\ Honest(c)'
<1>0. /\ http \in [Clients -> Connection] /\ http[c] \in Connection /\ Honest(c)
      /\ replies \subseteq Packed
  BY DEF TypeInv, EnvelopeInv
<1>1. /\ UNCHANGED <<config, bound, client, replies>>
      /\ \/ http[c].at = "sent"
         \/ http[c].at = "replied" /\ http[c].code = "200"
  BY DEF Damage, Mistake
<1>2. PICK new \in Damaged \cup replies :
        /\ http' = [http EXCEPT ![c].payload = new]
        /\ http[c].at = "sent" => new \in Damaged
  BY DEF Damage, Mistake
<1>3. /\ new \in Payload
      /\ new.form = "packed" => new \in replies /\ http[c].at # "sent"
  BY <1>0, <1>2, PayloadForms
<1>4. CASE http[c].at = "sent"
  <2>1. http'[c] = [at |-> "sent", api_key |-> http[c].api_key, payload |-> new]
        /\ http[c].api_key \in ApiKeys
    BY <1>0, <1>2, <1>4, ConnectionKinds
  <2> QED BY <1>0, <1>1, <1>2, <1>3, <1>4, <2>1 DEF Connection, Honest, OnlyAt
<1>5. CASE http[c].at = "replied" /\ http[c].code = "200"
  <2>1. http'[c] = [at |-> "replied", code |-> "200", payload |-> new]
    BY <1>0, <1>2, <1>5, ConnectionKinds DEF Refusals
  <2> QED BY <1>0, <1>1, <1>2, <1>3, <1>5, <2>1 DEF Connection, Honest, OnlyAt
<1> QED BY <1>1, <1>4, <1>5

\* What the server replies is a verdict, sealed, or a refusal.
LEMMA ReplyStep ==
  ASSUME TypeInv, EnvelopeInv, NEW c \in Clients,
         RefuseRequest(c) \/ encrypted_response(c)
  PROVE  /\ OnlyAt(c) /\ UNCHANGED <<config, bound, client>>
         /\ replies \subseteq replies' /\ replies' \subseteq Packed
         /\ http[c].at # "closed"
         /\ http'[c] \in Connection /\ http'[c].at = "replied" /\ Honest(c)'
<1>0. /\ http \in [Clients -> Connection] /\ http[c] \in Connection
      /\ replies \subseteq Packed
  BY DEF TypeInv
<1>1. ASSUME NEW code \in {"400", "401"}, Refuse(c, code)
      PROVE  /\ OnlyAt(c) /\ UNCHANGED <<config, bound, client, replies>>
             /\ http'[c] \in Connection /\ http'[c].at = "replied" /\ Honest(c)'
  <2>1. http'[c] = [at |-> "replied", code |-> code]
    BY <1>0, <1>1 DEF Refuse, Reply
  <2>2. http'[c] \in Connection
    BY <2>1 DEF Connection, Refusals
  <2> QED BY <1>0, <1>1, <2>1, <2>2 DEF Refuse, Reply, OnlyAt, Honest
<1>2. CASE RefuseRequest(c)
  BY <1>0, <1>1, <1>2 DEF RefuseRequest
<1>3. CASE encrypted_response(c)
  <2> DEFINE key == config.server_aes_key
             payload == Sealed(http[c].response, key)
  <2>1. http[c].at = "verified" /\ http[c].response \in VerifyResponse
    BY <1>0, <1>3, ConnectionKinds DEF encrypted_response
  <2>2. key \in Keys /\ keys_valid(config)
    BY <1>3, Constants DEF encrypted_response, TypeInv, EnvelopeInv
  <2>3. encrypt_json(http[c].response, key) = {payload}
    BY <2>2 DEF encrypt_json, keys_valid
  <2>4. /\ Reply(c, [at |-> "replied", code |-> "200", payload |-> payload])
        /\ replies' = replies \cup {payload} /\ UNCHANGED bound
    BY <1>3, <2>3 DEF encrypted_response
  <2>5. payload \in Packed /\ payload \in Payload
    BY <2>1, <2>2, PayloadForms
  <2> HIDE DEF payload
  <2>6. http'[c] = [at |-> "replied", code |-> "200", payload |-> payload]
    BY <1>0, <2>4 DEF Reply
  <2>7. http'[c] \in Connection
    BY <2>5, <2>6 DEF Connection
  <2> QED BY <1>0, <2>1, <2>4, <2>5, <2>6, <2>7 DEF Reply, OnlyAt, Honest
<1>4. http[c].at # "closed"
  BY DEF RefuseRequest, encrypted_response
<1> QED BY <1>0, <1>2, <1>3, <1>4

\* A request that the server opens is the installation's own.
LEMMA VerifyStep ==
  ASSUME TypeInv, EnvelopeInv, NEW c \in Clients, Verify(c)
  PROVE  /\ OnlyAt(c) /\ UNCHANGED <<config, client, replies>>
         /\ http[c].at # "closed"
         /\ http'[c] \in Connection /\ http'[c].at = "verified" /\ Honest(c)'
         /\ bound' \in {bound, Settings[c].machine_code}
         /\ config \in Configs
         /\ Settings[c].api_key = config.api_key
         /\ Settings[c].client_aes_key = config.client_aes_key
<1> DEFINE p == http[c].payload   machine == Settings[c].machine_code
<1>0. /\ http \in [Clients -> Connection] /\ http[c] \in Connection /\ Honest(c)
      /\ config \in Configs
  BY DEF TypeInv, EnvelopeInv, Verify
<1>1. /\ http[c].at = "sent" /\ http[c].api_key = Settings[c].api_key
      /\ http[c].api_key = config.api_key
      /\ p.form = "packed" /\ p.key = config.client_aes_key
  BY <1>0 DEF Verify, Honest, api_key_matches, decrypts_to
<1>2. /\ p.key = Settings[c].client_aes_key
      /\ p.plaintext = [machine_code |-> machine]
  BY <1>0, <1>1 DEF Honest
<1>3. p.plaintext.machine_code = machine
  BY <1>2
<1>4. PICK status \in verdict(machine) :
        /\ bound' \in may_be_bound(status, machine)
        /\ Reply(c, [at |-> "verified", response |-> [status |-> status]])
  BY <1>3 DEF Verify
<1>5. status \in Verdicts /\ bound' \in {bound, machine}
  BY <1>4 DEF verdict, Verdicts, may_be_bound
<1>6. http'[c] = [at |-> "verified", response |-> [status |-> status]]
  BY <1>0, <1>4 DEF Reply
<1>7. http'[c] \in Connection
  BY <1>5, <1>6 DEF Connection, VerifyResponse
<1>8. Honest(c)'
  BY <1>6 DEF Honest
<1> QED
  BY <1>0, <1>1, <1>2, <1>4, <1>5, <1>6, <1>7, <1>8 DEF Verify, Reply, OnlyAt

\* A step on one connection that moves the licence nowhere new and forgets no
\* reply keeps the invariant.
LEMMA StepAt ==
  ASSUME TypeInv, EnvelopeInv, NEW c \in Clients, OnlyAt(c), HoldersAreKnown',
         Honest(c)', replies \subseteq replies', config' = config,
         client'[c] \in Verdicts =>
           Sealed([status |-> client'[c]], Settings[c].server_aes_key)
             \in replies'
  PROVE  EnvelopeInv'
<1>1. ASSUME NEW d \in Clients PROVE Honest(d)'
  <2>1. CASE d # c
    BY <2>1 DEF EnvelopeInv, OnlyAt, Honest
  <2> QED BY <2>1
<1>2. PrintedWasSealed'
  BY DEF EnvelopeInv, OnlyAt, PrintedWasSealed
<1> QED BY <1>1, <1>2 DEF EnvelopeInv

\* Every step of clients, server and network keeps the invariant.
LEMMA StepKeepsInv ==
  ASSUME TypeInv, EnvelopeInv, [Next]_vars PROVE EnvelopeInv'
<1>0. UNCHANGED bound => HoldersAreKnown'
  BY DEF EnvelopeInv, HoldersAreKnown
<1>1. ASSUME NEW c \in Clients, Run(c) PROVE EnvelopeInv'
  <2>1. client'[c] \notin Verdicts
    BY <1>1, RunStep DEF Verdicts
  <2> QED BY <1>0, <1>1, <2>1, RunStep, StepAt
<1>2. ASSUME NEW c \in Clients, Receive(c) \/ Break(c) PROVE EnvelopeInv'
  <2>1. http'[c] = Closed
    BY <1>2, ReceiveStep
  <2>2. Honest(c)'
    BY <2>1 DEF Closed, Honest
  <2> QED BY <1>0, <1>2, <2>2, ReceiveStep, StepAt
<1>3. ASSUME NEW c \in Clients, Damage(c) \/ Mistake(c) PROVE EnvelopeInv'
  BY <1>0, <1>3, OnTheWayStep, StepAt DEF EnvelopeInv, PrintedWasSealed
<1>4. ASSUME NEW c \in Clients, RefuseRequest(c) \/ encrypted_response(c)
      PROVE  EnvelopeInv'
  BY <1>0, <1>4, ReplyStep, StepAt DEF EnvelopeInv, PrintedWasSealed
<1>5. ASSUME NEW c \in Clients, Verify(c) PROVE EnvelopeInv'
  <2>1. HoldersAreKnown'
    <3>1. CASE bound' = bound
      BY <1>0, <3>1
    <3>2. CASE bound' = Settings[c].machine_code
      BY <1>5, <3>2, VerifyStep DEF HoldersAreKnown
    <3> QED BY <1>5, <3>1, <3>2, VerifyStep
  <2> QED BY <1>5, <2>1, VerifyStep, StepAt DEF EnvelopeInv, PrintedWasSealed
<1>6. ASSUME NEW env \in Configs, from_env(env) PROVE EnvelopeInv'
  BY <1>6 DEF from_env, EnvelopeInv, Honest, PrintedWasSealed,
              HoldersAreKnown, keys_valid
<1>7. CASE Crash
  <2>1. /\ config' = None /\ UNCHANGED <<bound, replies>>
        /\ \A c \in Clients : /\ http'[c].at = "closed"
                              /\ client'[c] \in {"failed", client[c]}
    BY <1>7 DEF Crash, Closed
  <2>2. "failed" \notin Verdicts
    BY DEF Verdicts
  <2> QED BY <1>0, <2>1, <2>2 DEF EnvelopeInv, Honest, PrintedWasSealed
<1>8. CASE UNCHANGED vars
  BY <1>8 DEF vars, EnvelopeInv, Honest, PrintedWasSealed, HoldersAreKnown
<1> QED
  BY <1>1, <1>2, <1>3, <1>4, <1>5, <1>6, <1>7, <1>8 DEF Next

\* Every step keeps the types.
LEMMA TypesStep ==
  ASSUME TypeInv, EnvelopeInv, [Next]_vars PROVE TypeInv'
<1>0. /\ http \in [Clients -> Connection]
      /\ client \in [Clients -> {"idle", "waiting", "failed"} \cup Verdicts]
      /\ replies \subseteq Packed
      /\ config \in Configs \cup {None} /\ bound \in Machines \cup {None}
      /\ "waiting" \notin Verdicts /\ Closed \in Connection /\ Closed.at = "closed"
  BY DEF TypeInv, Verdicts, Closed, Connection
<1>1. ASSUME NEW c \in Clients, OnlyAt(c),
             DOMAIN http' = Clients, DOMAIN client' = Clients,
             http' = [d \in Clients |-> http'[d]],
             client' = [d \in Clients |-> client'[d]],
             http'[c] \in Connection, replies' \subseteq Packed,
             client'[c] \in {"idle", "waiting", "failed"} \cup Verdicts,
             config' = config, bound' \in Machines \cup {None},
             client'[c] = "waiting" <=> http'[c].at # "closed"
      PROVE  TypeInv'
  BY <1>0, <1>1 DEF TypeInv, Waiting, OnlyAt
<1>2. ASSUME NEW c \in Clients,
             \/ Run(c) \/ Receive(c) \/ Break(c) \/ Damage(c) \/ Mistake(c)
             \/ RefuseRequest(c) \/ Verify(c) \/ encrypted_response(c)
      PROVE  /\ http' = [d \in Clients |-> http'[d]]
             /\ client' = [d \in Clients |-> client'[d]]
             /\ DOMAIN http' = Clients /\ DOMAIN client' = Clients
  BY <1>0, <1>2 DEF Run, Receive, Break, Damage, Mistake, RefuseRequest, Verify,
     encrypted_response, Refuse, Reply, Exit
<1>3. ASSUME NEW c \in Clients, Run(c) PROVE TypeInv'
  BY <1>0, <1>1, <1>2, <1>3, RunStep
<1>4. ASSUME NEW c \in Clients, Receive(c) \/ Break(c) PROVE TypeInv'
  BY <1>0, <1>1, <1>2, <1>4, ReceiveStep
<1>5. ASSUME NEW c \in Clients,
             \/ Damage(c) \/ Mistake(c)
             \/ RefuseRequest(c) \/ encrypted_response(c)
      PROVE  TypeInv'
  <2>1. /\ OnlyAt(c) /\ UNCHANGED <<config, bound, client>>
        /\ http'[c] \in Connection /\ replies' \subseteq Packed
        /\ http[c].at # "closed" /\ http'[c].at # "closed"
    BY <1>0, <1>5, OnTheWayStep, ReplyStep
  <2>2. client[c] = "waiting"
    BY <1>0, <2>1 DEF TypeInv, Waiting
  <2> QED BY <1>0, <1>1, <1>2, <1>5, <2>1, <2>2
<1>6. ASSUME NEW c \in Clients, Verify(c) PROVE TypeInv'
  <2> DEFINE machine == Settings[c].machine_code
  <2>1. /\ OnlyAt(c) /\ UNCHANGED <<config, client, replies>>
        /\ http[c].at # "closed"
        /\ http'[c] \in Connection /\ http'[c].at = "verified"
        /\ bound' \in {machine, bound}
    BY <1>6, VerifyStep
  <2>2. client[c] = "waiting" /\ machine \in Machines
    BY <2>1, Constants DEF TypeInv, Waiting
  <2> QED BY <1>0, <1>1, <1>2, <1>6, <2>1, <2>2
<1>7. ASSUME NEW env \in Configs, from_env(env) PROVE TypeInv'
  BY <1>7 DEF from_env, TypeInv, Waiting
<1>8. CASE Crash
  <2>1. /\ http' \in [Clients -> Connection]
        /\ client' \in [Clients -> {"idle", "waiting", "failed"} \cup Verdicts]
        /\ \A c \in Clients : client'[c] # "waiting" /\ http'[c].at = "closed"
    BY <1>0, <1>8 DEF Crash
  <2> QED BY <1>0, <1>8, <2>1 DEF Crash, TypeInv, Waiting
<1>9. CASE UNCHANGED vars
  BY <1>9 DEF vars, TypeInv, Waiting
<1> QED BY <1>3, <1>4, <1>5, <1>6, <1>7, <1>8, <1>9 DEF Next

\* What the theorems below share: whatever is on its way undamaged is what
\* its installation or a server sealed.
THEOREM EnvelopeCorrect == Spec => [](TypeInv /\ EnvelopeInv)
<1>1. Init => TypeInv
  BY DEF Init, TypeInv, Waiting, Closed, Connection
<1>2. Init => EnvelopeInv
  BY DEF Init, Closed, EnvelopeInv, Honest, PrintedWasSealed, HoldersAreKnown,
         Verdicts
<1>3. TypeInv /\ EnvelopeInv /\ [Next]_vars => TypeInv' /\ EnvelopeInv'
  BY TypesStep, StepKeepsInv
<1> QED BY <1>1, <1>2, <1>3, PTL DEF Spec

\* For every set of installations, configurations and keys: both ends and the
\* connections between them hold what they are meant to hold.
THEOREM EnvelopeTypeCorrect == Spec => []EnvelopeTypeOK
BY EnvelopeCorrect, Types, PTL

\* Whatever breaks, changes, is mistaken for another reply or restarts between
\* the two ends: a verdict that a client prints is one that a server sealed
\* with the key this client knows servers by.
THEOREM PrintedIsSealed == Spec => []PrintedWasSealed
<1>1. EnvelopeInv => PrintedWasSealed
  BY DEF EnvelopeInv
<1> QED BY <1>1, EnvelopeCorrect, PTL

\* Only an installation that a configuration knows, by API key and client key
\* together, ever takes the licence.
THEOREM HoldersAreInstalled == Spec => []HoldersAreKnown
<1>1. EnvelopeInv => HoldersAreKnown
  BY DEF EnvelopeInv
<1> QED BY <1>1, EnvelopeCorrect, PTL

\* Because from_env looks at both keys, no reply fails to be sealed.
THEOREM RepliesAreSealed == Spec => []RepliesCanBeSealed
<1>1. EnvelopeInv => RepliesCanBeSealed
  BY DEF EnvelopeInv, Honest, RepliesCanBeSealed
<1> QED BY <1>1, EnvelopeCorrect, PTL
=============================================================================
