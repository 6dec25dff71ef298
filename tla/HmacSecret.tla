------------------------------ MODULE HmacSecret ------------------------------
(***************************************************************************)
(* The commands of ctap2.Client (GetPINToken, MakeCredential,              *)
(* GetAssertion) and PIN/UV auth protocol two beneath them, over one       *)
(* connection that keeps what Exchange promises: answers arrive whole and  *)
(* in order, but a call may give up on one, which the next may then get.   *)
(* The facade above keeps the tokens.                                      *)
(*                                                                         *)
(* Cryptography is symbolic: the shared secret of the client's key pair e  *)
(* and the authenticator's key pair k is <<e, k>>, what is encrypted is a  *)
(* record of key and plaintext, and decrypting with another key gives      *)
(* Garbage of the right length: CBC has no integrity.                      *)
(***************************************************************************)
EXTENDS Integers, Sequences, FiniteSets

CONSTANTS
    RPs,        \* relying party IDs
    Salts,      \* salts of 32 bytes
    None, Garbage,
    MaxCalls,   \* bound: commands called
    MaxKeys     \* bound: times the authenticator makes a new key pair

ASSUME HmacAssumption ==
    /\ MaxCalls \in Nat /\ MaxKeys \in Nat
    /\ None # Garbage /\ {None, Garbage} \cap (Salts \cup RPs \cup Nat) = {}
    /\ Garbage # "right"

VARIABLES
    pc,         \* where the running command is
    call,       \* the running command and its locals
    eph,        \* ephemeral key pairs generated so far
    tokens,     \* the token the facade has cached for each relying party
    out,        \* history: how every command ended
    requests,   \* requests on their way
    answers,    \* answers not yet read
    pinSet,     \* the authenticator has a PIN (Info.PINSet)
    authKey,    \* the authenticator's key pair
    creds,      \* relying parties of the credentials it has made
    blamed      \* history: right PINs it has counted as wrong

client == <<pc, call, eph, tokens, out>>
authenticator == <<pinSet, authKey, creds, blamed>>
vars == <<client, requests, answers, authenticator>>

-----------------------------------------------------------------------------
(* Data *)

\* ecdhKeyPair.sharedSecret and kdfProtocolTwo: each side combines its own
\* key pair with the other's public key.
SharedSecret(e, k) == <<e, k>>

\* pinEncrypt, pinDecrypt
Encrypt(key, plain) == [key |-> key, plain |-> plain]
Decrypt(key, c) == IF c.key = key THEN c.plain ELSE Garbage

\* pinAuthenticate of clientDataHash, or of the encrypted salt: whoever has
\* the key can tell.
Authenticate(key) == <<"mac", key>>

\* A request: what is asked for, the relying party and credential concerned,
\* pinUvAuthParam, our public key, what is encrypted and saltAuth.
Ask(kind, rp, cred, auth, point, enc, mac) ==
    [kind |-> kind, rp |-> rp, cred |-> cred, auth |-> auth, point |-> point,
     enc |-> enc, mac |-> mac]

KeyRequest == Ask("key", None, None, None, None, None, None)

\* An answer: what it is to, and what it holds.
Message(kind, body) == [kind |-> kind, body |-> body]
Refusal == Message("error", None)

NoCall == [op |-> "none", rp |-> None, plain |-> None, cred |-> None, shared |-> None]

\* The pinUvAuthToken of a relying party, and the secret of a credential.
TokenOf(r) == <<"token", r>>
Secret(cred, salt) == <<cred, salt>>

Init ==
    /\ pc = "idle" /\ call = NoCall /\ eph = 0 /\ tokens = [r \in RPs |-> None]
    /\ out = << >>
    /\ requests = << >> /\ answers = << >>
    /\ pinSet \in BOOLEAN /\ authKey = 0 /\ creds \in {<<r>> : r \in RPs} /\ blamed = 0

-----------------------------------------------------------------------------
(* The client *)

Send(m) == requests' = Append(requests, m)

\* The command ends: "ok" with a value, "refused" by the authenticator or
\* before anything was sent, "late" when it gave up waiting, "failed" when it
\* could not use the answer.
End(res, value) ==
    /\ out' = Append(out, [op |-> call.op, rp |-> call.rp, plain |-> call.plain,
                           cred |-> call.cred, res |-> res, value |-> value])
    /\ pc' = "idle" /\ call' = NoCall

Idle == pc = "idle" /\ Len(out) < MaxCalls

\* sessionPINToken asks for a token only when it has none, the commands are
\* called with the token of their relying party, or with none.
Ready(r) == pinSet => tokens[r] # None

\* keyAgreement's request.
AskKey(op, r, plain, cred) ==
    /\ call' = [NoCall EXCEPT !.op = op, !.rp = r, !.plain = plain, !.cred = cred]
    /\ Send(KeyRequest)
    /\ pc' = "key"

StartGetPINToken ==
    /\ Idle
    /\ \E r \in RPs, pin \in {"right", "wrong"} :
          ~Ready(r) /\ AskKey("token", r, pin, None)
    /\ UNCHANGED <<eph, tokens, out, answers, authenticator>>

\* The credential is one the authenticator has made, for this relying party
\* or another.
StartGetAssertion ==
    /\ Idle
    /\ \E r \in RPs, salt \in Salts, cred \in DOMAIN creds :
          Ready(r) /\ AskKey("secret", r, salt, cred)
    /\ UNCHANGED <<eph, tokens, out, answers, authenticator>>

\* GetAssertion refuses a salt that is not 32 bytes long.
RefuseSalt ==
    /\ Idle
    /\ \E r \in RPs : Ready(r)
    /\ out' = Append(out, [op |-> "secret", rp |-> None, plain |-> None, cred |-> None,
                           res |-> "refused", value |-> None])
    /\ UNCHANGED <<pc, call, eph, tokens, requests, answers, authenticator>>

\* pinUvAuthParam: computed with the token the facade passes.
AuthParam(r) == IF pinSet THEN Authenticate(tokens[r]) ELSE None

StartMakeCredential ==
    /\ Idle
    /\ \E r \in RPs :
          /\ Ready(r)
          /\ call' = [NoCall EXCEPT !.op = "cred", !.rp = r]
          /\ Send(Ask("cred", r, None, AuthParam(r), None, None, None))
    /\ pc' = "answer"
    /\ UNCHANGED <<eph, tokens, out, answers, authenticator>>

\* Read gives up, or a report is refused; the answer comes later, or is lost.
TimesOut ==
    /\ pc \in {"key", "answer"}
    /\ answers' \in {answers} \cup {SubSeq(answers, k, Len(answers)) : k \in 2..(Len(answers) + 1)}
    /\ End("late", None)
    /\ UNCHANGED <<eph, tokens, requests, authenticator>>

Answer == Head(answers)
Receives == answers # << >> /\ answers' = Tail(answers)

\* Each kind of answer is a CBOR map in which the decoders of the others find
\* nothing they accept: a key where a token or authenticator data is wanted,
\* authenticator data without the credential or the extension, ...
Fits(kind) == Answer.kind = kind
Wanted == IF pc = "key" THEN "key" ELSE call.op

Refused ==
    /\ pc \in {"key", "answer"} /\ Receives
    /\ Answer.kind = "error"
    /\ End("refused", None)
    /\ UNCHANGED <<eph, tokens, requests, authenticator>>

Undecodable ==
    /\ pc \in {"key", "answer"} /\ Receives
    /\ Answer.kind # "error" /\ ~Fits(Wanted)
    /\ End("failed", None)
    /\ UNCHANGED <<eph, tokens, requests, authenticator>>

\* generateECDHKeyPair
NewKeyPair == eph + 1

\* Wrong on purpose: the authenticator's first key is used for ever.
FirstPeerKey == 0

PeerKey == Answer.body

SealedRequest(shared) ==
    Ask(call.op, call.rp, call.cred, IF call.op = "secret" THEN AuthParam(call.rp) ELSE None,
        NewKeyPair, Encrypt(shared, call.plain), Authenticate(shared))

\* The shared secret is derived and the command proper sent, the PIN hash or
\* the salt encrypted under it.
KeyAgreed ==
    /\ pc = "key" /\ Receives /\ Answer.kind # "error" /\ Fits("key")
    /\ eph' = NewKeyPair
    /\ LET shared == SharedSecret(NewKeyPair, PeerKey)
       IN /\ call' = [call EXCEPT !.shared = shared]
          /\ Send(SealedRequest(shared))
    /\ pc' = "answer"
    /\ UNCHANGED <<tokens, out, authenticator>>

\* Wrong on purpose: what was received is returned as it is.
Undecrypted == Garbage

\* What GetPINToken and GetAssertion make of the answer.
Decrypted == Decrypt(call.shared, Answer.body)

\* GetPINToken returns, and the facade caches the token.
GetPINToken ==
    /\ pc = "answer" /\ call.op = "token" /\ Receives
    /\ Answer.kind # "error" /\ Fits("token")
    /\ tokens' = [tokens EXCEPT ![call.rp] = Decrypted]
    /\ End("ok", Decrypted)
    /\ UNCHANGED <<eph, requests, authenticator>>

\* Wrong on purpose: a counter of its own numbers the credentials.
MakeCredentialBefore ==
    /\ pc = "answer" /\ call.op = "cred" /\ Receives
    /\ Answer.kind # "error" /\ Fits("cred")
    /\ End("ok", 1)
    /\ UNCHANGED <<eph, tokens, requests, authenticator>>

MakeCredential ==
    /\ pc = "answer" /\ call.op = "cred" /\ Receives
    /\ Answer.kind # "error" /\ Fits("cred")
    /\ End("ok", Answer.body)
    /\ UNCHANGED <<eph, tokens, requests, authenticator>>

\* Wrong on purpose: the extension's output is returned as it is.
GetAssertionUndecrypted ==
    /\ pc = "answer" /\ call.op = "secret" /\ Receives
    /\ Answer.kind # "error" /\ Fits("secret")
    /\ End("ok", Garbage)
    /\ UNCHANGED <<eph, tokens, requests, authenticator>>

GetAssertion ==
    /\ pc = "answer" /\ call.op = "secret" /\ Receives
    /\ Answer.kind # "error" /\ Fits("secret")
    /\ End("ok", Decrypted)
    /\ UNCHANGED <<eph, tokens, requests, authenticator>>

-----------------------------------------------------------------------------
(* The authenticator: not under src/; what the commands and the fake of the *)
(* tests make of it.                                                        *)

Reply(m) == answers' = Append(answers, m)
Request == Head(requests)
Shared == SharedSecret(Request.point, authKey)

Takes(kind) ==
    /\ requests # << >> /\ Request.kind = kind
    /\ requests' = Tail(requests)
    /\ UNCHANGED client

DevKey ==
    /\ Takes("key")
    /\ Reply(Message("key", authKey))
    /\ UNCHANGED authenticator

\* The token for a PIN that decrypts to the right one; otherwise a PIN try is
\* used up and the key pair replaced.
DevToken ==
    /\ Takes("token")
    /\ \/ /\ Decrypt(Shared, Request.enc) = "right"
          /\ Reply(Message("token", Encrypt(Shared, TokenOf(Request.rp))))
          /\ UNCHANGED authenticator
       \/ /\ Decrypt(Shared, Request.enc) # "right" /\ authKey < MaxKeys
          /\ Reply(Refusal)
          /\ authKey' = authKey + 1
          /\ blamed' = IF Request.enc.plain = "right" THEN blamed + 1 ELSE blamed
          /\ UNCHANGED <<pinSet, creds>>

Authorised(r, param) == pinSet => param = Authenticate(TokenOf(r))

DevCredential ==
    /\ Takes("cred")
    /\ \/ /\ Authorised(Request.rp, Request.auth)
          /\ creds' = Append(creds, Request.rp)
          /\ Reply(Message("cred", Len(creds')))
          /\ UNCHANGED <<pinSet, authKey, blamed>>
       \/ Reply(Refusal) /\ UNCHANGED authenticator    \* nobody touches it

DevSecret ==
    /\ Takes("secret")
    /\ \/ /\ Authorised(Request.rp, Request.auth)
          /\ creds[Request.cred] = Request.rp
          /\ Request.mac = Authenticate(Shared)
          /\ Reply(Message("secret", Encrypt(Shared, Secret(Request.cred, Request.enc.plain))))
       \/ Reply(Refusal)
    /\ UNCHANGED authenticator

-----------------------------------------------------------------------------
Next ==
    \/ StartGetPINToken \/ StartGetAssertion \/ RefuseSalt \/ StartMakeCredential
    \/ TimesOut \/ Refused \/ Undecodable \/ KeyAgreed
    \/ GetPINToken \/ MakeCredential \/ GetAssertion
    \/ DevKey \/ DevToken \/ DevCredential \/ DevSecret

Spec == Init /\ [][Next]_vars

-----------------------------------------------------------------------------
(* Properties *)

Kinds == {"token", "cred", "secret"}
KeyPairs == (1..MaxCalls) \X (0..MaxKeys)

\* Every variable has the values the code gives it.
TypeOK ==
    /\ pc \in {"idle", "key", "answer"}
    /\ call.op \in Kinds \cup {"none"} /\ call.rp \in RPs \cup {None}
    /\ call.shared # None => call.shared \in KeyPairs
    /\ eph \in 0..MaxCalls
    /\ \A r \in RPs : tokens[r] \in {None, Garbage, TokenOf(r)}
    /\ pinSet \in BOOLEAN /\ authKey \in 0..MaxKeys /\ creds \in Seq(RPs) /\ blamed \in 0..MaxKeys
    /\ \A k \in DOMAIN out : out[k].res \in {"ok", "refused", "late", "failed"}

\* Commands before the k-th that gave up: so many answers, at most, is the
\* connection behind.
Late(k) == Cardinality({j \in 1..(k - 1) : out[j].res = "late"})

OwnSecret(o) ==
    o.op = "secret" /\ o.res = "ok" => o.value = Secret(o.cred, o.plain)

\* GetAssertion's secret is the one of the credential and the salt it was
\* asked for, under whatever key pairs were agreed on, even if one earlier
\* command on the connection gave up: commands that read the answer to an
\* earlier request then fail, until the process ends, but are not misled.
SecretIsRight == \A k \in DOMAIN out : Late(k) <= 1 => OwnSecret(out[k])

\* The same whatever happened before: "GetSecret returns the hmac-secret
\* extension's derived secret for credentialID and salt"
\* (hmacsecret.go:253-254).
SecretIsRightAlways == \A k \in DOMAIN out : OwnSecret(out[k])

\* The tokens the facade keeps for the rest of the process are tokens, even
\* if one command gave up before.
TokensGood ==
    Late(Len(out) + 1) <= 1 => \A r \in RPs : tokens[r] \in {None, TokenOf(r)}

\* MakeCredential returns a credential of its own relying party, and never
\* one it has returned before, unless a command gave up before.
CredentialIsNew ==
    \A k \in DOMAIN out :
        out[k].op = "cred" /\ out[k].res = "ok" /\ Late(k) = 0 =>
            /\ creds[out[k].value] = out[k].rp
            /\ \A j \in 1..(k - 1) :
                  out[j].op = "cred" /\ out[j].res = "ok" => out[j].value # out[k].value

\* The right PIN never costs a PIN try, although a wrong one makes the
\* authenticator change its key pair: every exchange fetches the current
\* one, and one command that gave up does not make it use an older one.
RightPINIsFree == Late(Len(out) + 1) <= 1 => blamed = 0
=============================================================================
