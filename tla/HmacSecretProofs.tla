--------------------------- MODULE HmacSecretProofs ---------------------------
(***************************************************************************)
(* What the commands promise for any number of relying parties, salts,     *)
(* commands and key pairs: with one command that gave up on its answer     *)
(* before, and with any number of them.                                    *)
(***************************************************************************)
EXTENDS HmacSecret, SequenceTheorems, FiniteSetTheorems, TLAPS

-----------------------------------------------------------------------------
(* The inductive invariant behind the safety properties. What is under way *)
(* is a line: the answers not yet read, then the requests not yet taken.   *)

IsSequence(s) == Len(s) \in Nat /\ s = [i \in 1..Len(s) |-> s[i]]

Sealed == {"token", "secret"}
Sealing == pc = "answer" /\ call.op \in Sealed
Lates == Late(Len(out) + 1)
Behind == Len(answers) + Len(requests) - (IF pc = "idle" THEN 0 ELSE 1)

\* The request the running command has sent last, and an answer to it.
IsOwn(m) ==
    /\ m.kind = Wanted
    /\ pc = "answer" => m.rp = call.rp
    /\ Sealing => m.cred = call.cred /\ m.enc = Encrypt(call.shared, call.plain)

Returned(k) == out[k].op = "cred" /\ out[k].res = "ok"

AnswersOwn(a) ==
    \/ a.kind = "error" /\ pc = "answer"
    \/ /\ a.kind = Wanted
       /\ a.kind = "token" => a.body = Encrypt(call.shared, TokenOf(call.rp))
       /\ a.kind = "secret" => a.body = Encrypt(call.shared, Secret(call.cred, call.plain))
       /\ a.kind = "cred" => /\ a.body \in DOMAIN creds /\ creds[a.body] = call.rp
                             /\ \A k \in DOMAIN out : Returned(k) => out[k].value < a.body

\* The command's locals, and what it leaves behind.
CallOK ==
    /\ call \in [op : Kinds \cup {"none"}, rp : RPs \cup {None},
                 plain : Salts \cup {"right", "wrong", None}, cred : Nat \cup {None},
                 shared : KeyPairs \cup {None}]
    /\ pc # "idle" => call.rp \in RPs /\ call.op \in Kinds /\ Len(out) < MaxCalls
    /\ pc = "key" => call.op \in Sealed
    /\ Sealing => call.shared \in {eph} \X (0..MaxKeys)
    /\ tokens \in [RPs -> {None, Garbage} \cup {TokenOf(r) : r \in RPs}]
    /\ IsSequence(out) /\ Len(out) <= MaxCalls
    /\ eph <= Len(out) + (IF pc = "answer" THEN 1 ELSE 0) /\ blamed <= authKey

\* A key pair is used for one message and its answer; whoever can decrypt
\* with the running command's shared secret has the running command's.
RequestsKeyed ==
    /\ IsSequence(requests)
    /\ \A i \in DOMAIN requests :
          LET m == requests[i]
          IN /\ m.kind \in Kinds \cup {"key"}
             /\ m.kind # "key" => m.rp \in RPs
             /\ m.kind \in Sealed =>
                   /\ m.enc.key \in (1..eph) \X (0..MaxKeys)
                   /\ m.point = m.enc.key[1] /\ m.mac = Authenticate(m.enc.key)
                   /\ Sealing /\ m.enc.key = call.shared => IsOwn(m)

AnswersKeyed ==
    /\ IsSequence(answers)
    /\ \A i \in DOMAIN answers :
          LET a == answers[i]
          IN /\ a.kind \in Kinds \cup {"key", "error"}
             /\ a.kind = "key" => a.body \in 0..MaxKeys
             /\ a.kind = "cred" => a.body \in DOMAIN creds
             /\ a.kind \in Sealed =>
                   /\ a.body.key \in (1..eph) \X (0..MaxKeys)
                   /\ Sealing /\ a.body.key = call.shared => AnswersOwn(a)

\* The running command's request, or the answer to it, is last in the line,
\* which is longer by one at most for each command that gave up.
LineOwned ==
    /\ Behind \in Nat /\ Lates \in Nat /\ Behind <= Lates
    /\ pc # "idle" =>
          IF requests = << >> THEN AnswersOwn(answers[Len(answers)])
          ELSE IsOwn(requests[Len(requests)])

\* With one command that gave up, the running command may have one message
\* before its own: a key, once it has sent what it sealed.
KeyFirst ==
    Lates <= 1 /\ Sealing /\ Behind = 1 =>
        IF answers # << >> THEN answers[1].kind = "key" ELSE requests[1].kind = "key"

\* Then, the keys a command may still use are current, and so are those that
\* were used.
Current ==
    Lates <= 1 =>
        /\ pc # "answer" =>
              \A i \in DOMAIN answers : answers[i].kind = "key" => answers[i].body = authKey
        /\ \A i \in DOMAIN requests :
              requests[i].kind = "token" =>
                  requests[i].enc.key = <<requests[i].point, authKey>>

CredentialsMade ==
    \A k \in DOMAIN out :
        /\ Returned(k) => out[k].value \in DOMAIN creds
        /\ Returned(k) /\ Late(k) = 0 => creds[out[k].value] = out[k].rp

\* However many commands gave up, a secret that is not the one that was
\* asked for is garbage: never that of another credential or salt.
NeverAnother ==
    \A k \in DOMAIN out :
        out[k].op = "secret" /\ out[k].res = "ok" =>
            out[k].value \in {Secret(out[k].cred, out[k].plain), Garbage}

IInv ==
    /\ TypeOK /\ CallOK /\ RequestsKeyed /\ AnswersKeyed
    /\ LineOwned /\ KeyFirst /\ Current /\ CredentialsMade
    /\ SecretIsRight /\ NeverAnother /\ TokensGood /\ CredentialIsNew /\ RightPINIsFree

-----------------------------------------------------------------------------
(* Sequences whose elements need no type *)

LEMMA SeqIsSequence ==
    ASSUME NEW S, NEW s \in Seq(S)
    PROVE  IsSequence(s)
BY DEF IsSequence

LEMMA AppendIsSequence ==
    ASSUME NEW s, IsSequence(s), NEW x
    PROVE  /\ IsSequence(Append(s, x)) /\ Len(Append(s, x)) = Len(s) + 1
           /\ \A i \in 1..Len(s) : Append(s, x)[i] = s[i]
           /\ Append(s, x)[Len(s) + 1] = x
           /\ Append(s, x) # << >>
<1> DEFINE S == {s[i] : i \in 1..Len(s)} \cup {x}
<1>1. s \in Seq(S) /\ x \in S
  BY DEF IsSequence
<1> HIDE DEF S
<1>2. /\ Append(s, x) \in Seq(S) /\ Len(Append(s, x)) = Len(s) + 1 /\ Len(s) \in Nat
      /\ \A i \in 1..Len(s) : Append(s, x)[i] = s[i]
      /\ Append(s, x)[Len(s) + 1] = x
  BY <1>1
<1>3. Append(s, x) # << >>
  BY <1>2
<1> QED BY <1>2, <1>3, SeqIsSequence

LEMMA TailIsSequence ==
    ASSUME NEW s, IsSequence(s), s # << >>
    PROVE  /\ Len(s) \in Nat \ {0}
           /\ IsSequence(Tail(s)) /\ Len(Tail(s)) = Len(s) - 1
           /\ \A i \in 1..Len(Tail(s)) : Tail(s)[i] = s[i + 1] /\ i + 1 \in 1..Len(s)
           /\ Head(s) = s[1] /\ 1 \in 1..Len(s)
<1> DEFINE S == {s[i] : i \in 1..Len(s)}
<1>1. s \in Seq(S)
  BY DEF IsSequence
<1> HIDE DEF S
<1>2. /\ Tail(s) \in Seq(S) /\ Len(s) \in Nat \ {0} /\ Len(Tail(s)) = Len(s) - 1
      /\ Head(s) = s[1]
  BY <1>1
<1>3. \A i \in 1..Len(Tail(s)) : Tail(s)[i] = s[i + 1] /\ i + 1 \in 1..Len(s)
  BY <1>1, <1>2
<1>4. IsSequence(Tail(s))
  BY <1>2, SeqIsSequence
<1>5. 1 \in 1..Len(s)
  BY <1>2
<1> QED BY <1>2, <1>3, <1>4, <1>5

LEMMA RestIsSequence ==
    ASSUME NEW s, IsSequence(s), NEW k \in 1..(Len(s) + 1)
    PROVE  LET rest == SubSeq(s, k, Len(s))
           IN /\ IsSequence(rest) /\ Len(rest) = Len(s) + 1 - k
              /\ \A i \in 1..Len(rest) : rest[i] = s[i + k - 1] /\ i + k - 1 \in 1..Len(s)
<1> DEFINE S == {s[i] : i \in 1..Len(s)}
<1>1. s \in Seq(S)
  BY DEF IsSequence
<1> HIDE DEF S
<1>2. /\ SubSeq(s, k, Len(s)) \in Seq(S) /\ Len(s) \in Nat
      /\ Len(SubSeq(s, k, Len(s))) = Len(s) + 1 - k
      /\ \A i \in 1..(Len(s) + 1 - k) : SubSeq(s, k, Len(s))[i] = s[i + k - 1]
  BY <1>1
<1> QED BY SMTT(20), <1>2 DEF IsSequence

LEMMA SequenceDomain ==
    ASSUME NEW s, IsSequence(s)
    PROVE  /\ DOMAIN s = 1..Len(s) /\ Len(s) \in Nat
           /\ s = << >> <=> Len(s) = 0
<1> DEFINE S == {s[i] : i \in 1..Len(s)}
<1>1. s \in Seq(S)
  BY DEF IsSequence
<1> HIDE DEF S
<1> QED BY <1>1

\* Another command ended: of those that gave up before it, or before earlier
\* ones, there are as many as before.
LEMMA LateCounts ==
    ASSUME IsSequence(out), NEW o, out' = Append(out, o)
    PROVE  /\ \A k \in 1..(Len(out) + 1) : Late(k)' = Late(k)
           /\ \A k \in 1..(Len(out) + 1) : Late(k) \in Nat
           /\ Lates' = Lates + (IF o.res = "late" THEN 1 ELSE 0)
<1> DEFINE L(k) == {j \in 1..(k - 1) : out[j].res = "late"}
           M(k) == {j \in 1..(k - 1) : out'[j].res = "late"}
<1>1. /\ IsSequence(out') /\ Len(out) \in Nat /\ Len(out') = Len(out) + 1
      /\ \A j \in 1..Len(out) : out'[j] = out[j]
      /\ out'[Len(out) + 1] = o
  BY AppendIsSequence DEF IsSequence
<1>2. \A k \in 1..(Len(out) + 1) : M(k) = L(k)
  BY <1>1
<1>3. \A k \in 1..(Len(out) + 1) : IsFiniteSet(L(k)) /\ Cardinality(L(k)) \in Nat
  <2> SUFFICES ASSUME NEW k \in 1..(Len(out) + 1)
               PROVE  IsFiniteSet(L(k)) /\ Cardinality(L(k)) \in Nat
    OBVIOUS
  <2>1. IsFiniteSet(1..(k - 1))
    BY <1>1, FS_Interval
  <2> QED BY <2>1, FS_Subset, FS_CardinalityType
<1>4. Lates' = Lates + (IF o.res = "late" THEN 1 ELSE 0)
  <2> DEFINE l == Len(out) + 1
  <2>1. Lates = Cardinality(L(l)) /\ Lates' = Cardinality(M(l + 1))
    BY <1>1 DEF Lates, Late
  <2>2. CASE o.res = "late"
    <3>1. M(l + 1) = L(l) \cup {l} /\ l \notin L(l)
      BY <1>1, <2>2
    <3>2. IsFiniteSet(L(l))
      BY <1>1, <1>3
    <3> HIDE DEF L, M
    <3>3. Cardinality(M(l + 1)) = Cardinality(L(l)) + 1
      BY <3>1, <3>2, FS_AddElement
    <3> QED BY <2>1, <2>2, <3>3
  <2>3. CASE o.res # "late"
    <3>1. M(l + 1) = L(l)
      BY <1>1, <2>3
    <3>2. Cardinality(L(l)) \in Nat
      <4>1. l \in 1..(Len(out) + 1)
        BY <1>1
      <4> HIDE DEF L, l
      <4> QED BY <1>3, <4>1
    <3> HIDE DEF L, M, l
    <3> QED BY <2>1, <2>3, <3>1, <3>2
  <2> QED BY <2>2, <2>3
<1> QED BY <1>2, <1>3, <1>4 DEF Late

-----------------------------------------------------------------------------
(* The client's steps *)

LEMMA InitIInv == Init => IInv
<1> SUFFICES ASSUME Init PROVE IInv
  OBVIOUS
<1> USE HmacAssumption DEF Init
<1>1. out = << >> /\ requests = << >> /\ answers = << >> /\ pc = "idle" /\ eph = 0
  OBVIOUS
<1>2. IsSequence(out) /\ IsSequence(requests) /\ IsSequence(answers)
  BY <1>1 DEF IsSequence
<1>3. creds \in Seq(RPs)
  <2>1. PICK r \in RPs : creds = <<r>>
    OBVIOUS
  <2> QED BY <2>1
<1>4. TypeOK
  BY <1>3 DEF TypeOK, NoCall
<1>5. CallOK
  BY <1>2 DEF CallOK, NoCall, Sealing
<1>6. RequestsKeyed /\ AnswersKeyed
  BY <1>2 DEF RequestsKeyed, AnswersKeyed
<1>7. Lates = 0
  <2>1. {j \in 1..(Len(out) + 1 - 1) : out[j].res = "late"} = {}
    BY <1>1
  <2> QED BY <2>1, FS_EmptySet DEF Lates, Late
<1>8. LineOwned /\ KeyFirst /\ Current
  BY <1>7 DEF LineOwned, Behind, KeyFirst, Sealing, Current
<1> QED BY <1>4, <1>5, <1>6, <1>8 DEF IInv, CredentialsMade, SecretIsRight, NeverAnother,
          TokensGood, CredentialIsNew, RightPINIsFree

\* The line is as long as what is under way, and its parts are sequences.
LEMMA LineLength ==
    ASSUME IInv
    PROVE  /\ Len(answers) \in Nat /\ Len(requests) \in Nat
           /\ DOMAIN answers = 1..Len(answers) /\ DOMAIN requests = 1..Len(requests)
           /\ answers = << >> <=> Len(answers) = 0
           /\ requests = << >> <=> Len(requests) = 0
           /\ Behind \in Nat /\ Lates \in Nat /\ Behind <= Lates
           /\ pc = "idle" => Len(answers) + Len(requests) = Behind
           /\ pc # "idle" => Len(answers) + Len(requests) = Behind + 1
BY SequenceDomain DEF IInv, RequestsKeyed, AnswersKeyed, LineOwned, Behind

\* What the conjuncts of the invariant about ended commands say.
History ==
    /\ CredentialsMade /\ SecretIsRight /\ NeverAnother
    /\ TokensGood /\ CredentialIsNew /\ RightPINIsFree

LEMMA HistoryKept ==
    ASSUME History, UNCHANGED <<out, tokens, creds, blamed>>
    PROVE  History'
BY DEF History, CredentialsMade, SecretIsRight, OwnSecret, NeverAnother, TokensGood,
       CredentialIsNew, RightPINIsFree, Returned, Late

\* A command is called and asks for the authenticator's key.
LEMMA AskKeyStep ==
    ASSUME IInv, Idle, UNCHANGED <<eph, tokens, out, answers, authenticator>>,
           NEW o \in Sealed, NEW r \in RPs,
           NEW plain \in Salts \cup {"right", "wrong"}, NEW cred \in Nat \cup {None},
           AskKey(o, r, plain, cred)
    PROVE  IInv'
<1> USE HmacAssumption
<1>1. /\ call' = [op |-> o, rp |-> r, plain |-> plain, cred |-> cred, shared |-> None]
      /\ requests' = Append(requests, KeyRequest) /\ pc' = "key" /\ pc = "idle"
      /\ UNCHANGED <<eph, tokens, out, answers, pinSet, authKey, creds, blamed>>
      /\ Len(out) < MaxCalls
  BY DEF AskKey, NoCall, Send, Idle, authenticator
<1>2. o \in Kinds /\ Sealed \subseteq Kinds /\ ~Sealing'
  BY <1>1 DEF Sealed, Kinds, Sealing
<1>3. TypeOK'
  BY <1>1, <1>2 DEF IInv, TypeOK
<1>4. CallOK'
  BY <1>1, <1>2 DEF IInv, CallOK, IsSequence
<1>5. /\ IsSequence(requests') /\ Len(requests') = Len(requests) + 1
      /\ Len(requests) \in Nat
      /\ DOMAIN requests' = 1..(Len(requests) + 1)
      /\ \A i \in 1..Len(requests) : requests'[i] = requests[i]
      /\ requests'[Len(requests) + 1] = KeyRequest
      /\ requests' # << >>
  BY <1>1, AppendIsSequence, SequenceDomain DEF IInv, RequestsKeyed
<1>6. KeyRequest.kind = "key"
  BY DEF KeyRequest, Ask
<1>7. RequestsKeyed'
  <2>1. \A i \in DOMAIN requests' : i \in DOMAIN requests \/ requests'[i].kind = "key"
    BY <1>5, <1>6, LineLength
  <2> QED BY SMTT(20), <1>1, <1>2, <1>5, <2>1, LineLength DEF IInv, RequestsKeyed, Sealed
<1>8. AnswersKeyed'
  BY <1>1, <1>2 DEF IInv, AnswersKeyed
<1>9. UNCHANGED <<Behind, Lates>>
  BY <1>1, <1>5, LineLength DEF Behind, Lates, Late
<1>10. LineOwned'
  <2>1. IsOwn(requests[Len(requests)])'
    BY <1>1, <1>2, <1>5, <1>6 DEF IsOwn, Wanted
  <2> QED BY <1>1, <1>5, <1>9, <2>1 DEF IInv, LineOwned
<1>11. KeyFirst' /\ Current'
  <2>1. KeyFirst'
    BY <1>2 DEF KeyFirst
  <2>2. \A i \in DOMAIN requests' : i \in DOMAIN requests \/ requests'[i].kind = "key"
    BY <1>5, <1>6, LineLength
  <2> QED BY <1>1, <1>5, <1>9, <2>1, <2>2, LineLength DEF IInv, Current
<1>12. UNCHANGED <<out, tokens, creds, blamed>>
  BY <1>1
<1> QED BY <1>3, <1>4, <1>7, <1>8, <1>10, <1>11, <1>12, HistoryKept DEF IInv, History

LEMMA StartSealedStep == ASSUME IInv, StartGetPINToken \/ StartGetAssertion PROVE IInv'
<1>1. CASE StartGetPINToken
  <2>1. PICK r \in RPs, pin \in {"right", "wrong"} : AskKey("token", r, pin, None)
    BY <1>1 DEF StartGetPINToken
  <2> QED BY <1>1, <2>1, AskKeyStep DEF StartGetPINToken, Sealed
<1>2. CASE StartGetAssertion
  <2>1. PICK r \in RPs, salt \in Salts, cred \in DOMAIN creds : AskKey("secret", r, salt, cred)
    BY <1>2 DEF StartGetAssertion
  <2>2. cred \in Nat
    BY DEF IInv, TypeOK
  <2> QED BY <1>2, <2>1, <2>2, AskKeyStep DEF StartGetAssertion, Sealed
<1> QED BY <1>1, <1>2

\* The request of MakeCredential needs no key.
LEMMA StartMakeCredentialStep == ASSUME IInv, StartMakeCredential PROVE IInv'
<1> USE HmacAssumption
<1>1. PICK r \in RPs :
          /\ call' = [op |-> "cred", rp |-> r, plain |-> None, cred |-> None, shared |-> None]
          /\ requests' = Append(requests, Ask("cred", r, None, AuthParam(r), None, None, None))
  BY DEF StartMakeCredential, NoCall, Send
<1>2. /\ pc' = "answer" /\ pc = "idle" /\ Len(out) < MaxCalls
      /\ UNCHANGED <<eph, tokens, out, answers, pinSet, authKey, creds, blamed>>
  BY DEF StartMakeCredential, Idle, authenticator
<1> DEFINE m == Ask("cred", r, None, AuthParam(r), None, None, None)
<1>3. m.kind = "cred" /\ m.rp = r
  BY DEF Ask
<1> HIDE DEF m
<1>4. ~Sealing' /\ "cred" \in Kinds /\ "cred" \notin Sealed
  BY <1>1 DEF Sealing, Sealed, Kinds
<1>5. TypeOK'
  BY <1>1, <1>2, <1>4 DEF IInv, TypeOK
<1>6. CallOK'
  BY <1>1, <1>2, <1>4 DEF IInv, CallOK, IsSequence, TypeOK
<1>7. /\ IsSequence(requests') /\ Len(requests') = Len(requests) + 1
      /\ Len(requests) \in Nat
      /\ DOMAIN requests' = 1..(Len(requests) + 1)
      /\ \A i \in 1..Len(requests) : requests'[i] = requests[i]
      /\ requests'[Len(requests) + 1] = m
      /\ requests' # << >>
  BY <1>1, AppendIsSequence, SequenceDomain DEF IInv, RequestsKeyed, m
<1>8. \A i \in DOMAIN requests' :
          i \in DOMAIN requests \/ (requests'[i].kind = "cred" /\ requests'[i].rp \in RPs)
  BY <1>3, <1>7, LineLength
<1>9. RequestsKeyed'
  BY SMTT(20), <1>2, <1>4, <1>7, <1>8, LineLength DEF IInv, RequestsKeyed
<1>10. AnswersKeyed'
  BY <1>2, <1>4 DEF IInv, AnswersKeyed
<1>11. UNCHANGED <<Behind, Lates>>
  BY <1>2, <1>7, LineLength DEF Behind, Lates, Late
<1>12. LineOwned'
  <2>1. IsOwn(requests[Len(requests)])'
    BY <1>1, <1>2, <1>3, <1>4, <1>7 DEF IsOwn, Wanted
  <2> QED BY <1>2, <1>7, <1>11, <2>1 DEF IInv, LineOwned
<1>13. KeyFirst' /\ Current'
  BY <1>2, <1>4, <1>7, <1>8, <1>11, LineLength DEF IInv, KeyFirst, Current
<1> QED BY <1>2, <1>5, <1>6, <1>9, <1>10, <1>12, <1>13, HistoryKept DEF IInv, History

\* The key of the peer is current, and the request sealed with it the only
\* one under this key pair.
LEMMA KeyAgreedStep == ASSUME IInv, KeyAgreed PROVE IInv'
<1> USE HmacAssumption
<1> DEFINE shared == <<eph + 1, answers[1].body>>
<1>0. PICK m : m = SealedRequest(shared)
  OBVIOUS
<1>1. /\ pc = "key" /\ pc' = "answer" /\ answers # << >> /\ answers' = Tail(answers)
      /\ answers[1].kind = "key" /\ eph' = eph + 1
      /\ call' = [call EXCEPT !.shared = shared] /\ requests' = Append(requests, m)
      /\ UNCHANGED <<tokens, out, pinSet, authKey, creds, blamed>>
  <2>1. Head(answers) = answers[1]
    BY TailIsSequence DEF IInv, AnswersKeyed, KeyAgreed, Receives
  <2> QED BY <1>0, <2>1 DEF KeyAgreed, Receives, Answer, Fits, SharedSecret, NewKeyPair, PeerKey,
                      Send, authenticator
<1>2. call.op \in Sealed /\ call.rp \in RPs /\ Sealed \subseteq Kinds /\ "key" \notin Kinds
  BY <1>1 DEF IInv, CallOK, Sealed, Kinds
<1>3. /\ call'.op = call.op /\ call'.rp = call.rp /\ call'.plain = call.plain
      /\ call'.cred = call.cred /\ call'.shared = shared
  BY <1>1 DEF IInv, CallOK
<1>4. /\ m.kind = call.op /\ m.rp = call.rp /\ m.cred = call.cred /\ m.point = eph + 1
      /\ m.enc = Encrypt(shared, call.plain) /\ m.enc.key = shared
      /\ m.mac = Authenticate(shared)
  BY <1>0 DEF SealedRequest, Ask, NewKeyPair, Encrypt
<1>5. /\ IsSequence(requests') /\ Len(requests') = Len(requests) + 1
      /\ DOMAIN requests' = 1..(Len(requests) + 1)
      /\ \A i \in 1..Len(requests) : requests'[i] = requests[i]
      /\ requests'[Len(requests) + 1] = m
      /\ requests' # << >>
  BY <1>1, AppendIsSequence, SequenceDomain DEF IInv, RequestsKeyed
<1>6. /\ Len(answers) \in Nat \ {0} /\ 1 \in DOMAIN answers
      /\ IsSequence(answers') /\ Len(answers') = Len(answers) - 1
      /\ DOMAIN answers' = 1..(Len(answers) - 1)
      /\ \A i \in DOMAIN answers' : answers'[i] = answers[i + 1] /\ i + 1 \in DOMAIN answers
      /\ answers' # << >> => Len(answers) >= 2
  BY <1>1, TailIsSequence, SequenceDomain DEF IInv, AnswersKeyed
<1>7. eph \in Nat /\ eph <= Len(out) /\ Len(out) < MaxCalls /\ Len(out) \in Nat
      /\ answers[1].body \in 0..MaxKeys
  <2>1. eph \in Nat /\ eph <= Len(out) /\ Len(out) < MaxCalls /\ Len(out) \in Nat
    BY <1>1 DEF IInv, TypeOK, CallOK, IsSequence
  <2>2. answers[1].body \in 0..MaxKeys
    BY <1>1, <1>6 DEF IInv, AnswersKeyed
  <2> QED BY <2>1, <2>2
<1>8. shared \in KeyPairs /\ shared \in {eph'} \X (0..MaxKeys)
      /\ shared \in (1..eph') \X (0..MaxKeys)
      /\ shared[1] = eph + 1
  BY <1>1, <1>7 DEF KeyPairs
<1>9. \A key \in (1..eph) \X (0..MaxKeys) :
          key \in (1..eph') \X (0..MaxKeys) /\ key # shared
  BY <1>1, <1>7
<1> HIDE DEF shared
<1>10. Sealing'
  BY <1>1, <1>2, <1>3 DEF Sealing
<1>11. TypeOK'
  BY <1>1, <1>2, <1>3, <1>7, <1>8 DEF IInv, TypeOK
<1>12. CallOK'
  <2> DEFINE Calls == [op : Kinds \cup {"none"}, rp : RPs \cup {None},
                       plain : Salts \cup {"right", "wrong", None}, cred : Nat \cup {None},
                       shared : KeyPairs \cup {None}]
  <2>1. call \in Calls
    BY DEF IInv, CallOK
  <2>2. call' \in Calls
    BY <1>1, <1>8, <2>1
  <2> HIDE DEF Calls
  <2>3. /\ IsSequence(out) /\ Len(out) <= MaxCalls /\ blamed <= authKey
        /\ tokens \in [RPs -> {None, Garbage} \cup {TokenOf(r) : r \in RPs}]
    BY DEF IInv, CallOK
  <2>4. eph' <= Len(out) + 1
    BY <1>1, <1>7
  <2> QED BY <1>1, <1>2, <1>3, <1>7, <1>8, <2>2, <2>3, <2>4 DEF CallOK, Calls
<1>13. IsOwn(m)'
  BY <1>1, <1>2, <1>3, <1>4 DEF IsOwn, Wanted
<1>14. RequestsKeyed'
  <2> SUFFICES ASSUME NEW i \in DOMAIN requests'
               PROVE  /\ requests'[i].kind \in Kinds \cup {"key"}
                      /\ requests'[i].kind # "key" => requests'[i].rp \in RPs
                      /\ requests'[i].kind \in Sealed =>
                            /\ requests'[i].enc.key \in (1..eph') \X (0..MaxKeys)
                            /\ requests'[i].point = requests'[i].enc.key[1]
                            /\ requests'[i].mac = Authenticate(requests'[i].enc.key)
                            /\ requests'[i].enc.key = call'.shared => IsOwn(requests[i])'
    BY <1>5 DEF RequestsKeyed
  <2>1. CASE i = Len(requests) + 1
    BY <1>2, <1>4, <1>5, <1>8, <1>13, <2>1
  <2>2. CASE i \in DOMAIN requests
    BY SMTT(20), <1>3, <1>5, <1>9, <2>2, LineLength DEF IInv, RequestsKeyed
  <2> QED BY <1>5, <2>1, <2>2, LineLength
<1>15. AnswersKeyed'
  BY <1>1, <1>3, <1>6, <1>9 DEF IInv, AnswersKeyed
<1>16. UNCHANGED <<Behind, Lates>>
  BY <1>1, <1>5, <1>6, LineLength DEF Behind, Lates, Late
<1>17. LineOwned'
  <2>1. IsOwn(requests[Len(requests)])'
    BY <1>5, <1>13
  <2> QED BY <1>1, <1>5, <1>16, <2>1 DEF IInv, LineOwned
<1>18. KeyFirst'
  <2> SUFFICES ASSUME Behind = 1
               PROVE  IF answers' # << >> THEN answers'[1].kind = "key"
                                          ELSE requests'[1].kind = "key"
    BY <1>16 DEF KeyFirst
  <2>1. Len(answers) + Len(requests) = 2
    BY <1>1, LineLength
  <2>2. CASE answers' # << >>
    <3>1. Len(answers) = 2 /\ requests = << >> /\ answers'[1] = answers[2]
      BY <1>6, <2>1, <2>2, LineLength
    <3>2. AnswersOwn(answers[2])
      BY <1>1, <3>1 DEF IInv, LineOwned
    <3> QED BY <1>1, <2>2, <3>1, <3>2 DEF AnswersOwn, Wanted
  <2>3. CASE answers' = << >>
    <3>0. Len(answers') = 0
      BY <1>6, <2>3, SequenceDomain
    <3>1. Len(requests) = 1
      BY <1>6, <2>1, <3>0, LineLength
    <3>2. requests # << >> /\ requests'[1] = requests[1]
      BY <1>5, <3>1, LineLength
    <3>3. IsOwn(requests[1])
      BY <1>1, <3>1, <3>2 DEF IInv, LineOwned
    <3> QED BY <1>1, <2>3, <3>2, <3>3 DEF IsOwn, Wanted
  <2> QED BY <2>2, <2>3
<1>19. Current'
  <2> SUFFICES ASSUME Lates <= 1, NEW i \in DOMAIN requests', requests'[i].kind = "token"
               PROVE  requests'[i].enc.key = <<requests'[i].point, authKey>>
    BY <1>1, <1>16 DEF Current
  <2>1. CASE i = Len(requests) + 1
    <3>1. answers[1].body = authKey
      BY <1>1, <1>6 DEF IInv, Current
    <3> QED BY <1>4, <1>5, <2>1, <3>1 DEF shared
  <2>2. CASE i \in DOMAIN requests
    BY <1>5, <2>2, LineLength DEF IInv, Current
  <2> QED BY <1>5, <2>1, <2>2, LineLength
<1> QED BY <1>1, <1>11, <1>12, <1>14, <1>15, <1>17, <1>18, <1>19, HistoryKept DEF IInv, History

-----------------------------------------------------------------------------
(* Commands that end *)

\* What an ended command must have returned for the history to stay right.
LEMMA HistoryAppended ==
    ASSUME IInv, NEW o, out' = Append(out, o), UNCHANGED <<creds, blamed>>,
           Lates' <= 1 => \A r \in RPs : tokens'[r] \in {None, TokenOf(r)},
           o.op = "cred" /\ o.res = "ok" =>
               /\ o.value \in DOMAIN creds
               /\ Lates = 0 =>
                     /\ creds[o.value] = o.rp
                     /\ \A k \in DOMAIN out : Returned(k) => out[k].value < o.value,
           o.op = "secret" /\ o.res = "ok" =>
               /\ o.value \in {Secret(o.cred, o.plain), Garbage}
               /\ Lates <= 1 => o.value = Secret(o.cred, o.plain)
    PROVE  History'
<1> DEFINE l == Len(out) + 1
<1>1. /\ IsSequence(out') /\ DOMAIN out = 1..Len(out) /\ DOMAIN out' = 1..l
      /\ Len(out) \in Nat /\ Len(out') = l
      /\ \A k \in DOMAIN out : out'[k] = out[k]
      /\ out'[l] = o
  BY AppendIsSequence, SequenceDomain DEF IInv, CallOK
<1>2. /\ \A k \in DOMAIN out' : Late(k)' = Late(k)
      /\ Lates = Late(l) /\ Lates \in Nat
      /\ Lates' = Lates \/ Lates' = Lates + 1
      /\ Late(Len(out) + 1)' = Lates'
  BY <1>1, LateCounts DEF IInv, CallOK, Lates
<1>3. \A k \in DOMAIN out' : k = l \/ k \in DOMAIN out
  BY <1>1
<1>4. CredentialsMade'
  BY <1>1, <1>2, <1>3 DEF IInv, CredentialsMade, Returned
<1>5. SecretIsRight' /\ NeverAnother'
  BY <1>1, <1>2, <1>3 DEF IInv, SecretIsRight, OwnSecret, NeverAnother
<1>6. TokensGood'
  BY <1>2 DEF TokensGood
<1>7. RightPINIsFree'
  BY <1>2 DEF IInv, RightPINIsFree, Lates
<1>8. CredentialIsNew'
  <2> SUFFICES ASSUME NEW k \in DOMAIN out', out'[k].op = "cred", out'[k].res = "ok", Late(k) = 0
               PROVE  /\ creds[out'[k].value] = out'[k].rp
                      /\ \A j \in 1..(k - 1) :
                            out'[j].op = "cred" /\ out'[j].res = "ok" =>
                                out'[j].value # out'[k].value
    BY <1>2 DEF CredentialIsNew
  <2>1. \A j \in 1..(k - 1) : j \in DOMAIN out /\ out'[j] = out[j]
    BY <1>1
  <2>2. CASE k \in DOMAIN out
    BY <1>1, <2>1, <2>2 DEF IInv, CredentialIsNew
  <2>3. CASE k = l
    <3>1. o.value \in Nat /\ creds[o.value] = o.rp
          /\ \A j \in DOMAIN out : Returned(j) => out[j].value < o.value
      BY <1>1, <1>2, <2>3 DEF IInv, TypeOK
    <3>2. \A j \in DOMAIN out : Returned(j) => out[j].value \in Nat
      BY DEF IInv, TypeOK, CredentialsMade
    <3> QED BY <1>1, <2>1, <2>3, <3>1, <3>2 DEF Returned
  <2> QED BY <1>3, <2>2, <2>3
<1> QED BY <1>4, <1>5, <1>6, <1>7, <1>8 DEF History

LEMMA RefuseSaltStep == ASSUME IInv, RefuseSalt PROVE IInv'
<1> USE HmacAssumption
<1> DEFINE o == [op |-> "secret", rp |-> None, plain |-> None, cred |-> None,
                 res |-> "refused", value |-> None]
<1>1. /\ pc = "idle" /\ pc' = pc /\ Len(out) < MaxCalls /\ out' = Append(out, o)
      /\ UNCHANGED <<call, eph, tokens, requests, answers, pinSet, authKey, creds, blamed>>
  BY DEF RefuseSalt, Idle, authenticator
<1>2. o.op = "secret" /\ o.res = "refused"
  OBVIOUS
<1> HIDE DEF o
<1>3. /\ IsSequence(out') /\ Len(out') = Len(out) + 1 /\ Len(out) \in Nat
      /\ DOMAIN out' = 1..(Len(out) + 1) /\ DOMAIN out = 1..Len(out)
      /\ \A k \in DOMAIN out : out'[k] = out[k]
      /\ out'[Len(out) + 1] = o
  BY <1>1, AppendIsSequence, SequenceDomain DEF IInv, CallOK
<1>4. Lates' = Lates /\ Lates \in Nat
  <2>1. IsSequence(out)
    BY DEF IInv, CallOK
  <2> QED BY <1>1, <1>2, <2>1, LateCounts, LineLength
<1>5. TypeOK' /\ ~Sealing /\ ~Sealing'
  BY <1>1, <1>2, <1>3 DEF IInv, TypeOK, Sealing
<1>6. CallOK'
  BY <1>1, <1>3, <1>5 DEF IInv, CallOK, TypeOK
<1>7. RequestsKeyed' /\ AnswersKeyed'
  BY <1>1, <1>5 DEF IInv, RequestsKeyed, AnswersKeyed
<1>8. LineOwned' /\ KeyFirst' /\ Current'
  BY <1>1, <1>4, <1>5 DEF IInv, LineOwned, Behind, KeyFirst, Current
<1>9. Lates' <= 1 => \A r \in RPs : tokens'[r] \in {None, TokenOf(r)}
  BY <1>1, <1>4 DEF IInv, TokensGood, Lates
<1>10. History'
  BY <1>1, <1>2, <1>9, HistoryAppended
<1> QED BY <1>5, <1>6, <1>7, <1>8, <1>10 DEF IInv, History

\* The end of a command that read k - 1 answers shortens what it is behind.
LEMMA LineShorter ==
    ASSUME IInv, pc # "idle", pc' = "idle", UNCHANGED requests,
           NEW k \in Nat, Len(answers') = Len(answers) + 1 - k
    PROVE  Behind' = Behind + 2 - k
<1>1. Len(answers) \in Nat /\ Len(requests) \in Nat
  BY LineLength
<1> QED BY <1>1 DEF Behind

\* A command ends, and leaves in the line what it has not read: nothing but
\* its own answer, if only one command gave up.
LEMMA EndStep ==
    ASSUME IInv, pc \in {"key", "answer"},
           NEW res \in {"ok", "refused", "late", "failed"}, NEW value, End(res, value),
           UNCHANGED <<eph, requests, authenticator>>,
           NEW k \in 1..(Len(answers) + 1), answers' = SubSeq(answers, k, Len(answers)),
           res # "late" => k >= 2,
           tokens' \in [RPs -> {None, Garbage} \cup {TokenOf(r) : r \in RPs}],
           \A r \in RPs : tokens'[r] \in {None, Garbage, TokenOf(r)},
           Lates' <= 1 => \A r \in RPs : tokens'[r] \in {None, TokenOf(r)},
           call.op = "cred" /\ res = "ok" =>
               /\ value \in DOMAIN creds
               /\ Lates = 0 =>
                     /\ creds[value] = call.rp
                     /\ \A j \in DOMAIN out : Returned(j) => out[j].value < value,
           call.op = "secret" /\ res = "ok" =>
               /\ value \in {Secret(call.cred, call.plain), Garbage}
               /\ Lates <= 1 => value = Secret(call.cred, call.plain)
    PROVE  IInv'
<1> USE HmacAssumption
<1>0. PICK o : o = [op |-> call.op, rp |-> call.rp, plain |-> call.plain,
                    cred |-> call.cred, res |-> res, value |-> value]
  OBVIOUS
<1>1. /\ out' = Append(out, o) /\ pc' = "idle" /\ call' = NoCall
      /\ UNCHANGED <<eph, requests, pinSet, authKey, creds, blamed>>
  BY <1>0 DEF End, authenticator
<1>2. /\ o.op = call.op /\ o.rp = call.rp /\ o.plain = call.plain /\ o.cred = call.cred
      /\ o.res = res /\ o.value = value
  BY <1>0
<1>3. /\ IsSequence(out') /\ Len(out') = Len(out) + 1 /\ Len(out) \in Nat
      /\ DOMAIN out' = 1..(Len(out) + 1) /\ DOMAIN out = 1..Len(out)
      /\ \A j \in DOMAIN out : out'[j] = out[j]
      /\ out'[Len(out) + 1] = o
  BY <1>1, AppendIsSequence, SequenceDomain DEF IInv, CallOK
<1>4. Lates' = Lates + (IF res = "late" THEN 1 ELSE 0) /\ Lates \in Nat
  <2>1. IsSequence(out)
    BY DEF IInv, CallOK
  <2> QED BY <1>1, <1>2, <2>1, LateCounts, LineLength
<1>5. /\ IsSequence(answers') /\ Len(answers') = Len(answers) + 1 - k
      /\ DOMAIN answers' = 1..(Len(answers) + 1 - k)
      /\ \A i \in DOMAIN answers' :
            answers'[i] = answers[i + k - 1] /\ i + k - 1 \in DOMAIN answers
      /\ k \in Nat
  <2>1. IsSequence(answers) /\ DOMAIN answers = 1..Len(answers) /\ Len(answers) \in Nat
    BY LineLength DEF IInv, AnswersKeyed
  <2>2. /\ IsSequence(answers') /\ Len(answers') = Len(answers) + 1 - k
        /\ \A i \in 1..Len(answers') :
              answers'[i] = answers[i + k - 1] /\ i + k - 1 \in 1..Len(answers)
    BY <2>1, RestIsSequence
  <2>3. DOMAIN answers' = 1..Len(answers')
    BY <2>2, SequenceDomain
  <2>4. k \in Nat
    BY <2>1
  <2> QED BY <2>1, <2>2, <2>3, <2>4
<1>6. TypeOK' /\ ~Sealing'
  BY <1>1, <1>2, <1>3 DEF IInv, TypeOK, NoCall, Sealing
<1>7. CallOK'
  <2>1. Len(out) < MaxCalls /\ eph <= Len(out) + 1 /\ eph \in Nat /\ blamed <= authKey
    BY <1>3 DEF IInv, TypeOK, CallOK
  <2> QED BY <1>1, <1>3, <1>6, <2>1 DEF CallOK, NoCall
<1>8. RequestsKeyed' /\ AnswersKeyed'
  BY <1>1, <1>5, <1>6 DEF IInv, RequestsKeyed, AnswersKeyed
<1>9. LineOwned'
  <2>1. Behind' = Len(answers') + Len(requests)
    BY <1>1, LineLength DEF Behind
  <2>2. Behind' = Behind + 2 - k
    BY <1>1, <1>5, LineShorter
  <2>3. Len(answers') \in Nat
    BY <1>5, SequenceDomain
  <2>4. Behind' \in Nat
    BY <2>1, <2>3, LineLength
  <2>5. Behind' <= Lates'
    BY SMTT(20), <1>4, <1>5, <2>2, LineLength
  <2> QED BY <1>1, <1>4, <2>4, <2>5 DEF LineOwned
<1>10. KeyFirst'
  BY <1>6 DEF KeyFirst
<1>11. Current'
  <2> SUFFICES ASSUME Lates' <= 1
               PROVE  /\ \A i \in DOMAIN answers' :
                            answers'[i].kind = "key" => answers'[i].body = authKey
                      /\ \A i \in DOMAIN requests :
                            requests[i].kind = "token" =>
                                requests[i].enc.key = <<requests[i].point, authKey>>
    BY <1>1 DEF Current
  <2>1. Lates <= 1
    BY <1>4
  <2>2. CASE pc = "key"
    BY <1>5, <2>1, <2>2 DEF IInv, Current
  <2>3. CASE pc = "answer"
    <3> SUFFICES ASSUME NEW i \in DOMAIN answers' PROVE answers'[i].kind # "key"
      BY <2>1 DEF IInv, Current
    <3>1. Len(answers) + Len(requests) <= (IF res = "late" THEN 1 ELSE 2)
      BY <1>4, <2>3, LineLength
    <3>2. i \in Nat \ {0} /\ i + k - 1 \in 1..Len(answers)
      BY SMTT(20), <1>5, LineLength
    <3>3. i + k - 1 = Len(answers) /\ Len(requests) = 0
      <4>1. PICK a \in Nat, b \in Nat : a = Len(answers) /\ b = Len(requests)
        BY LineLength
      <4>2. a + b <= (IF res = "late" THEN 1 ELSE 2) /\ i + k - 1 \in 1..a
        BY <3>1, <3>2, <4>1
      <4>3. k \in Nat /\ i \in Nat \ {0} /\ (res = "late" \/ k >= 2)
        BY <3>2, LineLength
      <4>4. CASE res = "late"
        BY SMTT(20), <4>1, <4>2, <4>3, <4>4
      <4>5. CASE res # "late"
        BY SMTT(20), <4>1, <4>2, <4>3, <4>5
      <4> QED BY <4>4, <4>5
    <3>4. AnswersOwn(answers[Len(answers)])
      BY <2>3, <3>3, LineLength DEF IInv, LineOwned
    <3>5. call.op # "key"
      BY <2>3 DEF IInv, CallOK, Kinds
    <3> QED BY <1>5, <2>3, <3>3, <3>4, <3>5 DEF AnswersOwn, Wanted
  <2> QED BY <2>2, <2>3
<1>12. History'
  <2>1. UNCHANGED <<creds, blamed>>
    BY <1>1
  <2> QED BY <1>1, <1>2, <2>1, HistoryAppended
<1> QED BY <1>6, <1>7, <1>8, <1>9, <1>10, <1>11, <1>12 DEF IInv, History

\* Head and tail of what there is to read.
LEMMA HeadRead ==
    ASSUME IInv, Receives
    PROVE  /\ Answer = answers[1] /\ 1 \in DOMAIN answers
           /\ 2 \in 1..(Len(answers) + 1) /\ answers' = SubSeq(answers, 2, Len(answers))
<1>1. IsSequence(answers) /\ answers # << >> /\ answers' = Tail(answers)
  BY DEF IInv, AnswersKeyed, Receives
<1>2. /\ Len(answers) \in Nat \ {0} /\ Answer = answers[1] /\ DOMAIN answers = 1..Len(answers)
  BY <1>1, TailIsSequence, SequenceDomain DEF Answer
<1>3. 2 \in 1..(Len(answers) + 1)
  BY <1>2
<1>4. answers' = SubSeq(answers, 2, Len(answers))
  <2> DEFINE rest == SubSeq(answers, 2, Len(answers))
  <2>1. /\ IsSequence(rest) /\ Len(rest) = Len(answers) - 1
        /\ \A i \in 1..Len(rest) : rest[i] = answers[i + 1]
    BY <1>1, <1>2, <1>3, RestIsSequence
  <2>2. /\ IsSequence(Tail(answers)) /\ Len(Tail(answers)) = Len(answers) - 1
        /\ \A i \in 1..Len(Tail(answers)) : Tail(answers)[i] = answers[i + 1]
    BY <1>1, TailIsSequence
  <2> HIDE DEF rest
  <2>3. rest = Tail(answers)
    BY <2>1, <2>2 DEF IsSequence
  <2> QED BY <1>1, <2>3 DEF rest
<1>5. 1 \in DOMAIN answers
  BY <1>2
<1> QED BY <1>2, <1>3, <1>4, <1>5

\* If one command gave up at most, an answer that fits what the running one
\* has sealed is the answer to it.
LEMMA FitsIsOwn ==
    ASSUME IInv, Receives, pc = "answer", Answer.kind = call.op,
           Lates <= 1, call.op \in Sealed \/ Lates = 0
    PROVE  AnswersOwn(Answer)
<1>1. Answer = answers[1] /\ answers # << >> /\ 1 \in DOMAIN answers
  BY HeadRead DEF Receives
<1>2. call.op # "key"
  BY DEF IInv, CallOK, Kinds
<1>3. Behind # 1
  BY <1>1, <1>2, LineLength DEF IInv, KeyFirst, Sealing
<1>4. Len(answers) = 1 /\ requests = << >>
  BY <1>1, <1>3, LineLength
<1> QED BY <1>1, <1>4 DEF IInv, LineOwned

LEMMA TimesOutStep == ASSUME IInv, TimesOut PROVE IInv'
<1>1. /\ pc \in {"key", "answer"} /\ End("late", None)
      /\ UNCHANGED <<eph, tokens, requests, authenticator>>
  BY DEF TimesOut
<1>2. PICK k \in 1..(Len(answers) + 1) : answers' = SubSeq(answers, k, Len(answers))
  <2>1. CASE answers' = answers
    <3>1. IsSequence(answers) /\ Len(answers) \in Nat
      BY LineLength DEF IInv, AnswersKeyed
    <3>2. 1 \in 1..(Len(answers) + 1) /\ answers = SubSeq(answers, 1, Len(answers))
      BY <3>1 DEF IsSequence
    <3> QED BY <2>1, <3>2
  <2>2. CASE \E k \in 2..(Len(answers) + 1) : answers' = SubSeq(answers, k, Len(answers))
    BY <2>2, LineLength
  <2> QED BY <2>1, <2>2 DEF TimesOut
<1>3. Lates' <= 1 => Lates <= 1
  <2>1. IsSequence(out)
    BY DEF IInv, CallOK
  <2> QED BY <1>1, <2>1, LateCounts, LineLength DEF End
<1>4. Lates' <= 1 => \A r \in RPs : tokens'[r] \in {None, TokenOf(r)}
  BY <1>1, <1>3 DEF IInv, TokensGood, Lates
<1>5. tokens' \in [RPs -> {None, Garbage} \cup {TokenOf(r) : r \in RPs}]
      /\ \A r \in RPs : tokens'[r] \in {None, Garbage, TokenOf(r)}
  BY <1>1 DEF IInv, CallOK, TypeOK
<1> QED BY <1>1, <1>2, <1>4, <1>5, EndStep

\* An answer was read: as many commands gave up as before.
LEMMA NotLate ==
    ASSUME IInv, NEW res, res # "late", NEW value, End(res, value)
    PROVE  Lates' = Lates
<1>1. IsSequence(out)
  BY DEF IInv, CallOK
<1> QED BY <1>1, LateCounts, LineLength DEF End

LEMMA FailedStep == ASSUME IInv, Refused \/ Undecodable PROVE IInv'
<1>1. PICK res \in {"refused", "failed"} : End(res, None)
  BY DEF Refused, Undecodable
<1>2. /\ pc \in {"key", "answer"} /\ Receives
      /\ UNCHANGED <<eph, tokens, requests, authenticator>>
  BY DEF Refused, Undecodable
<1>3. Lates' = Lates
  BY <1>1, NotLate
<1>4. Lates' <= 1 => \A r \in RPs : tokens'[r] \in {None, TokenOf(r)}
  BY <1>2, <1>3 DEF IInv, TokensGood, Lates
<1>5. tokens' \in [RPs -> {None, Garbage} \cup {TokenOf(r) : r \in RPs}]
      /\ \A r \in RPs : tokens'[r] \in {None, Garbage, TokenOf(r)}
  BY <1>2 DEF IInv, CallOK, TypeOK
<1> QED BY <1>1, <1>2, <1>4, <1>5, HeadRead, EndStep

LEMMA GetPINTokenStep == ASSUME IInv, GetPINToken PROVE IInv'
<1> USE HmacAssumption
<1>1. /\ pc = "answer" /\ call.op = "token" /\ Receives /\ Answer.kind = "token"
      /\ tokens' = [tokens EXCEPT ![call.rp] = Decrypted] /\ End("ok", Decrypted)
      /\ UNCHANGED <<eph, requests, authenticator>>
  BY DEF GetPINToken, Fits
<1>2. Sealing /\ call.op \in Sealed /\ call.rp \in RPs
  BY <1>1 DEF IInv, CallOK, Sealing, Sealed
<1>3. AnswersOwn(Answer) => Decrypted = TokenOf(call.rp)
  BY <1>1 DEF AnswersOwn, Decrypted, Decrypt, Encrypt
<1>4. Decrypted \in {Garbage, TokenOf(call.rp)}
  <2>1. Answer.body.key = call.shared => AnswersOwn(Answer)
    BY <1>1, <1>2, HeadRead DEF IInv, AnswersKeyed
  <2> QED BY <1>3, <2>1 DEF Decrypted, Decrypt
<1>5. Lates <= 1 => Decrypted = TokenOf(call.rp)
  BY <1>1, <1>2, <1>3, FitsIsOwn
<1>6. Lates' = Lates
  BY <1>1, NotLate
<1>7. tokens' \in [RPs -> {None, Garbage} \cup {TokenOf(r) : r \in RPs}]
      /\ \A r \in RPs : tokens'[r] \in {None, Garbage, TokenOf(r)}
  <2>1. /\ tokens \in [RPs -> {None, Garbage} \cup {TokenOf(r) : r \in RPs}]
        /\ \A r \in RPs : tokens[r] \in {None, Garbage, TokenOf(r)}
    BY DEF IInv, CallOK, TypeOK
  <2> QED BY <1>1, <1>2, <1>4, <2>1
<1>8. Lates' <= 1 => \A r \in RPs : tokens'[r] \in {None, TokenOf(r)}
  <2>1. /\ tokens \in [RPs -> {None, Garbage} \cup {TokenOf(r) : r \in RPs}]
        /\ Lates <= 1 => \A r \in RPs : tokens[r] \in {None, TokenOf(r)}
    BY DEF IInv, CallOK, TokensGood, Lates
  <2> QED BY <1>1, <1>2, <1>5, <1>6, <2>1
<1> QED BY <1>1, <1>7, <1>8, HeadRead, EndStep

LEMMA GetAssertionStep == ASSUME IInv, GetAssertion PROVE IInv'
<1> USE HmacAssumption
<1>1. /\ pc = "answer" /\ call.op = "secret" /\ Receives /\ Answer.kind = "secret"
      /\ End("ok", Decrypted) /\ UNCHANGED <<eph, tokens, requests, authenticator>>
  BY DEF GetAssertion, Fits
<1>2. Sealing /\ call.op \in Sealed
  BY <1>1 DEF Sealing, Sealed
<1>3. AnswersOwn(Answer) => Decrypted = Secret(call.cred, call.plain)
  BY <1>1 DEF AnswersOwn, Decrypted, Decrypt, Encrypt
<1>4. Decrypted \in {Secret(call.cred, call.plain), Garbage}
  <2>1. Answer.body.key = call.shared => AnswersOwn(Answer)
    BY <1>1, <1>2, HeadRead DEF IInv, AnswersKeyed
  <2> QED BY <1>3, <2>1 DEF Decrypted, Decrypt
<1>5. Lates <= 1 => Decrypted = Secret(call.cred, call.plain)
  BY <1>1, <1>2, <1>3, FitsIsOwn
<1>6. Lates' = Lates
  BY <1>1, NotLate
<1>7. Lates' <= 1 => \A r \in RPs : tokens'[r] \in {None, TokenOf(r)}
  BY <1>1, <1>6 DEF IInv, TokensGood, Lates
<1>8. tokens' \in [RPs -> {None, Garbage} \cup {TokenOf(r) : r \in RPs}]
      /\ \A r \in RPs : tokens'[r] \in {None, Garbage, TokenOf(r)}
  BY <1>1 DEF IInv, CallOK, TypeOK
<1> QED BY <1>1, <1>4, <1>5, <1>7, <1>8, HeadRead, EndStep

LEMMA MakeCredentialStep == ASSUME IInv, MakeCredential PROVE IInv'
<1> USE HmacAssumption
<1>1. /\ pc = "answer" /\ call.op = "cred" /\ Receives /\ Answer.kind = "cred"
      /\ End("ok", Answer.body) /\ UNCHANGED <<eph, tokens, requests, authenticator>>
  BY DEF MakeCredential, Fits
<1>2. Answer.body \in DOMAIN creds
  BY <1>1, HeadRead DEF IInv, AnswersKeyed
<1>3. Lates = 0 => AnswersOwn(Answer)
  BY <1>1, FitsIsOwn
<1>4. Lates = 0 =>
          /\ creds[Answer.body] = call.rp
          /\ \A j \in DOMAIN out : Returned(j) => out[j].value < Answer.body
  BY <1>1, <1>3 DEF AnswersOwn
<1>5. Lates' = Lates
  BY <1>1, NotLate
<1>6. Lates' <= 1 => \A r \in RPs : tokens'[r] \in {None, TokenOf(r)}
  BY <1>1, <1>5 DEF IInv, TokensGood, Lates
<1>7. tokens' \in [RPs -> {None, Garbage} \cup {TokenOf(r) : r \in RPs}]
      /\ \A r \in RPs : tokens'[r] \in {None, Garbage, TokenOf(r)}
  BY <1>1 DEF IInv, CallOK, TypeOK
<1> QED BY <1>1, <1>2, <1>4, <1>6, <1>7, HeadRead, EndStep

-----------------------------------------------------------------------------
(* The authenticator's steps *)

\* What a request says about the command that sent it.
LEMMA HeadTaken ==
    ASSUME IInv, requests # << >>
    PROVE  /\ Request = requests[1] /\ 1 \in DOMAIN requests /\ Len(requests) \in Nat \ {0}
           /\ IsSequence(Tail(requests)) /\ Len(Tail(requests)) = Len(requests) - 1
           /\ DOMAIN Tail(requests) = 1..(Len(requests) - 1)
           /\ \A i \in DOMAIN Tail(requests) :
                 Tail(requests)[i] = requests[i + 1] /\ i + 1 \in DOMAIN requests
BY TailIsSequence, SequenceDomain DEF IInv, RequestsKeyed, Request

\* The oldest request is answered: what the line says stays true.
LEMMA AnsweredStep ==
    ASSUME IInv, requests # << >>, requests' = Tail(requests),
           NEW a, answers' = Append(answers, a), UNCHANGED client,
           \A d \in DOMAIN creds : d \in DOMAIN creds' /\ creds'[d] = creds[d],
           a.kind \in Kinds \cup {"key", "error"},
           a.kind = "key" => a.body \in 0..MaxKeys,
           a.kind = "cred" => a.body \in DOMAIN creds',
           a.kind \in Sealed =>
               /\ a.body.key \in (1..eph) \X (0..MaxKeys)
               /\ Sealing /\ a.body.key = call.shared => AnswersOwn(a)',
           IsOwn(requests[1]) /\ pc # "idle" => AnswersOwn(a)',
           requests[1].kind = "key" => a.kind = "key"
    PROVE  RequestsKeyed' /\ AnswersKeyed' /\ LineOwned' /\ KeyFirst' /\ Behind' = Behind
<1>1. UNCHANGED <<pc, call, eph, tokens, out, Lates, Sealing>>
  BY DEF client, Lates, Late, Sealing
<1>2. /\ IsSequence(answers') /\ Len(answers') = Len(answers) + 1
      /\ Len(answers) \in Nat
      /\ DOMAIN answers' = 1..(Len(answers) + 1) /\ DOMAIN answers = 1..Len(answers)
      /\ \A i \in DOMAIN answers : answers'[i] = answers[i]
      /\ answers'[Len(answers) + 1] = a
      /\ answers' # << >>
  BY AppendIsSequence, SequenceDomain DEF IInv, AnswersKeyed
<1>3. \A x : AnswersOwn(x) => AnswersOwn(x)'
  BY <1>1 DEF AnswersOwn, Wanted, Returned
<1>4. RequestsKeyed'
  BY <1>1, HeadTaken DEF IInv, RequestsKeyed, IsOwn, Wanted
<1>5. AnswersKeyed'
  <2> SUFFICES ASSUME NEW i \in DOMAIN answers'
               PROVE  /\ answers'[i].kind \in Kinds \cup {"key", "error"}
                      /\ answers'[i].kind = "key" => answers'[i].body \in 0..MaxKeys
                      /\ answers'[i].kind = "cred" => answers'[i].body \in DOMAIN creds'
                      /\ answers'[i].kind \in Sealed =>
                            /\ answers'[i].body.key \in (1..eph) \X (0..MaxKeys)
                            /\ Sealing /\ answers'[i].body.key = call.shared =>
                                  AnswersOwn(answers[i])'
    BY <1>1, <1>2 DEF AnswersKeyed
  <2>1. CASE i = Len(answers) + 1
    BY <1>2, <2>1
  <2>2. CASE i \in DOMAIN answers
    <3>1. /\ answers[i].kind \in Kinds \cup {"key", "error"}
          /\ answers[i].kind = "key" => answers[i].body \in 0..MaxKeys
          /\ answers[i].kind = "cred" => answers[i].body \in DOMAIN creds
          /\ answers[i].kind \in Sealed =>
                /\ answers[i].body.key \in (1..eph) \X (0..MaxKeys)
                /\ Sealing /\ answers[i].body.key = call.shared => AnswersOwn(answers[i])
      BY <2>2 DEF IInv, AnswersKeyed
    <3>2. PICK x : x = answers[i]
      OBVIOUS
    <3>3. answers'[i] = x
      BY <1>2, <2>2, <3>2
    <3> QED BY <1>3, <3>1, <3>2, <3>3
  <2> QED BY <1>2, <2>1, <2>2
<1>6. Behind' = Behind
  BY <1>1, <1>2, HeadTaken, LineLength DEF Behind
<1>7. LineOwned'
  <2> SUFFICES ASSUME pc # "idle"
               PROVE  IF requests' = << >> THEN AnswersOwn(answers[Len(answers)])'
                                           ELSE IsOwn(requests[Len(requests)])'
    BY <1>1, <1>6, LineLength DEF LineOwned
  <2>1. IsOwn(requests[Len(requests)])
    BY DEF IInv, LineOwned
  <2>2. CASE requests' = << >>
    <3>1. Len(requests) = 1
      <4>1. Len(requests') = 0
        BY <2>2, HeadTaken, SequenceDomain
      <4> QED BY <4>1, HeadTaken
    <3>2. AnswersOwn(a)'
      BY <2>1, <3>1
    <3> QED BY <1>2, <2>2, <3>2
  <2>3. CASE requests' # << >>
    <3>1. Len(requests') \in Nat \ {0} /\ Len(requests') = Len(requests) - 1
      BY <2>3, HeadTaken, SequenceDomain
    <3>2. requests'[Len(requests')] = requests[Len(requests)]
      BY <3>1, HeadTaken
    <3> QED BY <1>1, <2>1, <2>3, <3>2 DEF IsOwn, Wanted
  <2> QED BY <2>2, <2>3
<1>8. KeyFirst'
  <2> SUFFICES ASSUME Lates <= 1, Sealing, Behind = 1 PROVE answers'[1].kind = "key"
    BY <1>1, <1>2, <1>6 DEF KeyFirst
  <2>1. CASE answers = << >>
    BY <1>2, <2>1, LineLength DEF IInv, KeyFirst
  <2>2. CASE answers # << >>
    BY <1>2, <2>2, LineLength DEF IInv, KeyFirst
  <2> QED BY <2>1, <2>2
<1> QED BY <1>4, <1>5, <1>6, <1>7, <1>8

\* The authenticator tells its current key.
LEMMA DevKeyStep == ASSUME IInv, DevKey PROVE IInv'
<1> USE HmacAssumption
<1>0. PICK a : a = Message("key", authKey)
  OBVIOUS
<1>1. /\ requests # << >> /\ requests[1].kind = "key" /\ requests' = Tail(requests)
      /\ answers' = Append(answers, a) /\ UNCHANGED client /\ UNCHANGED authenticator
  BY <1>0, HeadTaken DEF DevKey, Takes, Reply
<1>2. a.kind = "key" /\ a.body = authKey /\ authKey \in 0..MaxKeys
  BY <1>0 DEF Message, IInv, TypeOK
<1>3. UNCHANGED <<pc, call, eph, tokens, out, pinSet, authKey, creds, blamed, Sealing, Lates>>
  BY <1>1 DEF client, authenticator, Sealing, Lates, Late
<1>4. "key" \notin Kinds /\ "key" \notin Sealed /\ "key" # "cred"
  BY DEF Kinds, Sealed
<1>5. IsOwn(requests[1]) /\ pc # "idle" => AnswersOwn(a)'
  <2> SUFFICES ASSUME IsOwn(requests[1]), pc # "idle" PROVE AnswersOwn(a)'
    OBVIOUS
  <2>1. Wanted = "key"
    BY <1>1 DEF IsOwn
  <2> QED BY <1>2, <1>3, <2>1 DEF AnswersOwn, Wanted
<1>6. RequestsKeyed' /\ AnswersKeyed' /\ LineOwned' /\ KeyFirst'
  BY <1>1, <1>2, <1>3, <1>4, <1>5, AnsweredStep
<1>7. TypeOK' /\ CallOK'
  BY <1>3 DEF IInv, TypeOK, CallOK
<1>8. Current'
  <2>1. \A i \in DOMAIN answers' : answers'[i] = a \/ (i \in DOMAIN answers /\ answers'[i] = answers[i])
    BY <1>1, AppendIsSequence, SequenceDomain DEF IInv, AnswersKeyed
  <2>2. \A i \in DOMAIN requests' : i + 1 \in DOMAIN requests /\ requests'[i] = requests[i + 1]
    BY <1>1, HeadTaken
  <2> QED BY <1>2, <1>3, <2>1, <2>2 DEF IInv, Current
<1> QED BY <1>3, <1>6, <1>7, <1>8, HistoryKept DEF IInv, History

\* A token is granted, or the PIN counted as wrong and the key replaced: no
\* request or answer that may still be used is under the old one.
LEMMA DevTokenStep == ASSUME IInv, DevToken PROVE IInv'
<1> USE HmacAssumption
<1> DEFINE m == requests[1]
<1>1. /\ requests # << >> /\ m.kind = "token" /\ requests' = Tail(requests)
      /\ UNCHANGED client /\ Request = m
  BY HeadTaken DEF DevToken, Takes
<1>2. /\ m.enc.key \in (1..eph) \X (0..MaxKeys) /\ m.point = m.enc.key[1]
      /\ Sealing /\ m.enc.key = call.shared => IsOwn(m)
      /\ m.rp \in RPs
  BY <1>1, HeadTaken DEF IInv, RequestsKeyed, Sealed
<1>3. UNCHANGED <<pc, call, eph, tokens, out, Sealing, Lates>>
  BY <1>1 DEF client, Sealing, Lates, Late
<1>4. \A i \in DOMAIN requests' : i + 1 \in DOMAIN requests /\ requests'[i] = requests[i + 1]
  BY <1>1, HeadTaken
<1>5. IsOwn(m) /\ pc # "idle" =>
          pc = "answer" /\ call.op = "token" /\ Sealing
          /\ m.rp = call.rp /\ m.enc = Encrypt(call.shared, call.plain)
  BY <1>1 DEF IsOwn, Wanted, Sealing, Sealed, IInv, TypeOK
<1>6. CASE Decrypt(Shared, m.enc) = "right"
  <2>0. PICK a : a = Message("token", Encrypt(Shared, TokenOf(m.rp)))
    OBVIOUS
  <2>1. answers' = Append(answers, a) /\ UNCHANGED authenticator
    BY <1>1, <1>6, <2>0 DEF DevToken, Reply
  <2>2. UNCHANGED <<pinSet, authKey, creds, blamed>>
    BY <2>1 DEF authenticator
  <2>3. Shared = m.enc.key
    BY <1>1, <1>6 DEF Decrypt
  <2>4. a.kind = "token" /\ a.body = Encrypt(m.enc.key, TokenOf(m.rp)) /\ a.body.key = m.enc.key
    BY <2>0, <2>3 DEF Message, Encrypt
  <2>5. IsOwn(m) /\ pc # "idle" => AnswersOwn(a)'
    <3> SUFFICES ASSUME IsOwn(m), pc # "idle" PROVE AnswersOwn(a)'
      OBVIOUS
    <3>1. a.body = Encrypt(call.shared, TokenOf(call.rp)) /\ pc = "answer" /\ call.op = "token"
      BY <1>5, <2>4 DEF Encrypt
    <3> QED BY <1>3, <2>4, <3>1 DEF AnswersOwn, Wanted
  <2>6. Sealing /\ a.body.key = call.shared => AnswersOwn(a)'
    BY <1>2, <2>4, <2>5 DEF Sealing
  <2>7. "token" \in Kinds \cup {"key", "error"}
    BY DEF Kinds
  <2>8. RequestsKeyed' /\ AnswersKeyed' /\ LineOwned' /\ KeyFirst'
    BY <1>1, <1>2, <2>1, <2>2, <2>4, <2>5, <2>6, <2>7, AnsweredStep
  <2>9. TypeOK' /\ CallOK'
    BY <1>3, <2>2 DEF IInv, TypeOK, CallOK
  <2>10. Current'
    <3>1. \A i \in DOMAIN answers' : answers'[i] = a \/ (i \in DOMAIN answers /\ answers'[i] = answers[i])
      BY <2>1, AppendIsSequence, SequenceDomain DEF IInv, AnswersKeyed
    <3> QED BY <1>3, <1>4, <2>2, <2>4, <3>1 DEF IInv, Current
  <2> QED BY <1>3, <2>2, <2>8, <2>9, <2>10, HistoryKept DEF IInv, History
<1>7. CASE Decrypt(Shared, m.enc) # "right"
  <2>1. /\ answers' = Append(answers, Refusal) /\ authKey < MaxKeys /\ authKey' = authKey + 1
        /\ blamed' = (IF m.enc.plain = "right" THEN blamed + 1 ELSE blamed)
        /\ UNCHANGED <<pinSet, creds>>
    BY <1>1, <1>7 DEF DevToken, Reply
  <2>2. Refusal.kind = "error"
    BY DEF Refusal, Message
  <2>3. "error" \notin Kinds /\ "error" \notin Sealed /\ "error" # "key" /\ "error" # "cred"
    BY DEF Kinds, Sealed
  <2>4. PICK a : a = Refusal
    OBVIOUS
  <2>5. IsOwn(m) /\ pc # "idle" => AnswersOwn(a)'
    BY <1>3, <1>5, <2>2, <2>4 DEF AnswersOwn
  <2>6. RequestsKeyed' /\ AnswersKeyed' /\ LineOwned' /\ KeyFirst'
    BY <1>1, <2>1, <2>2, <2>3, <2>4, <2>5, AnsweredStep
  <2>7. TypeOK' /\ CallOK'
    <3>1. authKey \in Nat /\ MaxKeys \in Nat /\ blamed \in Nat /\ blamed <= authKey
      BY DEF IInv, TypeOK, CallOK
    <3>2. authKey' \in 0..MaxKeys /\ blamed' \in 0..MaxKeys /\ blamed' <= authKey'
      BY <2>1, <3>1
    <3>3. TypeOK'
      BY <1>3, <2>1, <3>2 DEF IInv, TypeOK
    <3>4. CallOK'
      BY <1>3, <3>2 DEF IInv, CallOK
    <3> QED BY <3>3, <3>4
  <2>8. Lates <= 1 => blamed' = blamed
    <3> SUFFICES ASSUME Lates <= 1, m.enc.plain = "right" PROVE FALSE
      BY <2>1
    <3>1. m.enc.key = <<m.point, authKey>>
      BY <1>1, HeadTaken DEF IInv, Current
    <3> QED BY <1>1, <1>7, <3>1 DEF Decrypt, Shared, SharedSecret
  <2>9. ASSUME Lates <= 1
        PROVE  /\ pc # "answer" => answers = << >>
               /\ \A i \in DOMAIN requests' : requests'[i].kind # "token"
    <3>1. /\ pc = "idle" => Len(answers) + Len(requests) <= 1
          /\ Len(answers) + Len(requests) <= 2 /\ Len(requests) >= 1
          /\ pc # "idle" /\ Len(answers) + Len(requests) = 2 => Behind = 1
      BY <1>1, <2>9, LineLength
    <3>2. pc # "idle" => IsOwn(requests[Len(requests)])
      BY <1>1 DEF IInv, LineOwned
    <3>3. CASE Len(requests) = 1
      <4>1. \A i \in DOMAIN requests' : FALSE
        BY <1>1, <3>3, HeadTaken
      <4>2. pc = "key" => FALSE
        BY <1>1, <3>2, <3>3 DEF IsOwn, Wanted
      <4>3. pc = "idle" => answers = << >>
        BY <3>1, <3>3, LineLength
      <4>4. pc \in {"idle", "key", "answer"}
        BY DEF IInv, TypeOK
      <4> QED BY <4>1, <4>2, <4>3, <4>4
    <3>4. CASE Len(requests) = 2
      <4>1. pc # "idle" /\ answers = << >> /\ Behind = 1
        BY <3>1, <3>4, LineLength
      <4>2. ~Sealing
        BY <1>1, <2>9, <4>1 DEF IInv, KeyFirst
      <4>3. requests[2].kind # "token"
        BY <3>2, <3>4, <4>1, <4>2 DEF IsOwn, Wanted, Sealing, Sealed, IInv, TypeOK
      <4>4. \A i \in DOMAIN requests' : requests'[i] = requests[2]
        BY <1>1, <3>4, HeadTaken
      <4> QED BY <4>1, <4>3, <4>4
    <3> QED BY <3>1, <3>3, <3>4, LineLength
  <2>10. Current'
    <3> SUFFICES ASSUME Lates <= 1
                 PROVE  /\ pc # "answer" => \A i \in DOMAIN answers' : answers'[i].kind # "key"
                        /\ \A i \in DOMAIN requests' : requests'[i].kind # "token"
      BY <1>3 DEF Current
    <3>1. \A i \in DOMAIN answers' :
              answers'[i] = Refusal \/ (i \in DOMAIN answers /\ answers'[i] = answers[i])
      BY <2>1, AppendIsSequence, SequenceDomain DEF IInv, AnswersKeyed
    <3>2. answers = << >> => DOMAIN answers = {}
      BY LineLength
    <3> QED BY <2>2, <2>3, <2>9, <3>1, <3>2
  <2>11. History'
    <3>1. RightPINIsFree'
      BY <1>3, <2>8 DEF IInv, RightPINIsFree, Lates
    <3>2. UNCHANGED <<out, creds, tokens>>
      BY <1>3, <2>1
    <3>3. CredentialsMade' /\ CredentialIsNew'
      BY <3>2 DEF IInv, CredentialsMade, CredentialIsNew, Returned, Late
    <3>4. SecretIsRight' /\ NeverAnother' /\ TokensGood'
      BY <3>2 DEF IInv, SecretIsRight, OwnSecret, NeverAnother, TokensGood, Late
    <3> QED BY <3>1, <3>3, <3>4 DEF History
  <2> QED BY <2>6, <2>7, <2>10, <2>11 DEF IInv, History
<1> QED BY <1>6, <1>7

\* The secret, sealed with the key of the request it answers, or a refusal.
LEMMA DevSecretStep == ASSUME IInv, DevSecret PROVE IInv'
<1> USE HmacAssumption
<1> DEFINE m == requests[1]
<1>1. /\ requests # << >> /\ m.kind = "secret" /\ requests' = Tail(requests)
      /\ UNCHANGED client /\ Request = m /\ UNCHANGED authenticator
  BY HeadTaken DEF DevSecret, Takes
<1>2. /\ m.enc.key \in (1..eph) \X (0..MaxKeys) /\ m.mac = Authenticate(m.enc.key)
      /\ Sealing /\ m.enc.key = call.shared => IsOwn(m)
  BY <1>1, HeadTaken DEF IInv, RequestsKeyed, Sealed
<1>3. UNCHANGED <<pc, call, eph, tokens, out, pinSet, authKey, creds, blamed, Sealing, Lates>>
  BY <1>1 DEF client, authenticator, Sealing, Lates, Late
<1>4. PICK a : /\ answers' = Append(answers, a)
               /\ \/ a = Refusal
                  \/ /\ m.mac = Authenticate(Shared)
                     /\ a = Message("secret", Encrypt(Shared, Secret(m.cred, m.enc.plain)))
  BY <1>1 DEF DevSecret, Reply
<1>5. \/ a.kind = "error"
      \/ /\ a.kind = "secret" /\ a.body.key = m.enc.key
         /\ a.body = Encrypt(m.enc.key, Secret(m.cred, m.enc.plain))
  BY <1>2, <1>4 DEF Refusal, Message, Encrypt, Authenticate
<1>6. IsOwn(m) /\ pc # "idle" => AnswersOwn(a)'
  <2> SUFFICES ASSUME IsOwn(m), pc # "idle" PROVE AnswersOwn(a)'
    OBVIOUS
  <2>1. pc = "answer" /\ call.op = "secret" /\ Sealing
    BY <1>1 DEF IsOwn, Wanted, Sealing, Sealed, IInv, CallOK, TypeOK
  <2>2. m.cred = call.cred /\ m.enc = Encrypt(call.shared, call.plain)
    BY <2>1 DEF IsOwn
  <2>3. a.kind = "secret" => a.body = Encrypt(call.shared, Secret(call.cred, call.plain))
    BY <1>5, <2>2 DEF Encrypt
  <2> QED BY <1>3, <1>5, <2>1, <2>3 DEF AnswersOwn, Wanted
<1>7. Sealing /\ a.body.key = call.shared /\ a.kind \in Sealed => AnswersOwn(a)'
  BY <1>2, <1>5, <1>6 DEF Sealing, Sealed
<1>8. a.kind \in Kinds \cup {"error"} /\ a.kind # "key" /\ a.kind # "cred"
      /\ (a.kind \in Sealed => a.body.key = m.enc.key)
  BY <1>5 DEF Kinds, Sealed
<1>9. RequestsKeyed' /\ AnswersKeyed' /\ LineOwned' /\ KeyFirst'
  BY <1>1, <1>2, <1>3, <1>4, <1>6, <1>7, <1>8, AnsweredStep
<1>10. TypeOK' /\ CallOK'
  BY <1>3 DEF IInv, TypeOK, CallOK
<1>11. Current'
  <2>1. \A i \in DOMAIN answers' : answers'[i] = a \/ (i \in DOMAIN answers /\ answers'[i] = answers[i])
    BY <1>4, AppendIsSequence, SequenceDomain DEF IInv, AnswersKeyed
  <2>2. \A i \in DOMAIN requests' : i + 1 \in DOMAIN requests /\ requests'[i] = requests[i + 1]
    BY <1>1, HeadTaken
  <2> QED BY <1>3, <1>8, <2>1, <2>2 DEF IInv, Current
<1> QED BY <1>3, <1>9, <1>10, <1>11, HistoryKept DEF IInv, History

\* A credential is made, later than all that were returned; or a refusal.
LEMMA DevCredentialStep == ASSUME IInv, DevCredential PROVE IInv'
<1> USE HmacAssumption
<1> DEFINE m == requests[1]
<1>1. /\ requests # << >> /\ m.kind = "cred" /\ requests' = Tail(requests)
      /\ UNCHANGED client /\ Request = m
  BY HeadTaken DEF DevCredential, Takes
<1>2. m.rp \in RPs
  BY <1>1, HeadTaken DEF IInv, RequestsKeyed, Kinds
<1>3. UNCHANGED <<pc, call, eph, tokens, out, pinSet, authKey, blamed, Sealing, Lates>>
  BY <1>1 DEF client, authenticator, DevCredential, Sealing, Lates, Late
<1>4. PICK a :
          /\ answers' = Append(answers, a)
          /\ \/ creds' = creds /\ a = Refusal
             \/ creds' = Append(creds, m.rp) /\ a = Message("cred", Len(creds'))
  BY <1>1 DEF DevCredential, Reply, authenticator
<1>5. creds \in Seq(RPs) /\ Len(creds) \in Nat /\ DOMAIN creds = 1..Len(creds)
  BY DEF IInv, TypeOK
<1>6. /\ creds' \in Seq(RPs)
      /\ \A d \in DOMAIN creds : d \in DOMAIN creds' /\ creds'[d] = creds[d]
      /\ \/ creds' = creds /\ a.kind = "error"
         \/ /\ a.kind = "cred" /\ a.body = Len(creds) + 1
            /\ a.body \in DOMAIN creds' /\ creds'[a.body] = m.rp
  <2>1. CASE creds' = creds /\ a = Refusal
    BY <1>5, <2>1 DEF Refusal, Message
  <2>2. CASE creds' = Append(creds, m.rp) /\ a = Message("cred", Len(creds'))
    <3>1. /\ creds' \in Seq(RPs) /\ Len(creds') = Len(creds) + 1
          /\ \A d \in 1..Len(creds) : creds'[d] = creds[d]
          /\ creds'[Len(creds) + 1] = m.rp
          /\ DOMAIN creds' = 1..(Len(creds) + 1)
      BY <1>2, <1>5, <2>2
    <3>2. a.kind = "cred" /\ a.body = Len(creds) + 1
      BY <2>2, <3>1 DEF Message
    <3> QED BY <1>5, <3>1, <3>2
  <2> QED BY <1>4, <2>1, <2>2
<1>7. IsOwn(m) /\ pc # "idle" => AnswersOwn(a)'
  <2> SUFFICES ASSUME IsOwn(m), pc # "idle" PROVE AnswersOwn(a)'
    OBVIOUS
  <2>1. pc = "answer" /\ call.op = "cred" /\ m.rp = call.rp
    BY <1>1 DEF IsOwn, Wanted, IInv, TypeOK
  <2>2. \A k \in DOMAIN out : Returned(k) => out[k].value \in 1..Len(creds)
    BY <1>5 DEF IInv, CredentialsMade
  <2>3. a.kind = "cred" => \A k \in DOMAIN out : Returned(k) => out[k].value < a.body
    BY <1>5, <1>6, <2>2
  <2> QED BY <1>3, <1>6, <2>1, <2>3 DEF AnswersOwn, Wanted, Returned
<1>8. "cred" \in Kinds /\ "cred" \notin Sealed /\ "error" \notin Sealed
  BY DEF Kinds, Sealed
<1>9. RequestsKeyed' /\ AnswersKeyed' /\ LineOwned' /\ KeyFirst'
  BY <1>1, <1>3, <1>4, <1>6, <1>7, <1>8, AnsweredStep
<1>10. TypeOK' /\ CallOK'
  BY <1>3, <1>6 DEF IInv, TypeOK, CallOK
<1>11. Current'
  <2>1. \A i \in DOMAIN answers' : answers'[i] = a \/ (i \in DOMAIN answers /\ answers'[i] = answers[i])
    BY <1>4, AppendIsSequence, SequenceDomain DEF IInv, AnswersKeyed
  <2>2. \A i \in DOMAIN requests' : i + 1 \in DOMAIN requests /\ requests'[i] = requests[i + 1]
    BY <1>1, HeadTaken
  <2> QED BY <1>3, <1>6, <2>1, <2>2 DEF IInv, Current
<1>12. History'
  <2>1. \A k \in DOMAIN out : Returned(k) =>
            out[k].value \in DOMAIN creds /\ out[k].value \in DOMAIN creds'
            /\ creds'[out[k].value] = creds[out[k].value]
    BY <1>6 DEF IInv, CredentialsMade
  <2>2. CredentialsMade' /\ CredentialIsNew'
    BY <1>3, <2>1 DEF IInv, CredentialsMade, CredentialIsNew, Returned, Late
  <2>3. SecretIsRight' /\ NeverAnother' /\ TokensGood' /\ RightPINIsFree'
    BY <1>3 DEF IInv, SecretIsRight, OwnSecret, NeverAnother, TokensGood, RightPINIsFree, Late
  <2> QED BY <2>2, <2>3 DEF History
<1> QED BY <1>9, <1>10, <1>11, <1>12 DEF IInv, History

-----------------------------------------------------------------------------
LEMMA NextIInv == IInv /\ [Next]_vars => IInv'
<1> SUFFICES ASSUME IInv, [Next]_vars PROVE IInv'
  OBVIOUS
<1>1. CASE UNCHANGED vars
  <2>1. /\ UNCHANGED <<pc, call, eph, tokens, out, requests, answers>>
        /\ UNCHANGED <<pinSet, authKey, creds, blamed>>
        /\ UNCHANGED <<Lates, Sealing, Behind>>
    BY <1>1 DEF vars, client, authenticator, Lates, Late, Sealing, Behind
  <2>2. TypeOK' /\ CallOK'
    BY <2>1 DEF IInv, TypeOK, CallOK
  <2>3. RequestsKeyed' /\ AnswersKeyed' /\ LineOwned' /\ KeyFirst' /\ Current'
    BY <2>1 DEF IInv, RequestsKeyed, AnswersKeyed, LineOwned, KeyFirst, Current, IsOwn, Wanted,
                AnswersOwn, Returned
  <2> QED BY <2>1, <2>2, <2>3, HistoryKept DEF IInv, History
<1> QED BY <1>1, StartSealedStep, RefuseSaltStep, StartMakeCredentialStep, TimesOutStep,
           FailedStep, KeyAgreedStep, GetPINTokenStep, MakeCredentialStep, GetAssertionStep,
           DevKeyStep, DevTokenStep, DevCredentialStep, DevSecretStep DEF Next

\* The invariant holds of every reachable state, for any number of commands,
\* relying parties, salts and key pairs.
THEOREM InductiveInvariant == Spec => []IInv
BY InitIInv, NextIInv, PTL DEF Spec

\* Every variable has the values the code gives it: a token the facade caches
\* is the relying party's, or garbage, never another's (GetPINToken).
THEOREM TypeCorrect == Spec => []TypeOK
<1>1. IInv => TypeOK
  BY DEF IInv
<1> QED BY <1>1, InductiveInvariant, PTL

\* GetAssertion returns the secret of the credential and salt it was asked
\* for, if one earlier command gave up at most.
THEOREM SecretsAreRight == Spec => []SecretIsRight
<1>1. IInv => SecretIsRight
  BY DEF IInv
<1> QED BY <1>1, InductiveInvariant, PTL

\* However many earlier commands gave up, what GetAssertion returns is that
\* secret or garbage: never the secret of another credential or salt.
THEOREM SecretsAreNoOthers == Spec => []NeverAnother
<1>1. IInv => NeverAnother
  BY DEF IInv
<1> QED BY <1>1, InductiveInvariant, PTL

\* The tokens GetPINToken returns are good, if one command gave up at most.
THEOREM TokensAreGood == Spec => []TokensGood
<1>1. IInv => TokensGood
  BY DEF IInv
<1> QED BY <1>1, InductiveInvariant, PTL

\* MakeCredential returns new credentials, as long as no command gives up.
THEOREM CredentialsAreNew == Spec => []CredentialIsNew
<1>1. IInv => CredentialIsNew
  BY DEF IInv
<1> QED BY <1>1, InductiveInvariant, PTL

\* The right PIN never costs a PIN try, if one command gave up at most.
THEOREM RightPINsAreFree == Spec => []RightPINIsFree
<1>1. IInv => RightPINIsFree
  BY DEF IInv
<1> QED BY <1>1, InductiveInvariant, PTL
================================================================================
