---------------------------- MODULE SessionProofs ----------------------------
(***************************************************************************)
(* The safety properties of Session for any number of callers, keys,       *)
(* handles and relying parties.                                            *)
(*                                                                         *)
(* IInv is inductive. The actions fall into groups that disturb the same   *)
(* parts of it, one lemma each: the environment moves, a call returns, a   *)
(* caller moves on without changing anything shared, and the actions that  *)
(* do change something each have their own.                                *)
(***************************************************************************)
EXTENDS Session, FiniteSetTheorems, TLAPS

-----------------------------------------------------------------------------
(* The inductive invariant behind the safety properties *)

\* A caller inside a call has a relying party.
HasRP == \A p \in Callers : pc[p] \notin {"idle", "panic"} => rp[p] \in RPs

\* A handle still being set up is its caller's alone, so that closing it on
\* an error path takes it from nobody.
ConstructingIsPrivate ==
    \A p \in Callers : pc[p] \in Constructing =>
        /\ client[p] # sess.client
        /\ \A q \in Callers : q # p /\ pc[q] \in UsesHandle => client[q] # client[p]

\* A cached token is filed under what it was granted for.
TokensScoped ==
    \A r \in RPs, m \in Perms : sess.tokens[<<r, m>>] # None =>
        sess.tokens[<<r, m>>].rp = r /\ m \in sess.tokens[<<r, m>>].perms

\* A caller that has yet to find its token has none.
TokenPending ==
    \A p \in Callers :
        /\ pc[p] \notin {"command", "panic"} => token[p] = None
        /\ pc[p] \in {"prompt", "fetch"} => info[p] = "PIN"
        /\ pc[p] = "publish" => info[p] # "nil"

\* The published handle, and every one in use, is a key's with hmac-secret.
HandlesSupported ==
    /\ sess.client # None => keyOf[sess.client] \in HmacKeys
    /\ \A p \in Callers : pc[p] \in Connected => KeyOf(p) \in HmacKeys

\* A touch is narrated during the command only, and leaves its mark.
TouchMarked ==
    \A p \in Callers :
        /\ pc[p] \notin {"command", "panic"} => narrated[p] = 0
        /\ pc[p] = "command" /\ narrated[p] # 0 => client[p] \in touched

IInv ==
    /\ TypeOK /\ HasRP /\ NoUseAfterClose /\ ConstructingIsPrivate
    /\ TokensScoped /\ TokenPending /\ TokenFits
    /\ HandlesSupported
    /\ TouchMarked /\ TouchAtMostOncePerCall

-----------------------------------------------------------------------------
(* What bounds the open handles *)

\* Each open handle, and each caller about to open one, counts for a caller of
\* its own. Once there is a session nobody sets out to connect any longer;
\* until then every open handle is one its caller has not published.
Connecting == {p \in Callers : pc[p] = "connect"}

OwnersKnown ==
    sess.client = None /\ (\E p \in Callers : pc[p] # "panic") =>
        \A c \in opened : \E p \in Callers : client[p] = c /\ Unpublished(p)

HandlesCounted ==
    /\ IsFiniteSet(opened)
    /\ Cardinality(opened) + Cardinality(Connecting) <= Cardinality(Callers)
    /\ OwnersKnown

-----------------------------------------------------------------------------
(* What holds on top of it when there is one caller *)

\* It connects only while there is no session, and meets the session either
\* not there or complete, or in its own hands.
SoloSession ==
    \A p \in Callers :
        /\ pc[p] \in {"connect"} \cup Constructing => sess = NoSession
        /\ pc[p] \in {"token", "prompt", "fetch", "command"} => Complete
        /\ pc[p] \in {"idle", "session"} => sess = NoSession \/ Complete
        /\ pc[p] # "panic"

\* It publishes just what it has.
SoloPublishes ==
    \A p \in Callers : pc[p] = "publish" =>
        /\ sess.client = IF "client" \in todo[p] THEN None ELSE client[p]
        /\ sess.info = IF "info" \in todo[p] THEN "nil" ELSE info[p]
        /\ sess.made <=> "tokens" \notin todo[p]
        /\ todo[p] # {}

\* What the session says of the PIN is about its own key, and it is what
\* every call goes by.
SoloSupported ==
    /\ sess.client # None /\ sess.info = "PIN" => keyOf[sess.client] \in TwoKeys
    /\ CommandsOnlySupported
    /\ \A p \in Callers :
          pc[p] \in {"token", "prompt", "fetch", "command"} => info[p] # "nil"

\* It prompts only while the cache has no token, and a relying party's two
\* slots are filled together, by the one prompt.
SoloPrompts ==
    /\ \A p \in Callers : pc[p] \in {"prompt", "fetch"} => CachedToken(p) = None
    /\ \A r \in RPs, m \in Perms : sess.tokens[<<r, m>>] = None <=> prompted[r] = 0
    /\ PromptedOnce

SoloInv == SoloSession /\ SoloPublishes /\ SoloSupported /\ SoloPrompts /\ NoLeak

-----------------------------------------------------------------------------
(* The proofs *)

\* The initial state satisfies the invariant.
LEMMA InitIInv == Init => IInv
<1> SUFFICES ASSUME Init PROVE IInv
    OBVIOUS
<1>1. TypeOK
    BY SessionAssumption
    DEF Init, TypeOK, NoSession, NoTokens, Locals, Ops, Infos, Fields
<1>2. HasRP /\ NoUseAfterClose /\ ConstructingIsPrivate
    BY DEF Init, HasRP, NoUseAfterClose, ConstructingIsPrivate, NoSession,
           UsesHandle, Constructing, Connected
<1>3. TokensScoped
    BY DEF Init, TokensScoped, NoSession, NoTokens, Slots
<1>4. TokenPending /\ TokenFits /\ HandlesSupported
    BY DEF Init, TokenPending, TokenFits, HandlesSupported, NoSession, Connected
<1>5. TouchMarked /\ TouchAtMostOncePerCall
    BY DEF Init, TouchMarked, TouchAtMostOncePerCall
<1> QED
    BY <1>1, <1>2, <1>3, <1>4, <1>5 DEF IInv

\* The token cache stays well filed as long as nobody writes to the session.
LEMMA SameCache ==
    ASSUME TokensScoped, sess' = sess
    PROVE  TokensScoped'
BY DEF TokensScoped

\* Plugging, unplugging and setting a PIN change no variable of the program.
LEMMA EnvironmentStep ==
    ASSUME IInv,
           plugged' \subseteq Keys, pinOn' \subseteq Keys, dead' \subseteq Conns,
           UNCHANGED <<handles, touch, sess, pc, locals, prompted, faults>>
    PROVE  IInv'
<1> USE DEF IInv, handles, touch, locals
<1>1. TypeOK'
    BY DEF TypeOK
<1>2. HasRP' /\ NoUseAfterClose' /\ ConstructingIsPrivate'
    BY DEF HasRP, NoUseAfterClose, ConstructingIsPrivate
<1>3. TokensScoped'
    BY SameCache
<1>4. TokenPending' /\ TokenFits' /\ HandlesSupported'
    BY DEF TokenPending, TokenFits, HandlesSupported, KeyOf
<1>5. TouchMarked' /\ TouchAtMostOncePerCall'
    BY DEF TouchMarked, TouchAtMostOncePerCall
<1> QED
    BY <1>1, <1>2, <1>3, <1>4, <1>5

\* A call that returns may close a handle nobody else knows of, and no other.
LEMMA ReturnStep ==
    ASSUME IInv, NEW p \in Callers, Done(p), faults' \in 0..MaxFaults,
           UNCHANGED <<env, keyOf, touched, sess, prompted>>,
           \/ opened' = opened
           \/ pc[p] \in Constructing /\ opened' = opened \ {client[p]}
    PROVE  IInv'
<1> USE DEF IInv, Done, Goto, env
<1>1. TypeOK'
    BY DEF TypeOK, Locals, Ops, Infos
<1>2. HasRP'
    BY DEF HasRP, TypeOK
<1>3. NoUseAfterClose'
    BY DEF NoUseAfterClose, ConstructingIsPrivate, TypeOK, UsesHandle, Constructing, Connected
<1>4. ConstructingIsPrivate'
    BY DEF ConstructingIsPrivate, TypeOK, UsesHandle, Constructing, Connected
<1>5. TokensScoped'
    BY SameCache
<1>6. TokenPending' /\ TokenFits'
    BY DEF TokenPending, TokenFits, TypeOK
<1>7. HandlesSupported'
    BY DEF HandlesSupported, KeyOf, TypeOK, Connected
<1>8. TouchMarked' /\ TouchAtMostOncePerCall'
    BY DEF TouchMarked, TouchAtMostOncePerCall, TypeOK
<1> QED
    BY <1>1, <1>2, <1>3, <1>4, <1>5, <1>6, <1>7, <1>8

\* A caller that only moves on keeps the invariant, provided it does not skip
\* finding a token.
LEMMA AdvanceStep ==
    ASSUME IInv, NEW p \in Callers, NEW where \in Locals, Goto(p, where),
           UNCHANGED <<env, handles, touch, sess, locals, prompted, faults>>,
           \/ pc[p] = "session" /\ where = "connect"
           \/ pc[p] = "init" /\ where = "info"
           \/ pc[p] = "token" /\ info[p] = "noPIN" /\ where = "command"
           \/ pc[p] = "token" /\ info[p] = "PIN" /\ where = "prompt"
           \/ pc[p] = "prompt" /\ where = "fetch"
    PROVE  IInv'
<1> USE DEF IInv, Goto, env, handles, touch, locals
<1>1. TypeOK'
    BY DEF TypeOK
<1>2. HasRP' /\ NoUseAfterClose' /\ ConstructingIsPrivate'
    BY DEF HasRP, NoUseAfterClose, ConstructingIsPrivate, TypeOK, UsesHandle, Constructing, Connected
<1>3. TokensScoped'
    BY SameCache
<1>4. TokenPending' /\ TokenFits'
    BY DEF TokenPending, TokenFits, TypeOK
<1>5. HandlesSupported'
    BY DEF HandlesSupported, KeyOf, TypeOK, Connected
<1>6. TouchMarked' /\ TouchAtMostOncePerCall'
    BY DEF TouchMarked, TouchAtMostOncePerCall, TypeOK
<1> QED
    BY <1>1, <1>2, <1>3, <1>4, <1>5, <1>6

\* A call that begins touches nothing that is shared.
LEMMA BeginStep ==
    ASSUME IInv, NEW p \in Callers, Begin(p)
    PROVE  IInv'
<1> USE DEF IInv, Begin, Goto, env, handles, touch
<1>1. TypeOK'
    BY DEF TypeOK, Locals
<1>2. HasRP' /\ NoUseAfterClose' /\ ConstructingIsPrivate'
    BY DEF HasRP, NoUseAfterClose, ConstructingIsPrivate, TypeOK, UsesHandle, Constructing, Connected
<1>3. TokensScoped'
    BY SameCache
<1>4. TokenPending' /\ TokenFits'
    BY DEF TokenPending, TokenFits, TypeOK
<1>5. HandlesSupported'
    BY DEF HandlesSupported, KeyOf, TypeOK, Connected
<1>6. TouchMarked' /\ TouchAtMostOncePerCall'
    BY DEF TouchMarked, TouchAtMostOncePerCall, TypeOK
<1> QED
    BY <1>1, <1>2, <1>3, <1>4, <1>5, <1>6

\* Taking over the cached connection inherits what was checked about it.
LEMMA UseCachedStep ==
    ASSUME IInv, NEW p \in Callers, UseCached(p)
    PROVE  IInv'
<1> USE DEF IInv, UseCached, Goto, env, handles, touch
<1>1. TypeOK'
    BY DEF TypeOK, Locals
<1>2. HasRP' /\ NoUseAfterClose' /\ ConstructingIsPrivate'
    BY DEF HasRP, NoUseAfterClose, ConstructingIsPrivate, TypeOK, UsesHandle, Constructing, Connected
<1>3. TokensScoped'
    BY SameCache
<1>4. TokenPending' /\ TokenFits'
    BY DEF TokenPending, TokenFits, TypeOK
<1>5. HandlesSupported'
    BY DEF HandlesSupported, KeyOf, TypeOK, Connected
<1>6. TouchMarked' /\ TouchAtMostOncePerCall'
    BY DEF TouchMarked, TouchAtMostOncePerCall, TypeOK
<1> QED
    BY <1>1, <1>2, <1>3, <1>4, <1>5, <1>6

\* A handle just opened is nobody else's, so its flag and its key may change.
LEMMA ConnectStep ==
    ASSUME IInv, NEW p \in Callers, Connect(p)
    PROVE  IInv'
<1> USE DEF IInv, Connect, Goto
<1>1. TypeOK'
    BY DEF TypeOK, Locals
<1>2. HasRP' /\ NoUseAfterClose'
    BY DEF HasRP, NoUseAfterClose, TypeOK, UsesHandle, Constructing, Connected
<1>3. ConstructingIsPrivate'
    BY SessionAssumption
    DEF NoUseAfterClose, ConstructingIsPrivate, TypeOK, UsesHandle, Constructing, Connected
<1>4. TokensScoped'
    BY SameCache
<1>5. TokenPending' /\ TokenFits'
    BY DEF TokenPending, TokenFits, TypeOK
<1>6. HandlesSupported'
    <2>1. PICK c \in Conns \ opened, k \in plugged :
              keyOf' = [keyOf EXCEPT ![c] = k] /\ client' = [client EXCEPT ![p] = c]
        OBVIOUS
    <2>2. ASSUME sess'.client # None PROVE keyOf'[sess'.client] \in HmacKeys
        BY <2>1, <2>2 DEF HandlesSupported, NoUseAfterClose, TypeOK
    <2>3. ASSUME NEW q \in Callers, pc'[q] \in Connected PROVE KeyOf(q)' \in HmacKeys
        <3>1. q # p /\ pc[q] \in Connected /\ client'[q] = client[q] /\ client[q] # c
            BY <2>1, <2>3 DEF NoUseAfterClose, TypeOK, UsesHandle, Connected
        <3> QED
            BY <2>1, <3>1 DEF HandlesSupported, KeyOf, TypeOK
    <2> QED
        BY <2>2, <2>3 DEF HandlesSupported
<1>7. TouchMarked' /\ TouchAtMostOncePerCall'
    BY DEF TouchMarked, TouchAtMostOncePerCall, NoUseAfterClose, TypeOK,
           UsesHandle, Constructing, Connected
<1> QED
    BY <1>1, <1>2, <1>3, <1>4, <1>5, <1>6, <1>7

\* A connection that passed checkSupport is its caller's to publish.
LEMMA AcceptedStep ==
    ASSUME IInv, NEW p \in Callers, Accepted(p)
    PROVE  IInv'
<1> USE DEF IInv, Accepted, Goto, env, handles, touch
<1>1. TypeOK'
    BY DEF TypeOK, Locals, Infos, Fields, InfoOf
<1>2. HasRP' /\ NoUseAfterClose' /\ ConstructingIsPrivate'
    BY DEF HasRP, NoUseAfterClose, ConstructingIsPrivate, TypeOK, UsesHandle,
           Constructing, Connected
<1>3. TokensScoped'
    BY SameCache
<1>4. TokenPending' /\ TokenFits'
    BY DEF TokenPending, TokenFits, TypeOK, InfoOf
<1>5. HandlesSupported'
    BY DEF HandlesSupported, KeyOf, TypeOK, Connected, Supported, SupportsHMACSecret
<1>6. TouchMarked' /\ TouchAtMostOncePerCall'
    BY DEF TouchMarked, TouchAtMostOncePerCall, TypeOK
<1> QED
    BY <1>1, <1>2, <1>3, <1>4, <1>5, <1>6

\* Each assignment hands a private, supported connection, or something about
\* it, to everybody, whatever the other fields hold.
LEMMA PublishStep ==
    ASSUME IInv, NEW p \in Callers, NEW f \in Fields, Publish(p, f)
    PROVE  IInv'
<1> USE DEF IInv, Publish, Goto, env, handles, touch
<1>1. client[p] \in Conns /\ client[p] \in opened
    BY DEF NoUseAfterClose, TypeOK, UsesHandle, Connected
<1>2. /\ sess'.client \in {sess.client, client[p]}
      /\ sess'.info \in {sess.info, info[p]}
      /\ sess'.tokens \in {sess.tokens, NoTokens}
      /\ sess'.made \in BOOLEAN
      /\ sess' \in [client : Conns \cup {None}, info : Infos, made : BOOLEAN,
                     tokens : [Slots -> Token \cup {None}]]
    BY <1>1 DEF With, Fields, TypeOK, NoTokens
<1>3. TypeOK'
    BY <1>2 DEF TypeOK, Locals
<1>4. HasRP' /\ NoUseAfterClose' /\ ConstructingIsPrivate'
    BY <1>1, <1>2 DEF HasRP, NoUseAfterClose, ConstructingIsPrivate, TypeOK, UsesHandle,
       Constructing, Connected
<1>5. TokensScoped'
    BY <1>2 DEF TokensScoped, NoTokens, Slots
<1>6. TokenPending' /\ TokenFits'
    BY DEF TokenPending, TokenFits, TypeOK
<1>7. HandlesSupported'
    BY <1>2 DEF HandlesSupported, KeyOf, TypeOK, Connected
<1>8. TouchMarked' /\ TouchAtMostOncePerCall'
    BY DEF TouchMarked, TouchAtMostOncePerCall, TypeOK
<1> QED
    BY <1>3, <1>4, <1>5, <1>6, <1>7, <1>8

\* A process that has ended uses nothing.
LEMMA PanicStep ==
    ASSUME IInv, NEW p \in Callers, Panics(p)
    PROVE  IInv'
<1> USE DEF IInv, Panics, env, handles, touch, locals
<1>1. TypeOK'
    BY DEF TypeOK, Locals
<1>2. HasRP' /\ NoUseAfterClose' /\ ConstructingIsPrivate'
    BY DEF HasRP, NoUseAfterClose, ConstructingIsPrivate, UsesHandle, Constructing, Connected
<1>3. TokensScoped'
    BY SameCache
<1>4. TokenPending' /\ TokenFits' /\ HandlesSupported'
    BY DEF TokenPending, TokenFits, HandlesSupported, KeyOf, Connected
<1>5. TouchMarked' /\ TouchAtMostOncePerCall'
    BY DEF TouchMarked, TouchAtMostOncePerCall
<1> QED
    BY <1>1, <1>2, <1>3, <1>4, <1>5

\* A cached token fits, because it is filed under what it was granted for.
LEMMA TokenCachedStep ==
    ASSUME IInv, NEW p \in Callers, TokenCached(p)
    PROVE  IInv'
<1> USE DEF IInv, TokenCached, Goto, env, handles, touch
<1> DEFINE m == Permission(op[p])
           t == sess.tokens[<<rp[p], m>>]
<1>1. rp[p] \in RPs /\ m \in Perms /\ <<rp[p], m>> \in Slots
    BY DEF HasRP, Permission, Perms, Slots
<1>2. t \in Token /\ t.rp = rp[p] /\ m \in t.perms
    BY <1>1 DEF TokensScoped, TypeOK, CachedToken, Slot
<1>3. token' = [token EXCEPT ![p] = t]
    BY DEF CachedToken, Slot
<1>4. TypeOK'
    BY <1>2, <1>3 DEF TypeOK, Locals
<1>5. HasRP' /\ NoUseAfterClose' /\ ConstructingIsPrivate'
    BY DEF HasRP, NoUseAfterClose, ConstructingIsPrivate, TypeOK, UsesHandle, Constructing, Connected
<1>6. TokensScoped'
    BY SameCache
<1>7. TokenPending'
    BY <1>3 DEF TokenPending, TypeOK
<1>8. TokenFits'
    <2> SUFFICES ASSUME NEW q \in Callers, pc'[q] = "command"
                 PROVE  /\ info[q] = "PIN" <=> token'[q] # None
                        /\ token'[q] # None =>
                              token'[q].rp = rp[q] /\ Permission(op[q]) \in token'[q].perms
        BY DEF TokenFits
    <2>1. CASE q = p
        BY <2>1, <1>2, <1>3, TokenAssumption DEF TypeOK
    <2>2. CASE q # p
        BY <2>2, <1>3 DEF TokenFits, TypeOK
    <2> QED
        BY <2>1, <2>2
<1>9. HandlesSupported'
    BY DEF HandlesSupported, KeyOf, TypeOK, Connected
<1>10. TouchMarked' /\ TouchAtMostOncePerCall'
    BY DEF TouchMarked, TouchAtMostOncePerCall, TypeOK
<1> QED
    BY <1>4, <1>5, <1>6, <1>7, <1>8, <1>9, <1>10

\* A fresh token covers both permissions, so it may be filed under both.
LEMMA GotTokenStep ==
    ASSUME IInv, NEW p \in Callers, GotToken(p)
    PROVE  IInv'
<1> USE DEF IInv, GotToken, Goto, env, handles, touch
<1> DEFINE t == FreshToken(p)
<1>1. rp[p] \in RPs /\ client[p] \in Conns
    BY DEF HasRP, NoUseAfterClose, TypeOK, UsesHandle, Connected
<1>2. t \in Token /\ t.rp = rp[p] /\ t.perms = Perms /\ t # None
    BY <1>1, TokenAssumption DEF FreshToken, allPermissions, Token
<1>3. sess'.tokens = CacheWithFresh(p) /\ sess'.client = sess.client
      /\ sess'.info = sess.info /\ sess'.made = sess.made
    BY DEF TypeOK
<1>4. CacheWithFresh(p) \in [Slots -> Token \cup {None}]
    BY <1>2 DEF CacheWithFresh, TypeOK
<1>5. TypeOK'
    BY <1>1, <1>2, <1>4 DEF TypeOK, Locals
<1>6. HasRP' /\ NoUseAfterClose' /\ ConstructingIsPrivate'
    BY <1>3 DEF HasRP, NoUseAfterClose, ConstructingIsPrivate, TypeOK, UsesHandle, Constructing, Connected
<1>7. TokensScoped'
    <2> SUFFICES ASSUME NEW r \in RPs, NEW m \in Perms, CacheWithFresh(p)[<<r, m>>] # None
                 PROVE  /\ CacheWithFresh(p)[<<r, m>>].rp = r
                        /\ m \in CacheWithFresh(p)[<<r, m>>].perms
        BY <1>3 DEF TokensScoped
    <2>1. <<r, m>> \in Slots
        BY DEF Slots
    <2>2. CASE r = rp[p]
        BY <2>1, <2>2, <1>2 DEF CacheWithFresh, StoredSlots
    <2>3. CASE r # rp[p]
        BY <2>1, <2>3 DEF CacheWithFresh, StoredSlots, TokensScoped
    <2> QED
        BY <2>2, <2>3
<1>8. TokenPending'
    BY DEF TokenPending, TypeOK
<1>9. TokenFits'
    <2> SUFFICES ASSUME NEW q \in Callers, pc'[q] = "command"
                 PROVE  /\ info[q] = "PIN" <=> token'[q] # None
                        /\ token'[q] # None =>
                              token'[q].rp = rp[q] /\ Permission(op[q]) \in token'[q].perms
        BY DEF TokenFits
    <2>1. CASE q = p
        BY <2>1, <1>2 DEF TypeOK, TokenPending, Permission, Perms
    <2>2. CASE q # p
        BY <2>2 DEF TokenFits, TypeOK
    <2> QED
        BY <2>1, <2>2
<1>10. HandlesSupported'
    BY <1>3 DEF HandlesSupported, KeyOf, TypeOK, Connected
<1>11. TouchMarked' /\ TouchAtMostOncePerCall'
    BY DEF TouchMarked, TouchAtMostOncePerCall, TypeOK
<1> QED
    BY <1>5, <1>6, <1>7, <1>8, <1>9, <1>10, <1>11

\* A touch is narrated only while the handle's flag is clear, and sets it.
LEMMA TouchWaitStep ==
    ASSUME IInv, NEW p \in Callers, TouchWait(p)
    PROVE  IInv'
<1> USE DEF IInv, TouchWait, env, handles, locals
<1>1. client[p] \in opened /\ client[p] \in Conns
    BY DEF NoUseAfterClose, TypeOK, UsesHandle, Connected
<1>2. TypeOK'
    BY <1>1 DEF TypeOK
<1>3. HasRP' /\ NoUseAfterClose' /\ ConstructingIsPrivate'
    BY DEF HasRP, NoUseAfterClose, ConstructingIsPrivate
<1>4. TokensScoped'
    BY SameCache
<1>5. TokenPending' /\ TokenFits'
    BY DEF TokenPending, TokenFits
<1>6. HandlesSupported'
    BY DEF HandlesSupported, KeyOf
<1>7. TouchMarked' /\ TouchAtMostOncePerCall'
    BY DEF TouchMarked, TouchAtMostOncePerCall, Narrates, TypeOK
<1> QED
    BY <1>2, <1>3, <1>4, <1>5, <1>6, <1>7

\* Every step preserves the invariant.
LEMMA NextIInv == IInv /\ [Next]_vars => IInv'
<1> SUFFICES ASSUME IInv, [Next]_vars PROVE IInv'
    OBVIOUS
<1>1. ASSUME NEW p \in Callers, Begin(p) PROVE IInv'
    BY <1>1, BeginStep
<1>2. ASSUME NEW p \in Callers, Step(p) PROVE IInv'
    <2>0. faults \in 0..MaxFaults /\ MaxFaults \in Nat
        BY SessionAssumption DEF IInv, TypeOK
    <2>1. CASE UseCached(p)
        BY <2>1, UseCachedStep
    <2>2. CASE ConnectFails(p)
        BY <2>0, <2>2, ReturnStep DEF ConnectFails, FaultUnless, Fault, handles
    <2>3. CASE Connect(p)
        BY <2>3, ConnectStep
    <2>4. CASE NewClientFails(p) \/ GetInfoFails(p) \/ Unsupported(p)
        <3>1. pc[p] \in Constructing /\ faults' \in 0..MaxFaults /\ GiveUp(p)
            BY <2>0, <2>4 DEF NewClientFails, GetInfoFails, Unsupported, FaultUnless,
                              Fault, Constructing
        <3> QED
            BY <3>1, ReturnStep DEF GiveUp, CloseHandle
    <2>5. CASE NewClient(p)
        BY <2>5, AdvanceStep DEF NewClient, Locals
    <2>6. CASE \E f \in Fields : Publish(p, f)
        BY <2>6, PublishStep
    <2>14. CASE FindsNoSession(p)
        BY <2>14, AdvanceStep DEF FindsNoSession, Locals
    <2>15. CASE Accepted(p)
        BY <2>15, AcceptedStep
    <2>16. CASE Panics(p)
        BY <2>16, PanicStep
    <2>7. CASE NoPINSet(p)
        BY <2>7, AdvanceStep DEF NoPINSet, Locals
    <2>8. CASE TokenCached(p)
        BY <2>8, TokenCachedStep
    <2>9. CASE PromptForPIN(p)
        BY <2>9, AdvanceStep DEF PromptForPIN, Locals
    <2>10. CASE PINEntered(p)
        BY <2>10, AdvanceStep DEF PINEntered, Locals
    <2>11. CASE NoToken(p)
        BY <2>0, <2>11, ReturnStep DEF NoToken, handles
    <2>12. CASE GotToken(p)
        BY <2>12, GotTokenStep
    <2>13. CASE CommandReturns(p)
        BY <2>0, <2>13, ReturnStep DEF CommandReturns, handles
    <2> QED
        BY <1>2, <2>1, <2>2, <2>3, <2>4, <2>5, <2>6, <2>7, <2>8, <2>9, <2>10,
           <2>11, <2>12, <2>13, <2>14, <2>15, <2>16 DEF Step
<1>3. ASSUME NEW p \in Callers, TouchWait(p) PROVE IInv'
    BY <1>3, TouchWaitStep
<1>4. ASSUME NEW k \in Keys, Plug(k) \/ Unplug(k) \/ SetPIN(k) PROVE IInv'
    <2>1. plugged' \subseteq Keys /\ pinOn' \subseteq Keys /\ dead' \subseteq Conns
        BY <1>4 DEF IInv, TypeOK, Plug, Unplug, SetPIN
    <2> QED
        BY <1>4, <2>1, EnvironmentStep DEF Plug, Unplug, SetPIN
<1>5. CASE UNCHANGED vars
    <2>1. plugged' \subseteq Keys /\ pinOn' \subseteq Keys /\ dead' \subseteq Conns
        BY <1>5 DEF vars, env, IInv, TypeOK
    <2> QED
        BY <1>5, <2>1, EnvironmentStep DEF vars
<1> QED
    BY <1>1, <1>2, <1>3, <1>4, <1>5 DEF Next

\* The inductive invariant holds in every reachable state.
THEOREM InductiveInvariant == Spec => []IInv
<1> QED
    BY InitIInv, NextIInv, PTL DEF Spec

\* Every variable keeps the values the code gives it.
THEOREM TypeCorrect == Spec => []TypeOK
<1>1. IInv => TypeOK
    BY DEF IInv
<1> QED
    BY <1>1, InductiveInvariant, PTL

\* No interleaving of callers, and no error path, makes anybody use a handle
\* that has been closed: getSession only ever closes a handle before it has
\* published it.
THEOREM HandlesStayOpen == Spec => []NoUseAfterClose
<1>1. IInv => NoUseAfterClose
    BY DEF IInv
<1> QED
    BY <1>1, InductiveInvariant, PTL

\* Whatever the interleaving, MakeCredential and GetAssertion are given a
\* token exactly when info says a PIN is set, and then one for this rpID that
\* covers this operation.
THEOREM TokensFit == Spec => []TokenFits
<1>1. IInv => TokenFits
    BY DEF IInv
<1> QED
    BY <1>1, InductiveInvariant, PTL

\* Whatever the interleaving, no command goes to a key without hmac-secret.
THEOREM OnlyHmacKeys == Spec => []HandlesSupported
<1>1. IInv => HandlesSupported
    BY DEF IInv
<1> QED
    BY <1>1, InductiveInvariant, PTL

\* OnTouchRequired runs at most once per call.
THEOREM OneNarrationPerCall == Spec => []TouchAtMostOncePerCall
<1>1. IInv => TouchAtMostOncePerCall
    BY DEF IInv
<1> QED
    BY <1>1, InductiveInvariant, PTL

-----------------------------------------------------------------------------
(* The handles left open *)

\* As long as every open handle is one its caller has not published, there
\* are no more of them than callers that are not about to connect.
LEMMA OwnersCounted ==
    ASSUME IsFiniteSet(Callers), NEW C \in SUBSET Callers,
           \A c \in opened : \E p \in Callers \ C : client[p] = c
    PROVE  /\ IsFiniteSet(opened)
           /\ Cardinality(opened) + Cardinality(C) <= Cardinality(Callers)
<1> DEFINE R == Callers \ C
           f == [c \in opened |-> CHOOSE p \in R : client[p] = c]
<1>1. \A c \in opened : f[c] \in R /\ client[f[c]] = c
    OBVIOUS
<1>2. f \in [opened -> R]
    BY <1>1
<1>3. f \in Injection(opened, R)
    BY <1>1, <1>2 DEF Injection, IsInjective
<1>4. IsFiniteSet(R) /\ IsFiniteSet(C)
    BY FS_Subset
<1>5. IsFiniteSet(opened) /\ Cardinality(opened) <= Cardinality(R)
    BY <1>3, <1>4, FS_Injection
<1>6. Cardinality(Callers) = Cardinality(R) + Cardinality(C)
    <2>1. R \cap C = {} /\ R \cup C = Callers
        OBVIOUS
    <2>2. Cardinality(R \cap C) = 0
        BY <2>1, FS_EmptySet
    <2>3. Cardinality(R) \in Nat /\ Cardinality(C) \in Nat
        BY <1>4, FS_CardinalityType
    <2> HIDE DEF R
    <2> QED
        BY <1>4, <2>1, <2>2, <2>3, FS_Union
<1>7. Cardinality(opened) \in Nat /\ Cardinality(R) \in Nat /\ Cardinality(C) \in Nat
    BY <1>4, <1>5, FS_CardinalityType
<1> QED
    BY <1>5, <1>6, <1>7

LEMMA InitHandles ==
    ASSUME IsFiniteSet(Callers), Init
    PROVE  HandlesCounted
<1>1. Connecting = {} /\ opened = {}
    BY DEF Init, Connecting
<1>2. Cardinality(Callers) \in Nat
    BY FS_CardinalityType
<1> QED
    BY <1>1, <1>2, FS_EmptySet DEF HandlesCounted, OwnersKnown

\* The sum does not grow where no handle is opened and nobody sets out.
LEMMA FewerHandles ==
    ASSUME IsFiniteSet(Callers), HandlesCounted,
           opened' \subseteq opened, Connecting' \subseteq Connecting
    PROVE  /\ IsFiniteSet(opened')
           /\ Cardinality(opened') + Cardinality(Connecting') <= Cardinality(Callers)
<1>1. IsFiniteSet(Connecting) /\ IsFiniteSet(opened)
    BY FS_Subset DEF Connecting, HandlesCounted
<1>2. /\ IsFiniteSet(opened') /\ Cardinality(opened') <= Cardinality(opened)
      /\ IsFiniteSet(Connecting') /\ Cardinality(Connecting') <= Cardinality(Connecting)
    BY <1>1, FS_Subset
<1>3. /\ Cardinality(opened) \in Nat /\ Cardinality(opened') \in Nat
      /\ Cardinality(Connecting) \in Nat /\ Cardinality(Connecting') \in Nat
      /\ Cardinality(Callers) \in Nat
    BY <1>1, <1>2, FS_CardinalityType
<1> QED
    BY <1>2, <1>3 DEF HandlesCounted

\* Opening a handle takes a caller from those about to connect.
LEMMA ConnectCounted ==
    ASSUME IsFiniteSet(Callers), IInv, HandlesCounted, NEW p \in Callers, Connect(p)
    PROVE  HandlesCounted'
<1>1. PICK c \in Conns \ opened :
          opened' = opened \cup {c} /\ client' = [client EXCEPT ![p] = c]
    BY DEF Connect
<1>2. pc[p] = "connect" /\ pc' = [pc EXCEPT ![p] = "init"] /\ UNCHANGED <<sess, todo>>
    BY DEF Connect, Goto
<1>3. /\ pc \in [Callers -> Locals] /\ client \in [Callers -> Conns \cup {None}]
    BY DEF IInv, TypeOK
<1>4. p \in Connecting /\ Connecting' = Connecting \ {p}
    BY <1>2, <1>3 DEF Connecting
<1>5. IsFiniteSet(Connecting) /\ IsFiniteSet(opened)
    BY FS_Subset DEF Connecting, HandlesCounted
<1>6. /\ IsFiniteSet(opened') /\ Cardinality(opened') = Cardinality(opened) + 1
      /\ Cardinality(Connecting') = Cardinality(Connecting) - 1
    BY <1>1, <1>4, <1>5, FS_AddElement, FS_RemoveElement
<1>7. Cardinality(opened) \in Nat /\ Cardinality(Connecting) \in Nat
    BY <1>5, FS_CardinalityType
<1>8. Cardinality(opened') + Cardinality(Connecting') <= Cardinality(Callers)
    <2>1. Cardinality(opened) + Cardinality(Connecting) <= Cardinality(Callers)
          /\ Cardinality(Callers) \in Nat
        BY FS_CardinalityType DEF HandlesCounted
    <2> QED
        BY <1>6, <1>7, <2>1
<1>9. OwnersKnown'
    <2> SUFFICES ASSUME sess.client = None, NEW d \in opened'
                 PROVE  \E q \in Callers : client'[q] = d /\ Unpublished(q)'
        BY <1>2 DEF OwnersKnown
    <2>1. CASE d = c
        BY <1>1, <1>2, <1>3, <2>1 DEF Unpublished, Constructing
    <2>2. CASE d \in opened
        <3>1. PICK q \in Callers : client[q] = d /\ Unpublished(q)
            BY <1>2, <2>2 DEF HandlesCounted, OwnersKnown
        <3>2. q # p
            BY <1>2, <3>1 DEF Unpublished, Constructing
        <3> QED
            BY <1>1, <1>2, <1>3, <3>1, <3>2 DEF Unpublished, Constructing
    <2> QED
        BY <1>1, <2>1, <2>2
<1> QED
    BY <1>6, <1>8, <1>9 DEF HandlesCounted

\* Setting out is for callers that find no session, and then the open handles
\* all have owners elsewhere.
LEMMA SetOutCounted ==
    ASSUME IsFiniteSet(Callers), IInv, HandlesCounted, NEW p \in Callers, FindsNoSession(p)
    PROVE  HandlesCounted'
<1>1. /\ pc[p] = "session" /\ sess.client = None /\ pc' = [pc EXCEPT ![p] = "connect"]
      /\ UNCHANGED <<opened, sess, client, todo>>
    BY DEF FindsNoSession, Goto, handles, locals
<1>2. pc \in [Callers -> Locals]
    BY DEF IInv, TypeOK
<1>3. \A c \in opened : \E q \in Callers : client[q] = c /\ Unpublished(q)
    BY <1>1 DEF HandlesCounted, OwnersKnown
<1>4. \A q \in Callers : Unpublished(q) => Unpublished(q)' /\ q \notin Connecting'
    BY <1>1, <1>2 DEF Unpublished, Constructing, Connecting
<1>5. OwnersKnown'
    BY <1>1, <1>3, <1>4 DEF OwnersKnown
<1>6. PICK C \in SUBSET Callers : C = Connecting'
    BY DEF Connecting
<1>7. \A c \in opened : \E q \in Callers \ C : client[q] = c
    BY <1>3, <1>4, <1>6
<1>8. IsFiniteSet(opened) /\ Cardinality(opened) + Cardinality(C) <= Cardinality(Callers)
    BY <1>7, OwnersCounted
<1> QED
    BY <1>1, <1>5, <1>6, <1>8 DEF HandlesCounted

\* The other steps open nothing.
LEMMA HandlesStep ==
    ASSUME IsFiniteSet(Callers), IInv, HandlesCounted, [Next]_vars
    PROVE  HandlesCounted'
<1> USE DEF HandlesCounted
<1>0. /\ pc \in [Callers -> Locals] /\ client \in [Callers -> Conns \cup {None}]
      /\ todo \in [Callers -> SUBSET Fields]
    BY DEF IInv, TypeOK
<1>1. ASSUME NEW p \in Callers, Done(p), sess' = sess, pc[p] # "panic",
             \/ opened' = opened /\ ~Unpublished(p)
             \/ pc[p] \in Constructing /\ opened' = opened \ {client[p]}
      PROVE  HandlesCounted'
    <2>1. /\ pc' = [pc EXCEPT ![p] = "idle"] /\ todo' = [todo EXCEPT ![p] = {}]
          /\ client' = [client EXCEPT ![p] = None]
        BY <1>1 DEF Done, Goto
    <2>2. Connecting' \subseteq Connecting /\ opened' \subseteq opened
        BY <1>0, <1>1, <2>1 DEF Connecting
    <2>3. \A q \in Callers : q # p /\ Unpublished(q) => Unpublished(q)' /\ client'[q] = client[q]
        BY <1>0, <2>1 DEF Unpublished
    <2>4. OwnersKnown'
        BY <1>1, <2>2, <2>3 DEF OwnersKnown
    <2> QED
        BY <2>2, <2>4, FewerHandles
<1>2. ASSUME NEW p \in Callers, NEW where \in Locals, Goto(p, where), where # "connect",
             pc[p] # "panic", opened' = opened, sess'.client = sess.client,
             UNCHANGED todo \/ todo' = [todo EXCEPT ![p] = Fields]
                 \/ \E f \in Fields : f # "client" /\ todo' = [todo EXCEPT ![p] = @ \ {f}],
             Unpublished(p) => Unpublished(p)' /\ client'[p] = client[p],
             \A q \in Callers : q # p => client'[q] = client[q]
      PROVE  HandlesCounted'
    <2>1. Connecting' \subseteq Connecting
        BY <1>0, <1>2 DEF Connecting, Goto
    <2>2. \A q \in Callers : Unpublished(q) => Unpublished(q)' /\ client'[q] = client[q]
        BY <1>0, <1>2 DEF Unpublished, Goto
    <2>3. OwnersKnown'
        BY <1>2, <2>2 DEF OwnersKnown
    <2> QED
        BY <1>2, <2>1, <2>3, FewerHandles
<1>3. ASSUME UNCHANGED <<opened, sess, pc, client, todo>>
      PROVE  HandlesCounted'
    BY <1>3 DEF Connecting, OwnersKnown, Unpublished
<1>4. ASSUME NEW p \in Callers, GiveUp(p), pc[p] \in Constructing
      PROVE  HandlesCounted'
    BY <1>1, <1>4 DEF GiveUp, CloseHandle, Constructing
<1>5. ASSUME NEW p \in Callers, NEW f \in Fields, Publish(p, f) PROVE HandlesCounted'
    <2>1. /\ pc[p] = "publish" /\ f \in todo[p] /\ sess' = With(p, f)
          /\ todo' = [todo EXCEPT ![p] = @ \ {f}]
          /\ Goto(p, IF todo[p] = {f} THEN "token" ELSE "publish")
          /\ UNCHANGED <<opened, client>>
        BY <1>5 DEF Publish, handles
    <2>2. CASE f = "client"
        <3>1. sess'.client # None
            BY <2>1, <2>2, SessionAssumption
               DEF With, IInv, TypeOK, NoUseAfterClose, UsesHandle, Connected
        <3>2. Connecting' \subseteq Connecting
            BY <1>0, <2>1 DEF Connecting, Goto
        <3> QED
            BY <2>1, <3>1, <3>2, FewerHandles DEF OwnersKnown
    <2>3. CASE f # "client"
        <3>1. sess'.client = sess.client
            BY <2>1, <2>3 DEF With, Fields, IInv, TypeOK
        <3>2. Unpublished(p) => Unpublished(p)'
            BY <1>0, <2>1, <2>3 DEF Unpublished, Constructing, Goto
        <3>3. (IF todo[p] = {f} THEN "token" ELSE "publish") \in Locals \ {"connect"}
            BY DEF Locals
        <3> QED
            BY <1>2, <2>1, <2>3, <3>1, <3>2, <3>3
    <2> QED
        BY <2>2, <2>3
<1>6. ASSUME NEW p \in Callers, Panics(p) PROVE HandlesCounted'
    <2>1. Connecting' \subseteq Connecting /\ opened' = opened /\ OwnersKnown'
        BY <1>6 DEF Panics, Connecting, OwnersKnown, handles
    <2> QED
        BY <2>1, FewerHandles
<1>7. ASSUME NEW p \in Callers, Step(p) PROVE HandlesCounted'
    <2>1. CASE FindsNoSession(p) \/ Connect(p)
        BY <2>1, SetOutCounted, ConnectCounted
    <2>2. CASE NewClientFails(p) \/ GetInfoFails(p) \/ Unsupported(p)
        BY <1>4, <2>2 DEF NewClientFails, GetInfoFails, Unsupported, Constructing
    <2>3. CASE ConnectFails(p) \/ NoToken(p) \/ CommandReturns(p)
        BY <1>1, <2>3 DEF ConnectFails, NoToken, CommandReturns, handles, Unpublished, Constructing
    <2>4. CASE \E f \in Fields : Publish(p, f)
        BY <1>5, <2>4
    <2>5. CASE Panics(p)
        BY <1>6, <2>5
    <2>6. CASE UseCached(p)
        BY <1>0, <1>2, <2>6 DEF UseCached, handles, Unpublished, Constructing, Locals
    <2>7. CASE NewClient(p) \/ NoPINSet(p) \/ PromptForPIN(p) \/ PINEntered(p)
        BY <1>0, <1>2, <2>7
           DEF NewClient, NoPINSet, PromptForPIN, PINEntered, handles, locals,
               Unpublished, Constructing, Locals, Goto
    <2>8. CASE Accepted(p)
        BY <1>0, <1>2, <2>8 DEF Accepted, handles, Unpublished, Constructing, Locals, Goto, Fields
    <2>9. CASE TokenCached(p) \/ GotToken(p)
        <3>1. sess'.client = sess.client
            BY <2>9 DEF TokenCached, GotToken, IInv, TypeOK
        <3> QED
            BY <1>0, <1>2, <2>9, <3>1
               DEF TokenCached, GotToken, handles, Unpublished, Constructing, Locals
    <2> QED
        BY <1>7, <2>1, <2>2, <2>3, <2>4, <2>5, <2>6, <2>7, <2>8, <2>9 DEF Step
<1>8. ASSUME NEW p \in Callers, Begin(p) PROVE HandlesCounted'
    BY <1>0, <1>2, <1>8 DEF Begin, handles, Unpublished, Constructing, Locals
<1>9. ASSUME NEW p \in Callers, TouchWait(p) PROVE HandlesCounted'
    BY <1>3, <1>9 DEF TouchWait, handles, locals
<1>10. ASSUME NEW k \in Keys, Plug(k) \/ Unplug(k) \/ SetPIN(k) PROVE HandlesCounted'
    BY <1>3, <1>10 DEF Plug, Unplug, SetPIN, handles, locals
<1>11. CASE UNCHANGED vars
    BY <1>3, <1>11 DEF vars, handles, locals
<1> QED
    BY <1>7, <1>8, <1>9, <1>10, <1>11 DEF Next

\* However many callers race to connect, and however often connecting fails,
\* no more handles are open than there are callers.
THEOREM HandlesBounded ==
    ASSUME IsFiniteSet(Callers)
    PROVE  Spec => []OpenHandlesBounded
<1>1. HandlesCounted => OpenHandlesBounded
    <2> SUFFICES ASSUME HandlesCounted PROVE OpenHandlesBounded
        OBVIOUS
    <2>1. IsFiniteSet(Connecting)
        BY FS_Subset DEF Connecting
    <2>2. /\ Cardinality(opened) \in Nat /\ Cardinality(Connecting) \in Nat
          /\ Cardinality(Callers) \in Nat
        BY <2>1, FS_CardinalityType DEF HandlesCounted
    <2> QED
        BY <2>2 DEF HandlesCounted, OpenHandlesBounded
<1>2. Init => HandlesCounted
    BY InitHandles
<1>3. IInv /\ HandlesCounted /\ [Next]_vars => HandlesCounted'
    BY HandlesStep
<1> QED
    BY <1>1, <1>2, <1>3, InductiveInvariant, PTL DEF Spec

-----------------------------------------------------------------------------
(* One caller at a time, as documented. *)

\* With one caller, its extra invariant holds when the program starts.
LEMMA SoloInit == Init => SoloInv
<1> SUFFICES ASSUME Init PROVE SoloInv
    OBVIOUS
<1>1. SoloSession /\ SoloPublishes
    BY DEF Init, SoloSession, SoloPublishes, Constructing
<1>2. SoloSupported
    BY DEF Init, SoloSupported, CommandsOnlySupported, Connected, NoSession
<1>3. SoloPrompts
    BY DEF Init, SoloPrompts, PromptedOnce, NoSession, NoTokens, Slots
<1>4. NoLeak
    BY DEF Init, NoLeak
<1> QED
    BY <1>1, <1>2, <1>3, <1>4 DEF SoloInv

\* What a step may not do to a session that is there.
Sticky ==
    Complete =>
        /\ sess'.client = sess.client /\ sess'.info = sess.info
        /\ \A s \in Slots : sess.tokens[s] # None => sess'.tokens[s] = sess.tokens[s]

\* A step that leaves the session and the PIN entries alone, and neither
\* finds nor needs a token it has not got, keeps the tokens' part.
LEMMA SameTokens ==
    ASSUME SoloPrompts, sess' = sess, prompted' = prompted,
           \A p \in Callers : pc'[p] \in {"prompt", "fetch"} => CachedToken(p)' = None
    PROVE  SoloPrompts' /\ Sticky
BY DEF SoloPrompts, PromptedOnce, Sticky

\* The caller's own knowledge of its key is what it publishes.
LEMMA SoloPublish ==
    ASSUME NEW p, Callers = {p}, IInv, SoloInv, NEW f \in Fields, Publish(p, f)
    PROVE  SoloInv' /\ Sticky
<1> USE DEF Publish, Goto, env, handles, touch, IInv, SoloInv
<1>1. client[p] \in Conns /\ client[p] # None /\ info[p] \in Infos /\ todo[p] \subseteq Fields
    BY SessionAssumption DEF NoUseAfterClose, TypeOK, UsesHandle, Connected
<1>2. /\ sess.client = IF "client" \in todo[p] THEN None ELSE client[p]
      /\ sess.info = IF "info" \in todo[p] THEN "nil" ELSE info[p]
      /\ sess.made <=> "tokens" \notin todo[p]
    BY DEF SoloPublishes
<1>3. info[p] # "nil"
    BY DEF TokenPending
<1>4. /\ pc'[p] = IF todo[p] = {f} THEN "token" ELSE "publish"
      /\ todo'[p] = todo[p] \ {f}
    BY DEF TypeOK
<1>5. /\ sess'.client = IF f = "client" THEN client[p] ELSE sess.client
      /\ sess'.info = IF f = "info" THEN info[p] ELSE sess.info
      /\ sess'.made = IF f = "tokens" THEN TRUE ELSE sess.made
      /\ sess'.tokens = IF f = "tokens" THEN NoTokens ELSE sess.tokens
    BY DEF With, Fields, TypeOK
<1>6. /\ sess'.client = IF "client" \in todo'[p] THEN None ELSE client[p]
      /\ sess'.info = IF "info" \in todo'[p] THEN "nil" ELSE info[p]
      /\ sess'.made <=> "tokens" \notin todo'[p]
    BY <1>2, <1>4, <1>5 DEF Fields
<1>7. SoloPublishes'
    BY <1>1, <1>4, <1>6 DEF SoloPublishes
<1>8. SoloSession'
    <2>1. pc'[p] = "token" => Complete'
        BY <1>1, <1>3, <1>4, <1>6 DEF Complete
    <2> QED
        BY <1>4, <2>1 DEF SoloSession, Constructing
<1>9. SoloSupported'
    <2>1. CommandsOnlySupported'
        BY <1>4 DEF SoloSupported, CommandsOnlySupported, Connected, KeyOf
    <2>2. sess'.client # None /\ sess'.info = "PIN" => keyOf'[sess'.client] \in TwoKeys
        BY <1>6 DEF SoloSupported, CommandsOnlySupported, Connected, KeyOf
    <2> QED
        BY <1>3, <1>4, <2>1, <2>2 DEF SoloSupported
<1>10. SoloPrompts'
    <2>1. CASE f = "tokens"
        BY <1>4, <1>5, <2>1 DEF SoloPrompts, PromptedOnce, NoTokens, Slots
    <2>2. CASE f # "tokens"
        BY <1>4, <1>5, <2>2 DEF SoloPrompts, PromptedOnce
    <2> QED
        BY <2>1, <2>2
<1>11. NoLeak'
    <2>1. ASSUME NEW c \in opened
          PROVE  c = client[p]
        BY <1>1, <1>2, <2>1, SessionAssumption DEF NoLeak, Unpublished, Constructing, TypeOK
    <2>2. sess'.client = client[p] \/ Unpublished(p)'
        BY <1>1, <1>4, <1>6 DEF Unpublished
    <2> QED
        BY <2>1, <2>2 DEF NoLeak
<1>12. Sticky
    BY <1>1, <1>2 DEF Sticky, Complete, Fields
<1> QED
    BY <1>7, <1>8, <1>9, <1>10, <1>11, <1>12

\* A prompt fills both of the relying party's slots, which were empty.
LEMMA SoloGotToken ==
    ASSUME NEW p, Callers = {p}, IInv, SoloInv, GotToken(p)
    PROVE  SoloInv' /\ Sticky
<1> USE DEF GotToken, Goto, env, handles, touch, IInv, SoloInv
<1>1. sess'.tokens = CacheWithFresh(p) /\ sess'.client = sess.client
      /\ sess'.info = sess.info /\ sess'.made = sess.made
    BY DEF TypeOK
<1>2. rp[p] \in RPs /\ client[p] \in Conns /\ Complete
    BY DEF HasRP, NoUseAfterClose, TypeOK, UsesHandle, Connected, SoloSession
<1>3. FreshToken(p) # None
    BY <1>2, TokenAssumption DEF FreshToken, allPermissions, Token
<1>4. \A m \in Perms : <<rp[p], m>> \in Slots
    BY <1>2 DEF Slots
<1>5. prompted[rp[p]] = 0 /\ \A m \in Perms : sess.tokens[<<rp[p], m>>] = None
    <2>1. Permission(op[p]) \in Perms /\ sess.tokens[<<rp[p], Permission(op[p])>>] = None
        BY DEF SoloPrompts, CachedToken, Slot, Permission, Perms
    <2> QED
        BY <1>2, <2>1 DEF SoloPrompts
<1>6. \A s \in Slots : s[1] \in RPs /\ s[2] \in Perms /\ s = <<s[1], s[2]>>
    BY DEF Slots
<1>7. Sticky
    <2> SUFFICES ASSUME NEW s \in Slots, sess.tokens[s] # None
                 PROVE  CacheWithFresh(p)[s] = sess.tokens[s]
        BY <1>1 DEF Sticky
    <2>1. s \notin StoredSlots(p)
        BY <1>5, <1>6 DEF StoredSlots
    <2> QED
        BY <2>1 DEF CacheWithFresh
<1>8. prompted' = [prompted EXCEPT ![rp[p]] = 1]
    BY <1>5
<1>9. \A r \in RPs, m \in Perms : sess'.tokens[<<r, m>>] = None <=> prompted'[r] = 0
    <2> SUFFICES ASSUME NEW r \in RPs, NEW m \in Perms
                 PROVE  CacheWithFresh(p)[<<r, m>>] = None <=> prompted'[r] = 0
        BY ZenonT(30), <1>1
    <2>1. <<r, m>> \in Slots
        BY DEF Slots
    <2>2. CASE r = rp[p]
        BY <1>3, <1>8, <2>1, <2>2 DEF CacheWithFresh, StoredSlots, TypeOK
    <2>3. CASE r # rp[p]
        BY <1>8, <2>1, <2>3 DEF SoloPrompts, CacheWithFresh, StoredSlots, TypeOK
    <2> QED
        BY <2>2, <2>3
<1>10. pc'[p] = "command"
    BY DEF TypeOK
<1>11. SoloPrompts'
    BY <1>8, <1>9, <1>10 DEF SoloPrompts, PromptedOnce, TypeOK
<1>12. SoloSession' /\ SoloPublishes'
    BY <1>1, <1>2, <1>10 DEF SoloSession, SoloPublishes, Complete, Constructing
<1>13. SoloSupported'
    BY <1>1, <1>10 DEF SoloSupported, CommandsOnlySupported, Connected, KeyOf
<1>14. NoLeak'
    BY <1>1, <1>10 DEF NoLeak, Unpublished, Constructing
<1> QED
    BY <1>7, <1>11, <1>12, <1>13, <1>14

\* The handle just opened is the caller's own, and the session not there.
LEMMA SoloConnect ==
    ASSUME NEW p, Callers = {p}, IInv, SoloInv, Connect(p)
    PROVE  SoloInv' /\ Sticky
<1> USE DEF Connect, Goto, IInv, SoloInv
<1>1. sess = NoSession /\ pc'[p] = "init"
    BY DEF SoloSession, TypeOK
<1>2. SoloSession' /\ SoloPublishes'
    BY <1>1 DEF SoloSession, SoloPublishes, Constructing
<1>3. SoloSupported'
    BY <1>1 DEF SoloSupported, CommandsOnlySupported, Connected, NoSession
<1>4. SoloPrompts' /\ Sticky
    BY <1>1, SameTokens
<1>5. NoLeak'
    <2>1. PICK c : opened' = opened \cup {c} /\ client' = [client EXCEPT ![p] = c]
        OBVIOUS
    <2>2. opened = {}
        BY <1>1, SessionAssumption
        DEF NoLeak, Unpublished, Constructing, NoSession, TypeOK
    <2> QED
        BY <1>1, <2>1, <2>2 DEF NoLeak, Unpublished, Constructing, TypeOK
<1> QED
    BY <1>2, <1>3, <1>4, <1>5

\* A call that returns leaves nothing behind but the session.
LEMMA SoloReturn ==
    ASSUME NEW p, Callers = {p}, IInv, SoloInv, Done(p),
           UNCHANGED <<keyOf, sess, prompted>>,
           \/ pc[p] \in {"connect", "prompt", "fetch", "command"} /\ opened' = opened
           \/ pc[p] \in Constructing /\ opened' = opened \ {client[p]}
    PROVE  SoloInv' /\ Sticky
<1> USE DEF Done, Goto, IInv, SoloInv
<1>1. pc'[p] = "idle"
    BY DEF TypeOK
<1>2. SoloSession' /\ SoloPublishes'
    BY <1>1 DEF SoloSession, SoloPublishes, Complete, Constructing
<1>3. SoloSupported'
    BY <1>1 DEF SoloSupported, CommandsOnlySupported, Connected
<1>4. SoloPrompts' /\ Sticky
    BY <1>1, SameTokens
<1>5. NoLeak'
    BY <1>1 DEF NoLeak, Unpublished, Constructing
<1> QED
    BY <1>2, <1>3, <1>4, <1>5

\* A step of the caller that changes nothing shared keeps what it knew.
LEMMA SoloAdvance ==
    ASSUME NEW p, Callers = {p}, IInv, SoloInv, NEW where, Goto(p, where),
           UNCHANGED <<handles, sess, op, rp, prompted>>,
           \/ /\ pc[p] = "session" /\ where = "connect" /\ sess.client = None
              /\ UNCHANGED <<client, info, todo>>
           \/ /\ pc[p] = "session" /\ where = "token" /\ sess.client # None
              /\ client' = [client EXCEPT ![p] = sess.client]
              /\ info' = [info EXCEPT ![p] = sess.info] /\ UNCHANGED todo
           \/ /\ pc[p] = "init" /\ where = "info"
              /\ UNCHANGED <<client, info, todo>>
           \/ /\ pc[p] = "token" /\ where = "command"
              /\ UNCHANGED <<client, info, todo>>
           \/ /\ pc[p] = "token" /\ where = "prompt" /\ CachedToken(p) = None
              /\ UNCHANGED <<client, info, todo>>
           \/ /\ pc[p] = "prompt" /\ where = "fetch"
              /\ UNCHANGED <<client, info, todo>>
    PROVE  SoloInv' /\ Sticky
<1> USE DEF Goto, IInv, SoloInv, handles
<1>1. pc'[p] = where
    BY DEF TypeOK
<1>2. SoloSession' /\ SoloPublishes'
    BY <1>1 DEF SoloSession, SoloPublishes, Complete, Constructing, NoSession
<1>3. SoloSupported'
    BY <1>1 DEF SoloSupported, NoSession, SoloSession, CommandsOnlySupported, HandlesSupported,
       Connected, Complete, KeyOf, TypeOK
<1>4. SoloPrompts' /\ Sticky
    <2>1. pc'[p] \in {"prompt", "fetch"} => CachedToken(p)' = None
        BY <1>1 DEF SoloPrompts, CachedToken, Slot
    <2> QED
        BY <2>1, SameTokens
<1>5. NoLeak'
    BY <1>1 DEF NoLeak, Unpublished, Constructing, TypeOK
<1> QED
    BY <1>2, <1>3, <1>4, <1>5

\* What checkSupport accepted, and the info it went by, are the caller's own.
LEMMA SoloAccepted ==
    ASSUME NEW p, Callers = {p}, IInv, SoloInv, Accepted(p)
    PROVE  SoloInv' /\ Sticky
<1> USE DEF Accepted, Goto, IInv, SoloInv, env, handles, touch
<1>1. pc'[p] = "publish" /\ todo'[p] = Fields /\ info'[p] = InfoOf(KeyOf(p))
    BY DEF TypeOK
<1>2. sess = NoSession
    BY DEF SoloSession, Constructing
<1>3. SoloSession' /\ SoloPublishes'
    BY <1>1, <1>2 DEF SoloSession, SoloPublishes, NoSession, Fields, Constructing
<1>4. SoloSupported'
    BY <1>1, <1>2 DEF SoloSupported, CommandsOnlySupported, NoSession, KeyOf, InfoOf,
       Supported, SupportsHMACSecret, SupportsPINProtocolTwo
<1>5. SoloPrompts' /\ Sticky
    BY <1>1, SameTokens
<1>6. NoLeak'
    BY <1>1 DEF NoLeak, Unpublished, Constructing, Fields
<1> QED
    BY <1>3, <1>4, <1>5, <1>6

\* With one caller no step leaks a handle, prompts again, panics, or changes
\* anything about a session once it is there.
LEMMA SoloStep ==
    ASSUME NEW p, Callers = {p}, IInv, SoloInv, Step(p)
    PROVE  SoloInv' /\ Sticky
<1> USE DEF env, handles, touch, locals
<1>1. CASE UseCached(p)
    BY <1>1, SoloAdvance DEF UseCached
<1>2. CASE FindsNoSession(p)
    BY <1>2, SoloAdvance DEF FindsNoSession
<1>3. CASE Connect(p)
    BY <1>3, SoloConnect
<1>4. CASE NewClientFails(p) \/ GetInfoFails(p) \/ Unsupported(p)
    BY <1>4, SoloReturn DEF NewClientFails, GetInfoFails, Unsupported, GiveUp,
       CloseHandle, Constructing
<1>5. CASE ConnectFails(p) \/ NoToken(p) \/ CommandReturns(p)
    BY <1>5, SoloReturn DEF ConnectFails, NoToken, CommandReturns
<1>6. CASE NewClient(p)
    BY <1>6, SoloAdvance DEF NewClient
<1>7. CASE Accepted(p)
    BY <1>7, SoloAccepted
<1>8. CASE \E f \in Fields : Publish(p, f)
    BY <1>8, SoloPublish
<1>9. CASE NoPINSet(p)
    BY <1>9, SoloAdvance DEF NoPINSet
<1>10. CASE TokenCached(p)
    BY <1>10, SoloAdvance DEF TokenCached
<1>11. CASE PromptForPIN(p)
    BY <1>11, SoloAdvance DEF PromptForPIN
<1>12. CASE PINEntered(p)
    BY <1>12, SoloAdvance DEF PINEntered
<1>13. CASE GotToken(p)
    BY <1>13, SoloGotToken
<1>14. ~Panics(p)
    BY DEF Panics, SoloInv, SoloSession, SoloSupported, Complete
<1> QED
    BY <1>1, <1>2, <1>3, <1>4, <1>5, <1>6, <1>7, <1>8, <1>9, <1>10, <1>11,
       <1>12, <1>13, <1>14 DEF Step

\* What happens outside a call keeps the extra invariant.
LEMMA SoloOutside ==
    ASSUME NEW p, Callers = {p}, IInv, SoloInv,
           UNCHANGED <<handles, sess, client, info, todo, prompted>>,
           \/ UNCHANGED <<pc, op, rp>>
           \/ pc[p] = "idle" /\ pc' = [pc EXCEPT ![p] = "session"]
    PROVE  SoloInv' /\ Sticky
<1> USE DEF SoloInv, IInv, handles
<1>1. SoloSession' /\ SoloPublishes' /\ SoloSupported'
    BY DEF SoloSession, SoloPublishes, SoloSupported, CommandsOnlySupported,
       Connected, Complete, KeyOf, Constructing, TypeOK
<1>2. SoloPrompts' /\ Sticky
    <2>1. pc'[p] \in {"prompt", "fetch"} => CachedToken(p)' = None
        BY DEF SoloPrompts, CachedToken, Slot, TypeOK
    <2> QED
        BY <2>1, SameTokens
<1>3. NoLeak'
    BY DEF NoLeak, Unpublished, Constructing, TypeOK
<1> QED
    BY <1>1, <1>2, <1>3

\* With one caller, every step keeps the extra invariant.
LEMMA SoloNext ==
    ASSUME NEW p, Callers = {p}, IInv, SoloInv, [Next]_vars
    PROVE  SoloInv' /\ Sticky
<1> USE DEF handles, locals, touch, env
<1>1. CASE Begin(p)
    BY <1>1, SoloOutside DEF Begin, Goto
<1>2. CASE Step(p)
    BY <1>2, SoloStep
<1>3. CASE TouchWait(p)
    BY <1>3, SoloOutside DEF TouchWait
<1>4. CASE \E k \in Keys : Plug(k) \/ Unplug(k) \/ SetPIN(k)
    BY <1>4, SoloOutside DEF Plug, Unplug, SetPIN
<1>5. CASE UNCHANGED vars
    BY <1>5, SoloOutside DEF vars
<1> QED
    BY <1>1, <1>2, <1>3, <1>4, <1>5 DEF Next

\* With one caller, connecting and prompting happen only while there is
\* nothing cached to use instead.
THEOREM SoloInvariant ==
    ASSUME NEW p, Callers = {p}
    PROVE  Spec => []SoloInv
<1>1. IInv /\ SoloInv /\ [Next]_vars => SoloInv'
    BY SoloNext
<1> QED
    BY <1>1, SoloInit, InductiveInvariant, PTL DEF Spec

\* With one caller at a time, commands only go to keys checkSupport accepted,
\* by the very info it was shown. (A second caller may find one connection's
\* info beside another's client.)
THEOREM OnlySupportedKeys ==
    ASSUME NEW p, Callers = {p}
    PROVE  Spec => []CommandsOnlySupported
<1>1. SoloInv => CommandsOnlySupported
    BY DEF SoloInv, SoloSupported
<1> QED
    BY <1>1, SoloInvariant, PTL

\* With one caller at a time every open handle is the session's or is still
\* being set up: no error path, and no second connection, leaks one.
THEOREM NothingLeaks ==
    ASSUME NEW p, Callers = {p}
    PROVE  Spec => []NoLeak
<1>1. SoloInv => NoLeak
    BY DEF SoloInv
<1> QED
    BY <1>1, SoloInvariant, PTL

\* With one caller at a time the user is asked for the PIN until a token comes
\* of it, and never again for that relying party.
THEOREM OnePromptPerRP ==
    ASSUME NEW p, Callers = {p}
    PROVE  Spec => []PromptedOnce
<1>1. SoloInv => PromptedOnce
    BY DEF SoloInv, SoloPrompts
<1> QED
    BY <1>1, SoloInvariant, PTL

\* With one caller at a time the session, once there, keeps its connection,
\* its verdict on the PIN and every token for the rest of the process.
THEOREM SessionStays ==
    ASSUME NEW p, Callers = {p}
    PROVE  Spec => SessionSticky
<1>1. IInv /\ SoloInv /\ [Next]_vars => [Sticky]_vars
    BY SoloNext
<1> QED
    BY <1>1, SoloInvariant, InductiveInvariant, PTL DEF Spec, SessionSticky, Sticky
=============================================================================
