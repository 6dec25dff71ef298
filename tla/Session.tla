------------------------------- MODULE Session -------------------------------
(***************************************************************************)
(* The facade of package hmacsecret: Enroll and GetSecret over the         *)
(* package-level session, which connects on first use (connectReal,        *)
(* discoverOne, getSession, checkSupport), caches PIN tokens per relying   *)
(* party and permission (sessionPINToken) and narrates touches.            *)
(*                                                                         *)
(* Nothing in the package is locked: each action is the code between two   *)
(* points at which the caller waits for the device, for the user, or       *)
(* reads or writes the session, and several callers interleave at those    *)
(* points. As nothing orders one goroutine's writes for another, the       *)
(* session's fields may be seen to change in any order.                    *)
(***************************************************************************)
EXTENDS Integers, FiniteSets

CONSTANTS
    Callers,        \* goroutines that call Enroll and GetSecret
    Keys,           \* FIDO authenticators the user owns
    HmacKeys,       \* those with the hmac-secret extension
    TwoKeys,        \* those that speak PIN/UV auth protocol two
    Conns,          \* open device handles
    RPs,            \* relying party IDs
    None,           \* a nil pointer, client or token
    MaxFaults       \* bound: transient errors while connecting

ASSUME SessionAssumption ==
    /\ HmacKeys \subseteq Keys /\ TwoKeys \subseteq Keys
    /\ None \notin Conns /\ None \notin Keys
    /\ MaxFaults \in Nat

VARIABLES
    plugged,    \* authenticators connected to the computer
    pinOn,      \* authenticators with a PIN set
    opened,     \* handles open
    dead,       \* open handles whose authenticator has been unplugged
    keyOf,      \* the authenticator a handle was opened on
    touched,    \* handles whose OnKeepAlive has narrated a touch
    sess,       \* the package-level session
    pc,         \* where each caller is
    op,         \* the function it called
    rp,         \* its rpID
    client,     \* its local client
    info,       \* what its local info says of the PIN
    todo,       \* fields of the session it has still to assign
    token,      \* its local token
    waited,     \* the authenticator waited for a touch in this call
    narrated,   \* times OnTouchRequired ran in this call
    prompted,   \* PIN tokens obtained per relying party with this session
    faults      \* transient errors so far

env == <<plugged, pinOn, dead>>
handles == <<opened, keyOf>>
locals == <<op, rp, client, info, todo, token>>
touch == <<touched, waited, narrated>>
vars == <<env, handles, touch, sess, pc, locals, prompted, faults>>

-----------------------------------------------------------------------------
Ops == {"Enroll", "GetSecret"}
Perms == {"MakeCredential", "GetAssertion"}

\* The permission an operation needs, and the ones a fresh token is given.
Permission(o) == IF o = "Enroll" THEN "MakeCredential" ELSE "GetAssertion"

\* Wrong on purpose: the token is marked with the function called.
NameOfFunction(o) == {o}

allPermissions(o) == Perms

\* What GetInfo says of a key.
SupportsHMACSecret(k) == k \in HmacKeys
SupportsPINProtocolTwo(k) == k \in TwoKeys
PINSet(k) == k \in pinOn

\* Wrong on purpose: a PIN-protected key may speak any protocol.
HmacOnly(k) == SupportsHMACSecret(k)

\* Wrong on purpose: a key without a PIN is refused.
SupportedWithPIN(k) == SupportsHMACSecret(k) /\ PINSet(k) /\ SupportsPINProtocolTwo(k)

\* checkSupport.
Supported(k) == SupportsHMACSecret(k) /\ (PINSet(k) => SupportsPINProtocolTwo(k))

Slots == RPs \X Perms
Token == [rp : RPs, perms : SUBSET Perms, conn : Conns]
ASSUME TokenAssumption == None \notin Token

NoTokens == [s \in Slots |-> None]

\* An *ctap2.Info: a nil pointer, or PINSet.
Infos == {"nil", "noPIN", "PIN"}

\* The session's fields; "made" says that the token map is not nil.
Fields == {"client", "info", "tokens"}
NoSession == [client |-> None, info |-> "nil", made |-> FALSE, tokens |-> NoTokens]

Locals == {"idle", "session", "connect", "init", "info", "publish",
           "token", "prompt", "fetch", "command", "panic"}

Init ==
    /\ plugged \in SUBSET Keys /\ pinOn \in SUBSET Keys /\ dead = {}
    /\ opened = {} /\ keyOf = [c \in Conns |-> None]
    /\ touched = {} /\ sess = NoSession
    /\ pc = [p \in Callers |-> "idle"]
    /\ op \in [Callers -> {"Enroll"}]
    /\ rp = [p \in Callers |-> None] /\ client = [p \in Callers |-> None]
    /\ info = [p \in Callers |-> "nil"] /\ todo = [p \in Callers |-> {}]
    /\ token = [p \in Callers |-> None]
    /\ waited = [p \in Callers |-> FALSE] /\ narrated = [p \in Callers |-> 0]
    /\ prompted = [r \in RPs |-> 0] /\ faults = 0

Goto(p, where) == pc' = [pc EXCEPT ![p] = where]

\* The handle of p answers: it is open and its authenticator plugged in.
Works(p) == client[p] \in opened \ dead
KeyOf(p) == keyOf[client[p]]

\* A transient error: a report lost, a permission problem, a busy device.
Fault == faults < MaxFaults /\ faults' = faults + 1
FaultUnless(good) == \/ Fault
                     \/ ~good /\ UNCHANGED faults

-----------------------------------------------------------------------------
(* Enroll and GetSecret *)

Begin(p) ==
    /\ pc[p] = "idle"
    /\ \E o \in Ops, r \in RPs :
          op' = [op EXCEPT ![p] = o] /\ rp' = [rp EXCEPT ![p] = r]
    /\ Goto(p, "session")
    /\ UNCHANGED <<env, handles, touch, sess, client, info, todo, token, prompted, faults>>

\* The call returns, its locals are gone.
Done(p) ==
    /\ Goto(p, "idle")
    /\ op' = [op EXCEPT ![p] = "Enroll"]
    /\ rp' = [rp EXCEPT ![p] = None]
    /\ client' = [client EXCEPT ![p] = None]
    /\ info' = [info EXCEPT ![p] = "nil"]
    /\ todo' = [todo EXCEPT ![p] = {}]
    /\ token' = [token EXCEPT ![p] = None]
    /\ waited' = [waited EXCEPT ![p] = FALSE]
    /\ narrated' = [narrated EXCEPT ![p] = 0]

\* getSession finds the cached connection, and takes what info there is.
UseCached(p) ==
    /\ pc[p] = "session" /\ sess.client # None
    /\ client' = [client EXCEPT ![p] = sess.client]
    /\ info' = [info EXCEPT ![p] = sess.info]
    /\ Goto(p, "token")
    /\ UNCHANGED <<env, handles, touch, sess, op, rp, todo, token, prompted, faults>>

FindsNoSession(p) ==
    /\ pc[p] = "session" /\ sess.client = None
    /\ Goto(p, "connect")
    /\ UNCHANGED <<env, handles, touch, sess, locals, prompted, faults>>

\* discoverOne finds no key, more than one, or cannot list them; or Open
\* fails. Nothing has been opened.
ConnectFails(p) ==
    /\ pc[p] = "connect"
    /\ FaultUnless(Cardinality(plugged) = 1)
    /\ Done(p)
    /\ UNCHANGED <<env, handles, touched, sess, prompted>>

\* discoverOne and Open succeed: a handle of the caller's own, whose
\* OnKeepAlive will have a "touched" flag of its own.
Connect(p) ==
    /\ pc[p] = "connect"
    /\ Cardinality(plugged) = 1
    /\ \E c \in Conns \ opened, k \in plugged :
          /\ opened' = opened \cup {c}
          /\ keyOf' = [keyOf EXCEPT ![c] = k]
          /\ touched' = touched \ {c}
          /\ dead' = dead \ {c}
          /\ client' = [client EXCEPT ![p] = c]
    /\ Goto(p, "init")
    /\ UNCHANGED <<plugged, pinOn, waited, narrated, sess, op, rp, info, todo, token,
                   prompted, faults>>

\* Wrong on purpose: the error is returned and the handle forgotten.
KeepHandle(p) == UNCHANGED handles

\* The error paths of connectReal and getSession close what they opened.
CloseHandle(p) == opened' = opened \ {client[p]} /\ UNCHANGED keyOf

GiveUp(p) ==
    /\ CloseHandle(p)
    /\ Done(p)
    /\ UNCHANGED <<env, touched, sess, prompted>>

\* Wrong on purpose: a Read on an unplugged key never returns.
NewClientFailsTransiently(p) == pc[p] = "init" /\ Fault /\ GiveUp(p)

NewClientFails(p) ==
    /\ pc[p] = "init"
    /\ FaultUnless(Works(p))
    /\ GiveUp(p)

NewClient(p) ==
    /\ pc[p] = "init" /\ Works(p)
    /\ Goto(p, "info")
    /\ UNCHANGED <<env, handles, touch, sess, locals, prompted, faults>>

GetInfoFails(p) ==
    /\ pc[p] = "info"
    /\ FaultUnless(Works(p))
    /\ GiveUp(p)

Unsupported(p) ==
    /\ pc[p] = "info" /\ Works(p)
    /\ ~Supported(KeyOf(p))
    /\ UNCHANGED faults
    /\ GiveUp(p)

\* What GetInfo reported, kept by the caller and published with the session.
InfoOf(k) == IF PINSet(k) THEN "PIN" ELSE "noPIN"

Accepted(p) ==
    /\ pc[p] = "info" /\ Works(p)
    /\ Supported(KeyOf(p))
    /\ info' = [info EXCEPT ![p] = InfoOf(KeyOf(p))]
    /\ todo' = [todo EXCEPT ![p] = Fields]
    /\ Goto(p, "publish")
    /\ UNCHANGED <<env, handles, touch, sess, op, rp, client, token, prompted, faults>>

\* The session with one more of its fields assigned: the caller's connection,
\* what it knows of it, an empty token map.
With(p, f) ==
    CASE f = "client" -> [sess EXCEPT !.client = client[p]]
      [] f = "info" -> [sess EXCEPT !.info = info[p]]
      [] f = "tokens" -> [sess EXCEPT !.made = TRUE, !.tokens = NoTokens]

Publish(p, f) ==
    /\ pc[p] = "publish" /\ f \in todo[p]
    /\ sess' = With(p, f)
    /\ todo' = [todo EXCEPT ![p] = @ \ {f}]
    /\ Goto(p, IF todo[p] = {f} THEN "token" ELSE "publish")
    /\ prompted' = IF f = "tokens" THEN [r \in RPs |-> 0] ELSE prompted
    /\ UNCHANGED <<env, handles, touch, op, rp, client, info, token, faults>>

-----------------------------------------------------------------------------
(* sessionPINToken *)

Slot(p) == <<rp[p], Permission(op[p])>>

\* Wrong on purpose: any relying party's token will do.
CachedForAnyRP(p) ==
    LET hits == {s \in Slots : s[2] = Permission(op[p]) /\ sess.tokens[s] # None}
    IN IF hits = {} THEN None ELSE sess.tokens[CHOOSE s \in hits : TRUE]

CachedToken(p) == sess.tokens[Slot(p)]

NoPINSet(p) ==
    /\ pc[p] = "token" /\ info[p] = "noPIN"
    /\ Goto(p, "command")
    /\ UNCHANGED <<env, handles, touch, sess, locals, prompted, faults>>

TokenCached(p) ==
    /\ pc[p] = "token" /\ info[p] = "PIN" /\ CachedToken(p) # None
    /\ token' = [token EXCEPT ![p] = CachedToken(p)]
    /\ Goto(p, "command")
    /\ UNCHANGED <<env, handles, touch, sess, op, rp, client, info, todo, prompted, faults>>

PromptForPIN(p) ==
    /\ pc[p] = "token" /\ info[p] = "PIN" /\ CachedToken(p) = None
    /\ Goto(p, "prompt")
    /\ UNCHANGED <<env, handles, touch, sess, locals, prompted, faults>>

PINEntered(p) ==
    /\ pc[p] = "prompt"
    /\ Goto(p, "fetch")
    /\ UNCHANGED <<env, handles, touch, sess, locals, prompted, faults>>

\* Wrong on purpose: the connection is closed when no token was obtained.
NoTokenCloses(p) == pc[p] \in {"prompt", "fetch"} /\ UNCHANGED faults /\ GiveUp(p)

\* The prompt fails, or GetPINToken does (a wrong PIN, an unplugged key):
\* nothing is cached.
NoToken(p) ==
    /\ pc[p] \in {"prompt", "fetch"}
    /\ Done(p)
    /\ UNCHANGED <<env, handles, touched, sess, prompted, faults>>

\* GetPINToken succeeds: the token covers allPermissions for this rpID and is
\* cached under both, in the token map the session has by now.
FreshToken(p) == [rp |-> rp[p], perms |-> allPermissions(op[p]), conn |-> client[p]]

\* Wrong on purpose: the token is only cached for what it was asked for.
OneSlot(p) == {Slot(p)}

StoredSlots(p) == {rp[p]} \X Perms

\* Wrong on purpose: every new token starts a new cache.
CacheOnlyFresh(p) ==
    [s \in Slots |-> IF s \in StoredSlots(p) THEN FreshToken(p) ELSE None]

CacheWithFresh(p) ==
    [s \in Slots |-> IF s \in StoredSlots(p) THEN FreshToken(p) ELSE sess.tokens[s]]

GotToken(p) ==
    /\ pc[p] = "fetch" /\ Works(p) /\ PINSet(KeyOf(p)) /\ sess.made
    /\ token' = [token EXCEPT ![p] = FreshToken(p)]
    /\ sess' = [sess EXCEPT !.tokens = CacheWithFresh(p)]
    /\ prompted' = [prompted EXCEPT ![rp[p]] = @ + 1]
    /\ Goto(p, "command")
    /\ UNCHANGED <<env, handles, touch, op, rp, client, info, todo, faults>>

\* A nil info is dereferenced, or a nil map written to: the process ends.
Panics(p) ==
    /\ \/ pc[p] = "token" /\ info[p] = "nil"
       \/ pc[p] = "fetch" /\ Works(p) /\ PINSet(KeyOf(p)) /\ ~sess.made
    /\ pc' = [q \in Callers |-> "panic"]
    /\ UNCHANGED <<env, handles, touch, sess, locals, prompted, faults>>

-----------------------------------------------------------------------------
(* MakeCredential and GetAssertion *)

\* Wrong on purpose: every keep-alive that asks for a touch is narrated.
AlwaysNarrates(p) == TRUE

Narrates(p) == client[p] \notin touched

\* The authenticator waits for a touch: OnKeepAlive with status 0x02.
TouchWait(p) ==
    /\ pc[p] = "command" /\ Works(p) /\ narrated[p] < 2
    /\ waited' = [waited EXCEPT ![p] = TRUE]
    /\ narrated' = [narrated EXCEPT ![p] = IF Narrates(p) THEN @ + 1 ELSE @]
    /\ touched' = touched \cup {client[p]}
    /\ UNCHANGED <<env, handles, sess, pc, locals, prompted, faults>>

\* The command succeeds or fails; either way the session stays as it is.
CommandReturns(p) ==
    /\ pc[p] = "command"
    /\ Done(p)
    /\ UNCHANGED <<env, handles, touched, sess, prompted, faults>>

Step(p) ==
    \/ UseCached(p) \/ FindsNoSession(p) \/ ConnectFails(p) \/ Connect(p)
    \/ NewClientFails(p) \/ NewClient(p) \/ GetInfoFails(p) \/ Unsupported(p)
    \/ Accepted(p) \/ \E f \in Fields : Publish(p, f)
    \/ NoPINSet(p) \/ TokenCached(p) \/ PromptForPIN(p) \/ PINEntered(p)
    \/ NoToken(p) \/ GotToken(p) \/ Panics(p) \/ CommandReturns(p)

-----------------------------------------------------------------------------
(* The user and other programs: not under src/. *)

Plug(k) ==
    /\ k \notin plugged
    /\ plugged' = plugged \cup {k}
    /\ UNCHANGED <<pinOn, dead, handles, touch, sess, pc, locals, prompted, faults>>

\* Handles of an unplugged authenticator stay open and never work again.
Unplug(k) ==
    /\ k \in plugged
    /\ plugged' = plugged \ {k}
    /\ dead' = dead \cup {c \in opened : keyOf[c] = k}
    /\ UNCHANGED <<pinOn, handles, touch, sess, pc, locals, prompted, faults>>

SetPIN(k) ==
    /\ k \notin pinOn
    /\ pinOn' = pinOn \cup {k}
    /\ UNCHANGED <<plugged, dead, handles, touch, sess, pc, locals, prompted, faults>>

Next ==
    \/ \E p \in Callers : Begin(p) \/ Step(p) \/ TouchWait(p)
    \/ \E k \in Keys : Plug(k) \/ Unplug(k) \/ SetPIN(k)

Spec == Init /\ [][Next]_vars

\* A caller inside Enroll or GetSecret goes on; nothing makes one begin.
FairSpec == Spec /\ \A p \in Callers : WF_vars(Step(p))

\* A caller that follows the error message and tries again, for ever.
RetrySpec == FairSpec /\ \A p \in Callers : WF_vars(Begin(p))

-----------------------------------------------------------------------------
(* Properties *)

\* Every variable has the values the code gives it.
TypeOK ==
    /\ plugged \subseteq Keys /\ pinOn \subseteq Keys
    /\ opened \subseteq Conns /\ dead \subseteq Conns /\ touched \subseteq Conns
    /\ keyOf \in [Conns -> Keys \cup {None}]
    /\ sess \in [client : Conns \cup {None}, info : Infos, made : BOOLEAN,
                 tokens : [Slots -> Token \cup {None}]]
    /\ pc \in [Callers -> Locals]
    /\ op \in [Callers -> Ops] /\ rp \in [Callers -> RPs \cup {None}]
    /\ client \in [Callers -> Conns \cup {None}]
    /\ info \in [Callers -> Infos] /\ todo \in [Callers -> SUBSET Fields]
    /\ token \in [Callers -> Token \cup {None}]
    /\ waited \in [Callers -> BOOLEAN] /\ narrated \in [Callers -> Nat]
    /\ prompted \in [RPs -> Nat] /\ faults \in 0..MaxFaults

\* The handle a caller works with, and the one the session caches, is open:
\* no error path closes a handle somebody else still uses, whatever the
\* interleaving.
Constructing == {"init", "info"}
Connected == {"publish", "token", "prompt", "fetch", "command"}
UsesHandle == Constructing \cup Connected

NoUseAfterClose ==
    /\ sess.client # None => sess.client \in opened
    /\ \A p \in Callers : pc[p] \in UsesHandle => client[p] \in opened

\* An open handle is the session's or belongs to a caller that has not
\* published it yet: no error path and no second connection leaks one.
Unpublished(p) ==
    \/ pc[p] \in Constructing
    \/ pc[p] = "publish" /\ "client" \in todo[p]

NoLeak ==
    \A c \in opened :
        \/ sess.client = c
        \/ \E p \in Callers : client[p] = c /\ Unpublished(p)

\* Several callers that connect at the same time each open a handle, and all
\* but one are never closed (the second overwrites session.closer); but no
\* more than that, however often connecting failed before: with no lock, one
\* stray handle per further caller is the most that is left.
OpenHandlesBounded == Cardinality(opened) <= Cardinality(Callers)

\* Enroll and GetSecret only ever send commands to a key that has passed
\* checkSupport, by what GetInfo reported when the session was made.
CommandsOnlySupported ==
    \A p \in Callers : pc[p] \in Connected =>
        /\ KeyOf(p) \in HmacKeys
        /\ info[p] = "PIN" => KeyOf(p) \in TwoKeys

\* The command carries a token exactly when info says a PIN is set, and that
\* token was granted for this rpID and this operation.
TokenFits ==
    \A p \in Callers : pc[p] = "command" =>
        /\ info[p] = "PIN" <=> token[p] # None
        /\ token[p] # None =>
              token[p].rp = rp[p] /\ Permission(op[p]) \in token[p].perms

\* One PIN entry that yields a token serves every later call for that rpID.
PromptedOnce == \A r \in RPs : prompted[r] <= 1

\* OnTouchRequired is called at most once per call (hmacsecret.go:42-44).
TouchAtMostOncePerCall == \A p \in Callers : narrated[p] <= 1

\* fido2hmac narrates the wait for a touch "exactly once per request"
\* (ctap2.go:111-112).
TouchNarrated ==
    \A p \in Callers : waited[p] => narrated[p] = 1

\* Once connected, the session keeps its connection and its verdict on the
\* PIN for the remainder of the process (hmacsecret.go:153-154), and never
\* loses or replaces a token.
Complete == sess.client # None /\ sess.info # "nil" /\ sess.made

SessionSticky ==
    [][Complete =>
          /\ sess'.client = sess.client /\ sess'.info = sess.info
          /\ \A s \in Slots : sess.tokens[s] # None => sess'.tokens[s] = sess.tokens[s]]_vars

\* Every call returns, given that the device and the user answer.
CallsReturn == \A p \in Callers : pc[p] # "idle" ~> pc[p] = "idle"

\* "plug one in and try again", "unplug all but the one you want to use and
\* try again" (hmacsecret.go:114, 122): with a single supported key left in,
\* trying again connects.
OneGoodKey == \E k \in HmacKeys \cap TwoKeys : plugged = {k}
TryAgain == <>[]OneGoodKey => <>(sess.client # None)
=============================================================================
