------------------------------- MODULE AuthData -------------------------------
(***************************************************************************)
(* parseAuthData on every authenticator data of bounded length. The data   *)
(* grows by one byte a step, so that what the parser makes of it can also  *)
(* be compared with what it made of its prefixes. Lengths are scaled down. *)
(*                                                                         *)
(* A CBOR item is a byte n followed by n more: all that matters here is    *)
(* that an item says where it ends.                                        *)
(***************************************************************************)
EXTENDS Integers, Sequences

CONSTANTS
    FixedLen,   \* bytes before the variable part (37)
    FlagsAt,    \* the one that holds the flags (33)
    AAGUIDLen,  \* bytes of the AAGUID (16)
    Base,       \* values of a byte (256)
    MaxBytes    \* bound: length of the data

ASSUME AuthDataAssumption ==
    /\ FixedLen \in Nat /\ FlagsAt \in 1..FixedLen /\ AAGUIDLen \in Nat
    /\ Base \in Nat \ (0..3) /\ MaxBytes \in Nat

VARIABLE data

Byte == 0..(Base - 1)
HasCred(flags) == flags % 2 = 1             \* flagAttestedCredData
HasExt(flags) == (flags \div 2) % 2 = 1     \* flagExtensionData

Drop(s, k) == SubSeq(s, k + 1, Len(s))

Init == data = << >>

AddByte ==
    /\ Len(data) < MaxBytes
    /\ \E b \in Byte : data' = Append(data, b)

Spec == Init /\ [][AddByte]_data

-----------------------------------------------------------------------------
(* cbor.UnmarshalFirst reads one item, cbor.Unmarshal an item and nothing   *)
(* after it: a library's, as parseAuthData uses them.                       *)
UnmarshalFirst(s) == s # << >> /\ Len(s) > s[1]
AfterFirst(s) == Drop(s, s[1] + 1)

\* Wrong on purpose: bytes after the item are ignored.
UnmarshalLax(s) == UnmarshalFirst(s)

Unmarshal(s) == UnmarshalFirst(s) /\ AfterFirst(s) = << >>

-----------------------------------------------------------------------------
(* The parser. None is Go's nil: a credential ID, or extensions, not there. *)

None == << -1 >>

\* append([]byte(nil), s...): a copy, but of nothing it is nil.
Copied(s) == IF s = << >> THEN None ELSE s

Error == [ok |-> FALSE, cred |-> None, ext |-> None]

Flags == data[FlagsAt]
Rest == Drop(data, FixedLen)

CredLen == Base * Rest[AAGUIDLen + 1] + Rest[AAGUIDLen + 2]

CredPart == Drop(Rest, AAGUIDLen + 2)
AfterCred == Drop(CredPart, CredLen)

\* The attested credential data is all there.
CredOK == Len(Rest) >= AAGUIDLen + 2 /\ Len(CredPart) >= CredLen /\ UnmarshalFirst(AfterCred)

ExtPart == IF HasCred(Flags) THEN AfterFirst(AfterCred) ELSE Rest

parseAuthData ==
    IF /\ Len(data) >= FixedLen
       /\ HasCred(Flags) => CredOK
       /\ HasExt(Flags) => Unmarshal(ExtPart)
    THEN [ok |-> TRUE,
          cred |-> IF HasCred(Flags) THEN Copied(SubSeq(CredPart, 1, CredLen)) ELSE None,
          ext |-> IF HasExt(Flags) THEN ExtPart ELSE None]
    ELSE Error

-----------------------------------------------------------------------------
(* Properties *)

\* The layout the comment of authData draws (authdata.go:17-30), from the
\* building blocks up: data is these parts one after the other.
Item(s) == s # << >> /\ Len(s) = s[1] + 1
Part(a, b) == SubSeq(data, a + 1, b)
Digits(n) == <<n \div Base, n % Base>>

\* Where the credential ID, m bytes from CredAt on, and the key after it may
\* end; without a credential, both are nowhere.
CredAt == FixedLen + AAGUIDLen + 2
CredSplits ==
    IF HasCred(data[FlagsAt])
    THEN {split \in (0..Len(data)) \X (CredAt..Len(data)) :
            /\ Part(CredAt - 2, CredAt) = Digits(split[1])
            /\ CredAt + split[1] <= split[2]
            /\ Item(Part(CredAt + split[1], split[2]))}
    ELSE {<<0, FixedLen>>}

\* What data can be read as. A credential without an ID is well formed, but is
\* not one: MakeCredential takes it for none (commands.go:275).
Layouts ==
    IF Len(data) < FixedLen THEN {}
    ELSE {[ok |-> TRUE,
           cred |-> IF HasCred(data[FlagsAt]) /\ split[1] # 0
                    THEN Part(CredAt, CredAt + split[1]) ELSE None,
           ext |-> IF HasExt(data[FlagsAt]) THEN Part(split[2], Len(data)) ELSE None] :
              split \in {sp \in CredSplits :
                           HasExt(data[FlagsAt]) => Item(Part(sp[2], Len(data)))}}

\* What the parser accepts, and what it returns, is exactly what the layout
\* says, whatever is cut off and whatever the length field claims: nothing, or
\* more than there is.
ReadsTheLayout == Layouts = IF parseAuthData.ok THEN {parseAuthData} ELSE {}
=============================================================================
