---------------------------- MODULE AuthDataProofs ----------------------------
(***************************************************************************)
(* parseAuthData reads exactly what the layout says, for data of every     *)
(* length, and the lengths and byte values of the real format.             *)
(***************************************************************************)
EXTENDS AuthData, SequenceTheorems, TLAPS

\* The data is a sequence of bytes, at every moment of its growth.
LEMMA DataIsBytes == Spec => [](data \in Seq(Byte))
<1>1. Init => data \in Seq(Byte)
  BY DEF Init
<1>2. data \in Seq(Byte) /\ [AddByte]_data => (data \in Seq(Byte))'
  BY DEF AddByte
<1> QED BY <1>1, <1>2, PTL DEF Spec

\* The two bytes of a length say one number, and no other.
LEMMA DigitsAreUnique ==
    ASSUME NEW m \in Nat, NEW h \in Byte, NEW l \in Byte
    PROVE  Digits(m) = <<h, l>> <=> m = Base * h + l
<1>1. PICK B \in Nat : B > 3 /\ B = Base
  BY AuthDataAssumption
<1>2. h \in 0..(B - 1) /\ l \in 0..(B - 1)
  BY <1>1 DEF Byte
<1>3. m \div B \in Nat /\ m % B \in 0..(B - 1) /\ m = B * (m \div B) + (m % B)
  BY <1>1
<1>4. ASSUME m = B * h + l
      PROVE  m \div B = h /\ m % B = l
  <2>1. PICK q \in Nat, r \in 0..(B - 1) : q = m \div B /\ r = m % B /\ B * q + r = B * h + l
    BY <1>3, <1>4
  <2>2. B * (q - h) = l - r
    BY <1>2, <2>1
  <2>3. ~(q - h >= 1)
    <3>1. q - h >= 1 => B * (q - h) >= B
      BY <1>1, <1>2
    <3> QED BY <1>1, <1>2, <2>1, <2>2, <3>1
  <2>4. ~(q - h <= -1)
    <3>1. q - h <= -1 => B * (q - h) <= -B
      BY <1>1, <1>2
    <3> QED BY <1>1, <1>2, <2>1, <2>2, <3>1
  <2>5. q = h
    BY <1>2, <2>3, <2>4
  <2> QED BY <1>2, <2>1, <2>5
<1> QED BY <1>1, <1>3, <1>4 DEF Digits

\* What is left of what is left.
LEMMA DropTwice ==
    ASSUME NEW s \in Seq(Byte), NEW a \in Nat, NEW b \in Nat, a + b <= Len(s)
    PROVE  /\ Drop(s, a) \in Seq(Byte) /\ Len(Drop(s, a)) = Len(s) - a
           /\ Drop(Drop(s, a), b) = Drop(s, a + b)
           /\ SubSeq(Drop(s, a), 1, b) = SubSeq(s, a + 1, a + b)
           /\ \A i \in 1..(Len(s) - a) : Drop(s, a)[i] = s[a + i]
<1>1. /\ Drop(s, a) \in Seq(Byte) /\ Len(Drop(s, a)) = Len(s) - a
      /\ \A i \in 1..(Len(s) - a) : Drop(s, a)[i] = s[a + i]
  BY DEF Drop
<1>2. /\ Drop(s, a + b) \in Seq(Byte) /\ Len(Drop(s, a + b)) = Len(s) - a - b
      /\ \A i \in 1..(Len(s) - a - b) : Drop(s, a + b)[i] = s[a + b + i]
  BY DEF Drop
<1>3. PICK d \in Seq(Byte) : d = Drop(s, a)
  BY <1>1
<1>4. /\ Drop(d, b) \in Seq(Byte) /\ Len(Drop(d, b)) = Len(s) - a - b
      /\ \A i \in 1..(Len(s) - a - b) : Drop(d, b)[i] = d[b + i]
  BY <1>1, <1>3 DEF Drop
<1>5. Drop(d, b) = Drop(s, a + b)
  <2>1. \A i \in 1..(Len(s) - a - b) : Drop(d, b)[i] = Drop(s, a + b)[i]
    BY SMTT(20), <1>1, <1>2, <1>3, <1>4
  <2> QED BY <1>2, <1>4, <2>1, SeqEqual
<1>6. SubSeq(d, 1, b) = SubSeq(s, a + 1, a + b)
  <2>1. /\ SubSeq(d, 1, b) \in Seq(Byte) /\ Len(SubSeq(d, 1, b)) = b
        /\ \A i \in 1..b : SubSeq(d, 1, b)[i] = d[i]
    BY <1>1, <1>3
  <2>2. /\ SubSeq(s, a + 1, a + b) \in Seq(Byte) /\ Len(SubSeq(s, a + 1, a + b)) = b
        /\ \A i \in 1..b : SubSeq(s, a + 1, a + b)[i] = s[a + i]
    OBVIOUS
  <2>3. \A i \in 1..b : SubSeq(d, 1, b)[i] = SubSeq(s, a + 1, a + b)[i]
    BY <1>1, <1>3, <2>1, <2>2
  <2> QED BY <2>1, <2>2, <2>3, SeqEqual
<1> QED BY <1>1, <1>3, <1>5, <1>6

\* What lies between two places of the data.
LEMMA PartHolds ==
    ASSUME data \in Seq(Byte), NEW a \in Nat, NEW b \in Nat, a < b, b <= Len(data)
    PROVE  /\ Part(a, b) \in Seq(Byte) /\ Len(Part(a, b)) = b - a
           /\ \A i \in 1..(b - a) : Part(a, b)[i] = data[a + i]
<1>1. \A i \in (a + 1)..b : data[i] \in Byte
  OBVIOUS
<1>2. /\ SubSeq(data, a + 1, b) \in Seq(Byte)
      /\ Len(SubSeq(data, a + 1, b)) = b - (a + 1) + 1
      /\ \A i \in 1..(b - (a + 1) + 1) : SubSeq(data, a + 1, b)[i] = data[a + 1 + i - 1]
  BY <1>1, SubSeqProperties
<1> QED BY <1>2 DEF Part

\* What the parser wants of the last item is that it is one.
LEMMA ItemIsUnmarshalled ==
    ASSUME NEW s \in Seq(Byte)
    PROVE  Unmarshal(s) <=> Item(s)
<1>1. CASE s = << >>
  BY <1>1 DEF Unmarshal, UnmarshalFirst, Item
<1>2. CASE s # << >>
  <2>1. Len(s) \in Nat \ {0} /\ s[1] \in Nat
    BY <1>2, AuthDataAssumption DEF Byte
  <2>2. Len(s) > s[1] =>
            /\ Len(AfterFirst(s)) = Len(s) - (s[1] + 1)
            /\ AfterFirst(s) \in Seq(Byte)
    <3>1. PICK k \in Nat : k = s[1] + 1
      BY <2>1
    <3>2. Len(s) > s[1] => k + 0 <= Len(s)
      BY <2>1, <3>1
    <3> QED BY <3>1, <3>2, DropTwice, 0 \in Nat DEF AfterFirst
  <2>3. Len(s) > s[1] => (AfterFirst(s) = << >> <=> Len(AfterFirst(s)) = 0)
    BY <2>2
  <2> QED BY <1>2, <2>1, <2>2, <2>3 DEF Unmarshal, UnmarshalFirst, Item
<1> QED BY <1>1, <1>2

\* The parser finds the only place where a credential can end, or there is none.
LEMMA CredentialSplits ==
    ASSUME data \in Seq(Byte), FixedLen <= Len(data), HasCred(Flags)
    PROVE  /\ CredOK =>
              \E e \in CredAt..Len(data) :
                  /\ CredSplits = {<<CredLen, e>>}
                  /\ AfterFirst(AfterCred) = Part(e, Len(data))
                  /\ AfterFirst(AfterCred) \in Seq(Byte)
                  /\ SubSeq(CredPart, 1, CredLen) = Part(CredAt, CredAt + CredLen)
                  /\ SubSeq(CredPart, 1, CredLen) = << >> <=> CredLen = 0
           /\ ~CredOK => CredSplits = {}
<1> USE AuthDataAssumption
<1>1. PICK N \in Nat, F \in Nat, A \in Nat : N = Len(data) /\ F = FixedLen /\ A = AAGUIDLen
  OBVIOUS
<1>2. CredAt = F + A + 2
  BY <1>1 DEF CredAt
<1>3. /\ Rest \in Seq(Byte) /\ Len(Rest) = N - F
      /\ \A i \in 1..(N - F) : Rest[i] = data[F + i]
  <2>1. F + 0 <= N
    BY <1>1
  <2> QED BY <1>1, <2>1, DropTwice DEF Rest
<1>4. CASE Len(Rest) < A + 2
  <2>1. CredAt..N = {}
    BY <1>1, <1>2, <1>3, <1>4
  <2>2. CredSplits = {}
    BY <1>1, <2>1 DEF CredSplits, Flags
  <2>3. ~CredOK
    BY <1>1, <1>3, <1>4 DEF CredOK
  <2> QED BY <2>2, <2>3
<1>5. CASE Len(Rest) >= A + 2
  <2>0. PICK C \in Nat : C = F + A + 2
    BY <1>1
  <2>1. /\ CredAt = C /\ C \in 2..N /\ C - 1 \in 1..N /\ C \in 1..N
        /\ A + 1 \in 1..(N - F) /\ A + 2 \in 1..(N - F)
        /\ F + (A + 1) = C - 1 /\ F + (A + 2) = C
    BY <1>1, <1>2, <1>3, <1>5, <2>0
  <2>2. PICK h \in Byte, l \in Byte : h = data[C - 1] /\ l = data[C]
    BY <1>1, <2>1
  <2>3. Rest[A + 1] = h /\ Rest[A + 2] = l
    BY <1>3, <2>1, <2>2
  <2>4. PICK m \in Nat : m = CredLen /\ m = Base * h + l
    BY <1>1, <2>3 DEF CredLen, Byte
  <2>5. Part(C - 2, C) = <<h, l>>
    <3>1. PICK k \in Nat : k = C - 2 /\ k < C /\ k + 1 = C - 1 /\ k + 2 = C /\ C - k = 2
      BY <2>1
    <3>2. PICK s \in Seq(Byte) : /\ s = Part(C - 2, C) /\ Len(s) = 2
                                 /\ s[1] = h /\ s[2] = l
      <4>1. /\ Part(k, C) \in Seq(Byte) /\ Len(Part(k, C)) = 2
            /\ \A i \in 1..2 : Part(k, C)[i] = data[k + i]
        <5>1. k < C /\ C <= Len(data)
          BY <1>1, <2>1, <3>1
        <5>2. /\ Part(k, C) \in Seq(Byte) /\ Len(Part(k, C)) = C - k
              /\ \A i \in 1..(C - k) : Part(k, C)[i] = data[k + i]
          BY <5>1, PartHolds
        <5> QED BY <3>1, <5>2
      <4>2. Part(k, C)[1] = h /\ Part(k, C)[2] = l
        BY <2>2, <3>1, <4>1, 1 \in 1..2, 2 \in 1..2
      <4> QED BY <3>1, <4>1, <4>2
    <3>3. s = <<h, l>>
      <4>1. <<h, l>> \in Seq(Byte) /\ Len(<<h, l>>) = 2
        OBVIOUS
      <4>2. Len(s) = 2 /\ \A i \in 1..2 : s[i] = <<h, l>>[i]
        BY <3>2
      <4> QED BY <4>1, <4>2, SeqEqual
    <3> QED BY <3>2, <3>3
  <2>6. \A k \in Nat : Part(C - 2, C) = Digits(k) <=> k = m
    BY <2>4, <2>5, DigitsAreUnique
  <2>7. /\ CredPart = Drop(data, C) /\ CredPart \in Seq(Byte) /\ Len(CredPart) = N - C
        /\ \A i \in 1..(N - C) : CredPart[i] = data[C + i]
    <3>1. F + (A + 2) <= Len(data) /\ C + 0 <= Len(data) /\ A + 2 \in Nat
      BY <1>1, <2>1
    <3>2. Drop(Drop(data, F), A + 2) = Drop(data, C)
      <4>1. Drop(Drop(data, F), A + 2) = Drop(data, F + (A + 2))
        BY <3>1, DropTwice
      <4> QED BY <2>1, <4>1
    <3>3. CredPart = Drop(data, C)
      BY <1>1, <3>2 DEF CredPart, Rest
    <3>4. /\ Drop(data, C) \in Seq(Byte) /\ Len(Drop(data, C)) = N - C
          /\ \A i \in 1..(N - C) : Drop(data, C)[i] = data[C + i]
      BY <1>1, <3>1, DropTwice
    <3> QED BY <3>3, <3>4
  <2>8. CASE Len(CredPart) < m
    <3>1. \A sp \in (0..N) \X (C..N) : sp[1] = m => C + sp[1] > sp[2]
      BY <1>1, <2>1, <2>7, <2>8
    <3>2. CredSplits = {}
      BY <1>1, <2>1, <2>6, <3>1 DEF CredSplits, Flags
    <3>3. ~CredOK
      BY <2>4, <2>7, <2>8 DEF CredOK
    <3> QED BY <3>2, <3>3
  <2>9. CASE Len(CredPart) >= m
    <3>0. PICK K \in Nat : K = C + m
      OBVIOUS
    <3>1. K \in 2..N /\ m \in 0..N /\ C <= K
      <4>1. N - C >= m /\ C \in Nat /\ C >= 2 /\ C <= N
        BY <2>1, <2>7, <2>9
      <4> QED BY <3>0, <4>1
    <3>2. /\ AfterCred = Drop(data, K) /\ AfterCred \in Seq(Byte) /\ Len(AfterCred) = N - K
          /\ \A i \in 1..(N - K) : AfterCred[i] = data[K + i]
          /\ SubSeq(CredPart, 1, CredLen) = Part(C, K)
          /\ SubSeq(CredPart, 1, CredLen) = << >> <=> m = 0
      <4>1. C + m <= Len(data) /\ K + 0 <= Len(data)
        BY <1>1, <2>1, <3>0, <3>1
      <4>2. /\ Drop(Drop(data, C), m) = Drop(data, C + m)
            /\ SubSeq(Drop(data, C), 1, m) = SubSeq(data, C + 1, C + m)
        BY <4>1, DropTwice
      <4>3. AfterCred = Drop(data, K) /\ SubSeq(CredPart, 1, CredLen) = Part(C, K)
        BY <2>4, <2>7, <3>0, <4>2 DEF AfterCred, Part
      <4>4. /\ Drop(data, K) \in Seq(Byte) /\ Len(Drop(data, K)) = N - K
            /\ \A i \in 1..(N - K) : Drop(data, K)[i] = data[K + i]
        BY <1>1, <4>1, DropTwice
      <4>5. SubSeq(CredPart, 1, m) \in Seq(Byte) /\ Len(SubSeq(CredPart, 1, m)) = m
        BY <2>7, <2>9
      <4>6. SubSeq(CredPart, 1, m) = << >> <=> m = 0
        <5>1. PICK id \in Seq(Byte) : id = SubSeq(CredPart, 1, m) /\ Len(id) = m
          BY <4>5
        <5>2. id = << >> <=> Len(id) = 0
          OBVIOUS
        <5> QED BY <5>1, <5>2
      <4> QED BY <2>4, <4>3, <4>4, <4>6
    <3>3. CASE K = N
      <4>1. \A e \in C..N : K <= e => ~Item(Part(K, e))
        BY <1>1, <3>1, <3>3 DEF Part, Item
      <4>2. CredSplits = {}
        <5>1. \A sp \in (0..N) \X (C..N) :
                 ~(/\ Part(C - 2, C) = Digits(sp[1]) /\ C + sp[1] <= sp[2]
                   /\ Item(Part(C + sp[1], sp[2])))
          BY <2>6, <3>0, <4>1
        <5> QED BY <1>1, <2>1, <5>1 DEF CredSplits, Flags
      <4>3. ~CredOK
        BY <3>2, <3>3 DEF CredOK, UnmarshalFirst
      <4> QED BY <4>2, <4>3
    <3>4. CASE K < N
      <4>0. PICK f \in Nat : f = data[K + 1] /\ f = AfterCred[1]
        <5>1. K + 1 \in 1..N /\ 1 \in 1..(N - K)
          BY <3>1, <3>4
        <5>2. PICK f \in Byte : f = data[K + 1]
          BY <1>1, <5>1
        <5>3. f \in Nat
          BY DEF Byte
        <5> QED BY <3>2, <5>1, <5>2, <5>3
      <4>1. PICK E \in Nat : E = K + f + 1
        OBVIOUS
      <4>2. \A e \in C..N : K <= e => (Item(Part(K, e)) <=> e = E)
        <5> SUFFICES ASSUME NEW e \in C..N, K <= e PROVE Item(Part(K, e)) <=> e = E
          OBVIOUS
        <5>1. CASE e = K
          <6>1. Part(K, e) = << >>
            BY <3>1, <5>1 DEF Part
          <6>2. e # E
            BY <3>1, <4>1, <5>1
          <6> QED BY <6>1, <6>2 DEF Item
        <5>2. CASE e > K
          <6>1. e - K \in Nat \ {0} /\ e \in 1..N /\ K + 1 \in 1..N
            BY <2>1, <3>1, <5>2
          <6>3. PICK s \in Seq(Byte) : s = Part(K, e) /\ Len(s) = e - K /\ s[1] = data[K + 1]
            BY <1>1, <5>2, <6>1, PartHolds, 1 \in 1..(e - K)
          <6>4. s # << >>
            BY <6>1, <6>3
          <6>5. Item(s) <=> e - K = f + 1
            BY <4>0, <6>3, <6>4 DEF Item
          <6> QED BY <3>1, <4>1, <6>1, <6>3, <6>5
        <5> QED BY <2>1, <3>1, <4>1, <5>1, <5>2
      <4>3. CredOK <=> E <= N
        <5>1. AfterCred # << >>
          BY <3>2, <3>4
        <5>2. UnmarshalFirst(AfterCred) <=> N - K > f
          BY <3>2, <4>0, <5>1 DEF UnmarshalFirst
        <5>3. N - K > f <=> E <= N
          BY <3>1, <4>1
        <5> QED BY <1>1, <1>5, <2>4, <2>9, <5>2, <5>3 DEF CredOK
      <4>4. CASE E <= N
        <5>1. E \in C..N /\ C + m <= E
          BY <2>1, <3>0, <3>1, <4>1, <4>4
        <5>2. CredSplits = {<<m, E>>}
          <6>1. \A sp \in (0..N) \X (C..N) :
                   /\ Part(C - 2, C) = Digits(sp[1]) /\ C + sp[1] <= sp[2]
                   /\ Item(Part(C + sp[1], sp[2]))
                   <=> sp[1] = m /\ sp[2] = E
            BY <2>6, <3>0, <4>2, <5>1
          <6>2. \A sp \in (0..N) \X (C..N) : sp[1] = m /\ sp[2] = E <=> sp = <<m, E>>
            OBVIOUS
          <6> QED BY <1>1, <2>1, <3>1, <5>1, <6>1, <6>2 DEF CredSplits, Flags
        <5>3. AfterFirst(AfterCred) = Part(E, N) /\ AfterFirst(AfterCred) \in Seq(Byte)
          <6>1. K + (f + 1) <= Len(data) /\ E + 0 <= Len(data) /\ f + 1 \in Nat
                /\ K + (f + 1) = E
            BY <1>1, <4>1, <4>4
          <6>2. Drop(Drop(data, K), f + 1) = Drop(data, E)
            BY <6>1, DropTwice
          <6>3. AfterFirst(AfterCred) = Drop(data, E)
            BY <3>2, <4>0, <6>2 DEF AfterFirst
          <6>4. Drop(data, E) \in Seq(Byte)
            BY <6>1, DropTwice
          <6> QED BY <1>1, <6>3, <6>4 DEF Part, Drop
        <5> QED BY <1>1, <2>1, <2>4, <3>0, <3>2, <4>3, <4>4, <5>1, <5>2, <5>3
      <4>5. CASE ~(E <= N)
        <5>0. \A e \in C..N : e # E
          BY <4>5
        <5>1. \A sp \in (0..N) \X (C..N) :
                 ~(/\ Part(C - 2, C) = Digits(sp[1]) /\ C + sp[1] <= sp[2]
                   /\ Item(Part(C + sp[1], sp[2])))
          BY <2>6, <3>0, <4>2, <5>0
        <5>2. CredSplits = {}
          BY <1>1, <2>1, <5>1 DEF CredSplits, Flags
        <5> QED BY <4>3, <4>5, <5>2
      <4> QED BY <4>4, <4>5
    <3> QED BY <3>1, <3>3, <3>4
  <2>10. Len(CredPart) \in Nat
    BY <2>1, <2>7
  <2> QED BY <2>8, <2>9, <2>10
<1>6. Len(Rest) < A + 2 \/ Len(Rest) >= A + 2
  BY <1>1, <1>3
<1> QED BY <1>4, <1>5, <1>6

\* The parser accepts exactly the data that has a layout, and returns the parts
\* the layout has there: parseAuthData against the comment of authData.
THEOREM LayoutIsRead == Spec => []ReadsTheLayout
<1>1. ASSUME data \in Seq(Byte) PROVE ReadsTheLayout
  <2>1. CASE ~(FixedLen <= Len(data))
    BY <2>1, <1>1, AuthDataAssumption DEF ReadsTheLayout, Layouts, parseAuthData, Error
  <2>2. CASE FixedLen <= Len(data)
    <3>0. Len(data) \in Nat
      BY <1>1
    <3>1. PICK N \in Nat : N = Len(data)
      BY <3>0
    <3>2. ~(Len(data) < FixedLen) /\ Len(data) >= FixedLen /\ FixedLen \in 0..N
      BY <2>2, <3>1, AuthDataAssumption
    <3>3. CASE HasCred(Flags) /\ ~CredOK
      <4>1. CredSplits = {}
        BY <1>1, <2>2, <3>3, CredentialSplits
      <4> QED BY <3>2, <3>3, <4>1 DEF ReadsTheLayout, Layouts, parseAuthData, Error
    <3>4. CASE HasCred(Flags) => CredOK
      <4>1. PICK m, e :
                /\ CredSplits = {<<m, e>>} /\ ExtPart = Part(e, N) /\ ExtPart \in Seq(Byte)
                /\ HasCred(Flags) =>
                      Copied(SubSeq(CredPart, 1, CredLen)) =
                          IF m # 0 THEN Part(CredAt, CredAt + m) ELSE None
        <5>1. CASE HasCred(Flags)
          BY <1>1, <2>2, <3>1, <3>4, <5>1, CredentialSplits DEF ExtPart, Copied
        <5>2. CASE ~HasCred(Flags)
          <6>1. FixedLen + 0 <= Len(data) /\ FixedLen \in Nat
            BY <3>1, <3>2
          <6>2. Rest \in Seq(Byte)
            BY <1>1, <6>1, DropTwice DEF Rest
          <6>3. CredSplits = {<<0, FixedLen>>} /\ ExtPart = Rest /\ Rest = Part(FixedLen, N)
            BY <3>1, <5>2 DEF CredSplits, Flags, ExtPart, Rest, Drop, Part
          <6> QED BY <5>2, <6>2, <6>3
        <5> QED BY <5>1, <5>2
      <4>2. Unmarshal(ExtPart) <=> Item(Part(e, N))
        BY <4>1, ItemIsUnmarshalled
      <4> DEFINE read == [ok |-> TRUE,
                          cred |-> IF HasCred(Flags) /\ m # 0
                                   THEN Part(CredAt, CredAt + m) ELSE None,
                          ext |-> IF HasExt(Flags) THEN Part(e, N) ELSE None]
      <4>3. Layouts = IF HasExt(Flags) => Item(Part(e, N)) THEN {read} ELSE {}
        <5>1. <<m, e>>[1] = m /\ <<m, e>>[2] = e
          OBVIOUS
        <5> QED BY <3>1, <3>2, <4>1, <5>1 DEF Layouts, Flags
      <4>4. parseAuthData = IF HasExt(Flags) => Item(Part(e, N)) THEN read ELSE Error
        BY <3>2, <3>4, <4>1, <4>2 DEF parseAuthData
      <4> QED BY <4>3, <4>4 DEF ReadsTheLayout, Error
    <3> QED BY <3>3, <3>4
  <2> QED BY <2>1, <2>2
<1>2. data \in Seq(Byte) => ReadsTheLayout
  BY <1>1
<1> QED BY <1>2, DataIsBytes, PTL
===============================================================================
