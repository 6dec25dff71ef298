------------------------ MODULE ReportDescriptorProofs ------------------------
(***************************************************************************)
(* Proofs about parseReportDescriptor, for descriptors of every length     *)
(* made of any items: the device it accepts has declared both reports, if  *)
(* no usage page or usage has the value zero, and a well-formed descriptor *)
(* is always accepted.                                                     *)
(***************************************************************************)
EXTENDS ReportDescriptor, TLAPS

-----------------------------------------------------------------------------
(* The inductive invariant *)

SizeItems == {"ReportCount", "ReportSize"}

\* What a usage page, or a usage, of v says of the items of its key: v is the
\* first one's value, unless that is zero.
FromFirst(key, v) ==
    /\ \A i \in DOMAIN items :
          First(key, i) => v = Value(items[i].data) \/ Value(items[i].data) = 0
    /\ v # 0 => \E i \in DOMAIN items : items[i].key = key
    /\ v = 0 => \/ \A i \in DOMAIN items : items[i].key # key
                \/ \E i \in DOMAIN items : First(key, i) /\ Value(items[i].data) = 0

\* The first item of the key, if there is one, has a value.
FirstCounts(key) == \A i \in DOMAIN items : First(key, i) => Value(items[i].data) # 0

Bit(b) == IF b THEN 1 ELSE 0

\* Then what remains is what has not been found: nothing is subtracted twice.
RemainsToBeFound ==
    FirstCounts("UsagePage") /\ FirstCounts("Usage") =>
        remaining = 4 - Bit("Input" \in have) - Bit("Output" \in have)
                      - Bit(usagePage # 0) - Bit(usage # 0)

\* Every report found is declared, and every flag was set since the last one.
Declared ==
    /\ have = {} => \A k \in flags : \E j \in DOMAIN items : items[j].key = k
    /\ \A r \in Reports : have = {r} =>
          \E i \in DOMAIN items :
              /\ items[i].key = r /\ Sized(1, i - 1)
              /\ \A k \in flags : \E j \in (i + 1)..Len(items) : items[j].key = k
    /\ have = Reports => DeclaresBoth

\* Then every one was found, and the flags show what follows the last one.
SizedAreFound ==
    SizedReports =>
        /\ \A j \in DOMAIN items : items[j].key \in Reports => items[j].key \in have
        /\ \A j \in DOMAIN items :
              /\ items[j].key \in SizeItems
              /\ \A k \in j..Len(items) : items[k].key \notin Reports
              => items[j].key \in flags

IInv ==
    /\ TypeOK
    /\ items \in Seq(Items)
    /\ FromFirst("UsagePage", usagePage) /\ FromFirst("Usage", usage)
    /\ RemainsToBeFound
    /\ Declared
    /\ SizedAreFound

-----------------------------------------------------------------------------
(* The proofs *)

\* What a sequence holds.
LEMMA ElementOf == ASSUME NEW S, NEW d \in Seq(S), NEW k \in 1..Len(d) PROVE d[k] \in S
OBVIOUS

\* The value of an item's data bytes is a natural number.
LEMMA ValueNat == ASSUME NEW i \in Items PROVE Value(i.data) \in Nat
<1>1. PICK d \in Seq(0..255) : d = i.data
  BY DescriptorAssumption DEF ItemType
<1> DEFINE b(k) == IF k <= Len(d) THEN d[k] ELSE 0
<1>2. ASSUME NEW k \in 1..3 PROVE b(k) \in Nat
  <2>1. CASE k <= Len(d)
    <3>1. k \in 1..Len(d)
      BY <2>1
    <3>2. PICK e \in 0..255 : e = d[k]
      BY <3>1, ElementOf
    <3>3. b(k) = e
      BY <2>1, <3>2
    <3>4. e \in Nat
      OBVIOUS
    <3> HIDE DEF b
    <3> QED BY <3>3, <3>4
  <2>2. CASE ~(k <= Len(d))
    BY <2>2
  <2> QED BY <2>1, <2>2
<1>3. b(1) \in Nat /\ b(2) \in Nat /\ b(3) \in Nat
  BY <1>2, 1 \in 1..3, 2 \in 1..3, 3 \in 1..3
<1>4. Value(i.data) = b(1) + 256 * b(2) + 65536 * b(3)
  BY <1>1 DEF Value
<1> HIDE DEF b
<1> QED BY <1>3, <1>4

\* The two values that a FIDO device's descriptor holds.
LEMMA FidoValues ==
    Value(<<208, 241>>) = fidoUsagePage /\ Value(<<1>>) = fidoUsage
BY DEF Value, fidoUsagePage, fidoUsage

\* Reading an item leaves those before it where they are.
LEMMA Appended ==
    ASSUME items \in Seq(Items), NEW i \in Items, items' = Append(items, i)
    PROVE  /\ items' \in Seq(Items) /\ Len(items) \in Nat
           /\ Len(items') = Len(items) + 1
           /\ DOMAIN items = 1..Len(items)
           /\ DOMAIN items' = 1..(Len(items) + 1)
           /\ \A j \in 1..Len(items) : items'[j] = items[j]
           /\ items'[Len(items) + 1] = i
OBVIOUS

\* At the start nothing is read and everything remains.
LEMMA InitIInv == Init => IInv
<1> SUFFICES ASSUME Init PROVE IInv
  OBVIOUS
<1>1. DOMAIN items = {} /\ items \in Seq(Items)
  BY DEF Init
<1>2. TypeOK
  <2>1. flags \subseteq SizeItems /\ have \subseteq Reports
    BY DEF Init
  <2>2. remaining \in 0..4 /\ usagePage \in Nat /\ usage \in Nat
    BY DEF Init
  <2>3. truncated \in BOOLEAN
    BY Zenon DEF Init
  <2> QED BY <2>1, <2>2, <2>3 DEF TypeOK, SizeItems
<1>3. FromFirst("UsagePage", usagePage) /\ FromFirst("Usage", usage)
  BY <1>1 DEF Init, FromFirst
<1>4. RemainsToBeFound
  BY DEF Init, RemainsToBeFound, Bit
<1>5. Declared
  BY DEF Init, Declared, Reports
<1>6. SizedAreFound
  BY <1>1 DEF SizedAreFound
<1> QED BY <1>1, <1>2, <1>3, <1>4, <1>5, <1>6 DEF IInv

\* An item read later takes nothing from what is first.
LEMMA StaysFirst ==
    ASSUME items \in Seq(Items), NEW i \in Items, items' = Append(items, i),
           NEW key
    PROVE  /\ \A j \in DOMAIN items : First(key, j)' <=> First(key, j)
           /\ \A n : n = Len(items) + 1 =>
                (First(key, n)' <=>
                    i.key = key /\ \A j \in DOMAIN items : items[j].key # key)
           /\ FirstCounts(key)' => FirstCounts(key)
<1>1. \A j \in DOMAIN items : First(key, j)' <=> First(key, j)
  BY Appended DEF First
<1>2. ASSUME NEW n, n = Len(items) + 1
      PROVE  First(key, n)' <=>
                 i.key = key /\ \A j \in DOMAIN items : items[j].key # key
  BY <1>2, Appended DEF First
<1>3. FirstCounts(key)' => FirstCounts(key)
  BY Appended, <1>1 DEF FirstCounts
<1> QED BY <1>1, <1>2, <1>3

\* A usage page, or a usage, that takes the values the parser takes is that of
\* the first item of its key.
LEMMA FromFirstStep ==
    ASSUME items \in Seq(Items), NEW i \in Items, items' = Append(items, i),
           NEW key, NEW v, NEW w, FromFirst(key, v),
           w = IF i.key = key /\ v = 0 THEN Value(i.data) ELSE v
    PROVE  FromFirst(key, w)'
<1>1. PICK n : n = Len(items) + 1
  OBVIOUS
<1>2. /\ DOMAIN items' = DOMAIN items \cup {n} /\ items'[n] = i
      /\ \A j \in DOMAIN items : items'[j] = items[j]
  BY <1>1, Appended
<1>3. /\ \A j \in DOMAIN items : First(key, j)' <=> First(key, j)
      /\ First(key, n)' <=> i.key = key /\ \A j \in DOMAIN items : items[j].key # key
  BY <1>1, StaysFirst
<1>4. \A j \in DOMAIN items' :
          First(key, j)' => w = Value(items'[j].data) \/ Value(items'[j].data) = 0
  <2>1. ASSUME NEW j \in DOMAIN items, First(key, j)
        PROVE  w = Value(items[j].data) \/ Value(items[j].data) = 0
    <3>1. items[j].key = key
      BY <2>1 DEF First
    <3> QED BY <2>1, <3>1 DEF FromFirst
  <2>2. ASSUME i.key = key, \A j \in DOMAIN items : items[j].key # key
        PROVE  w = Value(i.data)
    BY <2>2 DEF FromFirst
  <2> QED BY <1>2, <1>3, <2>1, <2>2
<1>5. w # 0 => \E j \in DOMAIN items' : items'[j].key = key
  BY <1>2 DEF FromFirst
<1>6. w = 0 => \/ \A j \in DOMAIN items' : items'[j].key # key
              \/ \E j \in DOMAIN items' : First(key, j)' /\ Value(items'[j].data) = 0
  <2> SUFFICES ASSUME w = 0,
                      NEW m \in DOMAIN items', items'[m].key = key
               PROVE  \E j \in DOMAIN items' : First(key, j)' /\ Value(items'[j].data) = 0
    OBVIOUS
  <2>1. v = 0
    BY DEF FromFirst
  <2>2. CASE \E j \in DOMAIN items : First(key, j) /\ Value(items[j].data) = 0
    BY <1>2, <1>3, <2>2
  <2>3. CASE \A j \in DOMAIN items : items[j].key # key
    <3>1. i.key = key
      BY <1>2, <2>3
    <3> QED BY <1>2, <1>3, <2>1, <2>3, <3>1
  <2> QED BY <2>1, <2>2, <2>3 DEF FromFirst
<1> QED BY <1>4, <1>5, <1>6 DEF FromFirst

\* What is taken as found is found once: the bits of what has been found count
\* as many things as were subtracted.
LEMMA RemainsStep ==
    ASSUME IInv, NEW i \in Items, ScanItem(i)
    PROVE  RemainsToBeFound'
<1> SUFFICES ASSUME FirstCounts("UsagePage")', FirstCounts("Usage")'
             PROVE  remaining' = 4 - Bit("Input" \in have') - Bit("Output" \in have')
                                   - Bit(usagePage' # 0) - Bit(usage' # 0)
  BY DEF RemainsToBeFound, Bit
<1>1. PICK n : n = Len(items) + 1
  OBVIOUS
<1>2. items \in Seq(Items) /\ items' = Append(items, i)
  BY DEF IInv, ScanItem
<1>3. DOMAIN items' = DOMAIN items \cup {n} /\ items'[n] = i
  BY <1>1, <1>2, Appended
<1>4. remaining = 4 - Bit("Input" \in have) - Bit("Output" \in have)
                    - Bit(usagePage # 0) - Bit(usage # 0)
  BY <1>2, StaysFirst DEF IInv, RemainsToBeFound
<1>5. TakesPage(i.key) => usagePage' # 0
  <2> SUFFICES ASSUME i.key = "UsagePage", usagePage = 0 PROVE Value(i.data) # 0
    BY DEF TakesPage, ScanItem
  <2>1. \A j \in DOMAIN items : items[j].key # "UsagePage"
    <3>1. FirstCounts("UsagePage")
      BY <1>2, StaysFirst
    <3> QED BY <3>1 DEF IInv, FromFirst, FirstCounts
  <2>2. First("UsagePage", n)'
    BY <1>1, <1>2, <2>1, StaysFirst
  <2> QED BY <1>3, <2>2 DEF FirstCounts
<1>6. TakesUsage(i.key) => usage' # 0
  <2> SUFFICES ASSUME i.key = "Usage", usage = 0 PROVE Value(i.data) # 0
    BY DEF TakesUsage, ScanItem
  <2>1. \A j \in DOMAIN items : items[j].key # "Usage"
    <3>1. FirstCounts("Usage")
      BY <1>2, StaysFirst
    <3> QED BY <3>1 DEF IInv, FromFirst, FirstCounts
  <2>2. First("Usage", n)'
    BY <1>1, <1>2, <2>1, StaysFirst
  <2> QED BY <1>3, <2>2 DEF FirstCounts
<1>7. CASE Counts(i.key)
  <2>1. /\ i.key \in {"Input", "Output"} /\ i.key \notin have /\ have' = have \cup {i.key}
        /\ usagePage' = usagePage /\ usage' = usage /\ remaining' = remaining - 1
    BY <1>7 DEF ScanItem, Counts, TakesPage, TakesUsage, Reports
  <2> QED BY <1>4, <2>1 DEF Bit
<1>8. CASE TakesPage(i.key)
  <2>1. /\ usagePage = 0 /\ usagePage' # 0 /\ have' = have
        /\ usage' = usage /\ remaining' = remaining - 1
    BY <1>5, <1>8 DEF ScanItem, Counts, TakesPage, TakesUsage, Reports
  <2> QED BY <1>4, <2>1 DEF Bit
<1>9. CASE TakesUsage(i.key)
  <2>1. /\ usage = 0 /\ usage' # 0 /\ have' = have
        /\ usagePage' = usagePage /\ remaining' = remaining - 1
    BY <1>6, <1>9 DEF ScanItem, Counts, TakesPage, TakesUsage, Reports
  <2> QED BY <1>4, <2>1 DEF Bit
<1>10. CASE ~Counts(i.key) /\ ~TakesPage(i.key) /\ ~TakesUsage(i.key)
  BY <1>4, <1>10 DEF ScanItem
<1> QED BY <1>7, <1>8, <1>9, <1>10

\* A count and a size among the items read stay where they are.
LEMMA SizedStays ==
    ASSUME items \in Seq(Items), NEW i \in Items, items' = Append(items, i),
           NEW a \in Nat \ {0}, NEW b \in Int, b <= Len(items)
    PROVE  Sized(a, b)' <=> Sized(a, b)
<1>1. \A j \in a..b : items'[j] = items[j]
  BY Appended
<1> QED BY <1>1 DEF Sized

\* A report is found when a count and a size of its own came before it.
LEMMA DeclaredStep ==
    ASSUME IInv, NEW i \in Items, ScanItem(i)
    PROVE  Declared'
<1>1. PICK n : n = Len(items) + 1
  OBVIOUS
<1>2. items \in Seq(Items) /\ items' = Append(items, i)
  BY DEF IInv, ScanItem
<1>3. /\ DOMAIN items' = 1..n /\ DOMAIN items = 1..(n - 1) /\ items'[n] = i
      /\ \A j \in DOMAIN items : items'[j] = items[j]
      /\ n \in Nat \ {0} /\ Len(items) = n - 1 /\ Len(items') = n
  BY <1>1, <1>2, Appended
<1>4. \A a \in Nat \ {0}, b \in Int : b <= n - 1 => (Sized(a, b)' <=> Sized(a, b))
  BY <1>2, <1>3, SizedStays
<1>5. CASE ~Counts(i.key)
  <2>1. have' = have /\ flags' = flags \cup ({i.key} \cap SizeItems)
    BY <1>5 DEF ScanItem, FlagsAfter, SizeItems
  <2>2. have' = {} => \A k \in flags' : \E j \in DOMAIN items' : items'[j].key = k
    BY <1>3, <2>1 DEF IInv, Declared
  <2>3. ASSUME NEW r \in Reports, have' = {r}
        PROVE  \E m \in DOMAIN items' :
                  /\ items'[m].key = r /\ Sized(1, m - 1)'
                  /\ \A k \in flags' : \E j \in (m + 1)..Len(items') : items'[j].key = k
    <3>1. PICK m \in DOMAIN items :
              /\ items[m].key = r /\ Sized(1, m - 1)
              /\ \A k \in flags : \E j \in (m + 1)..Len(items) : items[j].key = k
      BY <2>1, <2>3 DEF IInv, Declared
    <3>2. m \in DOMAIN items' /\ items'[m].key = r /\ Sized(1, m - 1)'
      BY <1>3, <1>4, <3>1
    <3>3. \A k \in flags' : \E j \in (m + 1)..Len(items') : items'[j].key = k
      BY <1>3, <2>1, <3>1
    <3> QED BY <3>2, <3>3
  <2>4. have' = Reports => DeclaresBoth'
    <3> SUFFICES ASSUME DeclaresBoth PROVE DeclaresBoth'
      BY <2>1 DEF IInv, Declared
    <3>1. PICK a \in DOMAIN items, b \in DOMAIN items :
              /\ a < b /\ {items[a].key, items[b].key} = Reports
              /\ Sized(1, a - 1) /\ Sized(a + 1, b - 1)
      BY DEF DeclaresBoth
    <3>2. Sized(1, a - 1)' /\ Sized(a + 1, b - 1)'
      BY <1>3, <1>4, <3>1
    <3>3. a \in DOMAIN items' /\ b \in DOMAIN items' /\ {items'[a].key, items'[b].key} = Reports
      BY <1>3, <3>1
    <3> QED BY <3>1, <3>2, <3>3 DEF DeclaresBoth
  <2> QED BY <2>2, <2>3, <2>4 DEF Declared
<1>6. CASE Counts(i.key)
  <2>1. /\ i.key \in Reports /\ i.key \notin have /\ flags = SizeItems
        /\ have' = have \cup {i.key} /\ flags' = {}
    BY <1>6 DEF ScanItem, FlagsAfter, Counts, SizeItems
  <2>2. CASE have = {}
    <3>1. \A k \in SizeItems : \E j \in 1..(n - 1) : items[j].key = k
      BY <1>3, <2>1, <2>2 DEF IInv, Declared
    <3>2. Sized(1, n - 1)'
      BY <1>3, <1>4, <3>1 DEF Sized, SizeItems
    <3>3. \A r \in Reports : have' = {r} => r = i.key
      BY <2>1, <2>2
    <3>4. have' # {} /\ have' # Reports
      BY <2>1, <2>2 DEF Reports
    <3> QED BY <1>3, <2>1, <3>2, <3>3, <3>4 DEF Declared
  <2>3. CASE have # {}
    <3>1. PICK r \in Reports : have = {r} /\ {r, i.key} = Reports
      BY <2>1, <2>3 DEF IInv, TypeOK, Reports
    <3>2. PICK m \in DOMAIN items :
              /\ items[m].key = r /\ Sized(1, m - 1)
              /\ \A k \in SizeItems : \E j \in (m + 1)..(n - 1) : items[j].key = k
      BY <1>3, <2>1, <3>1 DEF IInv, Declared
    <3>3. Sized(1, m - 1)' /\ Sized(m + 1, n - 1)'
      <4>1. Sized(m + 1, n - 1)
        BY <3>2 DEF Sized, SizeItems
      <4> QED BY <1>3, <1>4, <3>2, <4>1
    <3>4. m \in DOMAIN items' /\ n \in DOMAIN items' /\ m < n
          /\ {items'[m].key, items'[n].key} = Reports
      BY <1>3, <3>1, <3>2
    <3>5. DeclaresBoth'
      BY <3>3, <3>4 DEF DeclaresBoth
    <3>6. have' # {} /\ \A q \in Reports : have' # {q}
      BY <2>1, <3>1
    <3> QED BY <3>5, <3>6 DEF Declared
  <2> QED BY <2>2, <2>3
<1> QED BY <1>5, <1>6

\* When every report has a count and a size of its own, both flags are set at
\* each one that is not found yet.
LEMMA SizedAreFoundStep ==
    ASSUME IInv, NEW i \in Items, ScanItem(i)
    PROVE  SizedAreFound'
<1>1. PICK n : n = Len(items) + 1
  OBVIOUS
<1>2. items \in Seq(Items) /\ items' = Append(items, i)
  BY DEF IInv, ScanItem
<1>3. /\ DOMAIN items' = 1..n /\ DOMAIN items = 1..(n - 1) /\ items'[n] = i
      /\ \A j \in DOMAIN items : items'[j] = items[j]
      /\ n \in Nat \ {0} /\ Len(items) = n - 1 /\ Len(items') = n
  BY <1>1, <1>2, Appended
<1>4. \A a \in Nat \ {0}, b \in Int : b <= n - 1 => (Sized(a, b)' <=> Sized(a, b))
  BY <1>2, <1>3, SizedStays
<1> SUFFICES ASSUME SizedReports'
             PROVE  /\ \A j \in 1..n : items'[j].key \in Reports => items'[j].key \in have'
                    /\ \A j \in 1..n :
                          /\ items'[j].key \in SizeItems
                          /\ \A k \in j..n : items'[k].key \notin Reports
                          => items'[j].key \in flags'
  BY <1>3 DEF SizedAreFound
<1>5. \A j \in 1..n : items'[j].key \in Reports =>
          \E a \in 1..j : Sized(a, j - 1) /\ \A k \in a..(j - 1) : items[k].key \notin Reports
  <2> SUFFICES ASSUME NEW j \in 1..n, items'[j].key \in Reports
               PROVE  \E a \in 1..j :
                         Sized(a, j - 1) /\ \A k \in a..(j - 1) : items[k].key \notin Reports
    OBVIOUS
  <2>1. PICK a \in 1..j : /\ Sized(a, j - 1)'
                          /\ \A k \in a..(j - 1) : items'[k].key \notin Reports
    BY <1>3 DEF SizedReports
  <2>2. a \in Nat \ {0} /\ j - 1 \in Int /\ j - 1 <= n - 1
    BY <1>3
  <2>3. Sized(a, j - 1)
    BY <1>4, <2>1, <2>2
  <2>4. \A k \in a..(j - 1) : items[k].key \notin Reports
    BY <1>3, <2>1
  <2> QED BY <2>3, <2>4
<1>6. SizedReports
  BY <1>3, <1>5 DEF SizedReports
<1>7. /\ \A j \in 1..(n - 1) : items[j].key \in Reports => items[j].key \in have
      /\ \A j \in 1..(n - 1) :
            /\ items[j].key \in SizeItems
            /\ \A k \in j..(n - 1) : items[k].key \notin Reports
            => items[j].key \in flags
  BY <1>3, <1>6 DEF IInv, SizedAreFound
<1>8. \A j \in 1..n : items'[j].key \in Reports => items'[j].key \in have'
  <2>1. have \subseteq have'
    BY DEF ScanItem
  <2>2. \A j \in 1..(n - 1) : items'[j].key \in Reports => items'[j].key \in have'
    BY <1>3, <1>7, <2>1
  <2>3. ASSUME i.key \in Reports, i.key \notin have
        PROVE  i.key \in have'
    <3>1. PICK a \in 1..n : Sized(a, n - 1) /\ \A k \in a..(n - 1) : items[k].key \notin Reports
      BY <1>3, <1>5, <2>3
    <3>2. SizeItems \subseteq flags
      <4> SUFFICES ASSUME NEW key \in SizeItems PROVE key \in flags
        OBVIOUS
      <4>1. PICK j \in a..(n - 1) : items[j].key = key
        BY <3>1 DEF Sized, SizeItems
      <4>2. j \in 1..(n - 1) /\ \A k \in j..(n - 1) : items[k].key \notin Reports
        BY <1>3, <3>1
      <4> QED BY <1>7, <4>1, <4>2
    <3>3. Counts(i.key)
      BY <2>3, <3>2 DEF Counts, IInv, TypeOK, SizeItems
    <3> QED BY <3>3 DEF ScanItem
  <2>4. i.key \in Reports => i.key \in have'
    BY <2>1, <2>3
  <2> QED BY <1>3, <2>2, <2>4
<1>9. ASSUME NEW j \in 1..n, items'[j].key \in SizeItems,
             \A k \in j..n : items'[k].key \notin Reports
      PROVE  items'[j].key \in flags'
  <2>1. ~Counts(i.key)
    <3>1. n \in j..n
      BY <1>3
    <3> QED BY <1>3, <1>9, <3>1 DEF Counts
  <2>2. flags' = flags \cup ({i.key} \cap SizeItems)
    BY <2>1 DEF ScanItem, FlagsAfter, SizeItems
  <2>3. CASE j = n
    BY <1>3, <1>9, <2>2, <2>3
  <2>4. CASE j # n
    <3>1. j \in 1..(n - 1) /\ items'[j] = items[j]
      BY <1>3, <2>4
    <3>2. \A k \in j..(n - 1) : items[k].key \notin Reports
      BY <1>3, <1>9
    <3>3. items[j].key \in flags
      BY <1>7, <1>9, <3>1, <3>2
    <3> QED BY <2>2, <3>1, <3>3
  <2> QED BY <2>3, <2>4
<1> QED BY <1>8, <1>9

\* What the next item makes of the types.
LEMMA TypeStep ==
    ASSUME IInv, NEW i \in Items, ScanItem(i)
    PROVE  TypeOK'
<1>1. Value(i.data) \in Nat
  BY ValueNat
<1>2. flags' \subseteq SizeItems /\ have' \subseteq Reports
  BY DEF IInv, TypeOK, ScanItem, FlagsAfter, SizeItems, Counts
<1>3. remaining' \in 0..4
  BY DEF IInv, TypeOK, ScanItem
<1>4. usagePage' \in Nat /\ usage' \in Nat
  BY <1>1 DEF IInv, TypeOK, ScanItem
<1>5. truncated' \in BOOLEAN
  BY Zenon DEF IInv, TypeOK, ScanItem
<1> QED BY <1>2, <1>3, <1>4, <1>5 DEF TypeOK, SizeItems

\* Every item read, and the one cut short, keeps the inductive invariant.
LEMMA StepIInv == IInv /\ [Next]_vars => IInv'
<1> SUFFICES ASSUME IInv, [Next]_vars PROVE IInv'
  OBVIOUS
<1>1. ASSUME NEW i \in Items, ScanItem(i) PROVE IInv'
  <2>1. /\ items \in Seq(Items) /\ items' = Append(items, i)
        /\ FromFirst("UsagePage", usagePage) /\ FromFirst("Usage", usage)
    BY <1>1 DEF IInv, ScanItem
  <2>2. FromFirst("UsagePage", usagePage)'
    <3>1. PICK v, w : v = usagePage /\ w = usagePage'
      OBVIOUS
    <3>2. w = IF i.key = "UsagePage" /\ v = 0 THEN Value(i.data) ELSE v
      BY <1>1, <3>1 DEF ScanItem, TakesPage
    <3>3. FromFirst("UsagePage", v)
      BY <2>1, <3>1
    <3>4. FromFirst("UsagePage", w)'
      BY <2>1, <3>2, <3>3, FromFirstStep
    <3> QED BY <3>1, <3>4 DEF FromFirst
  <2>3. FromFirst("Usage", usage)'
    <3>1. PICK v, w : v = usage /\ w = usage'
      OBVIOUS
    <3>2. w = IF i.key = "Usage" /\ v = 0 THEN Value(i.data) ELSE v
      BY <1>1, <3>1 DEF ScanItem, TakesUsage
    <3>3. FromFirst("Usage", v)
      BY <2>1, <3>1
    <3>4. FromFirst("Usage", w)'
      BY <2>1, <3>2, <3>3, FromFirstStep
    <3> QED BY <3>1, <3>4 DEF FromFirst
  <2>4. items' \in Seq(Items)
    BY <2>1, Appended
  <2>5. TypeOK' /\ RemainsToBeFound' /\ Declared' /\ SizedAreFound'
    BY <1>1, TypeStep, RemainsStep, DeclaredStep, SizedAreFoundStep
  <2> QED BY <2>2, <2>3, <2>4, <2>5 DEF IInv
<1>2. ASSUME UNCHANGED <<items, flags, have, remaining, usagePage, usage>>,
             truncated' \in BOOLEAN
      PROVE  IInv'
  <2>1. TypeOK'
    BY <1>2 DEF IInv, TypeOK
  <2>2. FromFirst("UsagePage", usagePage)' /\ FromFirst("Usage", usage)'
    BY <1>2 DEF IInv, FromFirst, First
  <2>3. RemainsToBeFound'
    BY <1>2 DEF IInv, RemainsToBeFound, FirstCounts, First
  <2>4. Declared'
    <3>1. Declared
      BY DEF IInv
    <3> QED BY <1>2, <3>1 DEF Declared, DeclaresBoth, Sized
  <2>5. SizedAreFound'
    BY <1>2 DEF IInv, SizedAreFound, SizedReports, Sized
  <2> QED BY <1>2, <2>1, <2>2, <2>3, <2>4, <2>5 DEF IInv
<1>3. CASE Next
  <2>1. CASE ReadItem
    BY <1>1, <2>1 DEF ReadItem
  <2>2. CASE Truncated
    BY <1>2, <2>2 DEF Truncated
  <2> QED BY <1>3, <2>1, <2>2 DEF Next
<1>4. CASE UNCHANGED vars
  BY <1>2, <1>4 DEF vars, IInv, TypeOK
<1> QED BY <1>3, <1>4

\* What is known of every item read holds at every moment of the scan.
THEOREM InductiveInvariant == Spec => []IInv
<1> QED BY InitIInv, StepIInv, PTL DEF Spec

\* Every variable of the scan has the values the code gives it: what remains
\* is never negative, whatever the items.
THEOREM TypeCorrect == Spec => []TypeOK
<1>1. IInv => TypeOK
  BY DEF IInv
<1> QED BY <1>1, InductiveInvariant, PTL

\* A descriptor as FIDO devices have them is accepted, of whatever other items
\* it consists, and in whatever order they come.
THEOREM WellFormedAccepted == Spec => []AcceptsWellFormed
<1>1. IInv => AcceptsWellFormed
  <2> SUFFICES ASSUME IInv, WellFormed, ~truncated PROVE IsFIDO
    BY DEF AcceptsWellFormed
  <2>1. items \in Seq(Items) /\ DOMAIN items \subseteq Nat
    BY DEF IInv
  <2>2. ASSUME NEW key, NEW d, NEW v, Value(d) # 0, FirstIs(key, d), FromFirst(key, v)
        PROVE  v = Value(d) /\ FirstCounts(key)
    <3>1. PICK i \in DOMAIN items : First(key, i) /\ items[i].data = d
      BY <2>2 DEF FirstIs
    <3>2. \A j \in DOMAIN items : First(key, j) => j = i
      BY <2>1, <3>1 DEF First
    <3> QED BY <2>2, <3>1, <3>2 DEF FromFirst, FirstCounts
  <2>3. usagePage = fidoUsagePage /\ FirstCounts("UsagePage")
    <3>1. PICK v : v = usagePage
      OBVIOUS
    <3>2. FromFirst("UsagePage", v) /\ FirstIs("UsagePage", <<208, 241>>)
      BY <3>1 DEF IInv, WellFormed
    <3>3. Value(<<208, 241>>) # 0
      BY FidoValues DEF fidoUsagePage
    <3> QED BY <2>2, <3>1, <3>2, <3>3, FidoValues
  <2>4. usage = fidoUsage /\ FirstCounts("Usage")
    <3>1. PICK v : v = usage
      OBVIOUS
    <3>2. FromFirst("Usage", v) /\ FirstIs("Usage", <<1>>)
      BY <3>1 DEF IInv, WellFormed
    <3>3. Value(<<1>>) # 0
      BY FidoValues DEF fidoUsage
    <3> QED BY <2>2, <3>1, <3>2, <3>3, FidoValues
  <2>5. "Input" \in have /\ "Output" \in have
    BY DEF IInv, SizedAreFound, WellFormed, Reports
  <2>6. remaining = 0
    BY <2>3, <2>4, <2>5 DEF IInv, RemainsToBeFound, Bit, fidoUsagePage, fidoUsage
  <2> QED BY <2>3, <2>4, <2>6 DEF IsFIDO, Complete
<1> QED BY <1>1, InductiveInvariant, PTL

\* A device whose descriptor has no usage page and no usage of value zero is
\* taken for a FIDO device only if it declares both reports.
THEOREM AcceptedDeclaresBoth ==
    ASSUME \A i \in Items : i.key \in {"UsagePage", "Usage"} => Value(i.data) # 0
    PROVE  Spec => []OnlyWithBothReports
<1>1. IInv => OnlyWithBothReports
  <2> SUFFICES ASSUME IInv, IsFIDO PROVE DeclaresBoth
    BY DEF OnlyWithBothReports
  <2>1. \A j \in DOMAIN items : items[j] \in Items
    BY DEF IInv
  <2>2. FirstCounts("UsagePage") /\ FirstCounts("Usage")
    BY <2>1 DEF FirstCounts, First
  <2>3. "Input" \in have /\ "Output" \in have
    BY <2>2 DEF IInv, RemainsToBeFound, IsFIDO, Complete, fidoUsagePage, fidoUsage, Bit
  <2>4. have = Reports
    BY <2>3 DEF IInv, TypeOK, Reports
  <2> QED BY <2>4 DEF IInv, Declared
<1> QED BY <1>1, InductiveInvariant, PTL
===============================================================================
