--------------------------- MODULE ReportDescriptor ---------------------------
(***************************************************************************)
(* parseReportDescriptor and the test hid_linux's describe makes of its    *)
(* result: is this HID device a FIDO authenticator? The descriptor is read *)
(* one item per step, so that what has been read so far can be compared    *)
(* with what the parser made of it.                                        *)
(***************************************************************************)
EXTENDS Integers, Sequences

CONSTANTS
    Items,      \* descriptor items: a key and its data bytes
    MaxItems    \* bound: items in a descriptor

Keys == {"Input", "Output", "UsagePage", "Usage", "ReportCount", "ReportSize", "other"}
Reports == {"Input", "Output"}

\* An item's size field counts its data bytes, 0 to 3.
ItemType(i) == i.key \in Keys /\ i.data \in Seq(0..255) /\ Len(i.data) <= 3

ASSUME DescriptorAssumption == MaxItems \in Nat /\ \A i \in Items : ItemType(i)

VARIABLES
    items,          \* history: the items read
    flags,          \* haveReportCount, haveReportSize
    have,           \* haveInput, haveOutput: the reports found
    remaining,      \* things still to be found
    usagePage, usage,
    truncated       \* the last item is cut short

vars == <<items, flags, have, remaining, usagePage, usage, truncated>>

fidoUsagePage == 61904      \* 0xF1D0
fidoUsage == 1

Init ==
    /\ items = << >> /\ flags = {} /\ have = {} /\ remaining = 4
    /\ usagePage = 0 /\ usage = 0 /\ truncated = FALSE

\* Wrong on purpose: the first byte is the most significant one.
BigEndian(d) ==
    CASE Len(d) = 0 -> 0
      [] Len(d) = 1 -> d[1]
      [] Len(d) = 2 -> d[2] + 256 * d[1]
      [] OTHER -> d[3] + 256 * d[2] + 65536 * d[1]

\* The data bytes, copied into a zeroed 4-byte buffer, little-endian.
Value(d) ==
    LET byte(k) == IF k <= Len(d) THEN d[k] ELSE 0
    IN byte(1) + 256 * byte(2) + 65536 * byte(3)

\* An Input or Output item counts once, when both a report count and a report
\* size have been seen since the last one that counted.
Counts(key) == key \in Reports /\ key \notin have /\ flags = {"ReportCount", "ReportSize"}

\* Wrong on purpose: a count and a size serve every later report.
FlagsKept(key) == flags \cup ({key} \cap {"ReportCount", "ReportSize"})

FlagsAfter(key) ==
    IF Counts(key) THEN {} ELSE flags \cup ({key} \cap {"ReportCount", "ReportSize"})

\* The first value is taken; a zero value does not count as one, but is
\* subtracted from what remains all the same.
TakesPage(key) == key = "UsagePage" /\ usagePage = 0
TakesUsage(key) == key = "Usage" /\ usage = 0

ScanItem(i) ==
    /\ remaining > 0 /\ ~truncated
    /\ items' = Append(items, i)
    /\ have' = IF Counts(i.key) THEN have \cup {i.key} ELSE have
    /\ flags' = FlagsAfter(i.key)
    /\ usagePage' = IF TakesPage(i.key) THEN Value(i.data) ELSE usagePage
    /\ usage' = IF TakesUsage(i.key) THEN Value(i.data) ELSE usage
    /\ remaining' = IF Counts(i.key) \/ TakesPage(i.key) \/ TakesUsage(i.key)
                    THEN remaining - 1 ELSE remaining
    /\ UNCHANGED truncated

\* The last item's size field asks for more bytes than there are.
Truncated ==
    /\ remaining > 0 /\ ~truncated
    /\ truncated' = TRUE
    /\ UNCHANGED <<items, flags, have, remaining, usagePage, usage>>

ReadItem == Len(items) < MaxItems /\ \E i \in Items : ScanItem(i)

Next == ReadItem \/ Truncated

Spec == Init /\ [][Next]_vars

\* What the parser returns, and describe makes of it, for a descriptor that
\* consists of the items read: everything found, or an error.
Complete == remaining = 0 /\ ~truncated
IsFIDO == Complete /\ usagePage = fidoUsagePage /\ usage = fidoUsage

-----------------------------------------------------------------------------
(* Properties *)

\* Every variable has the values the code gives it.
TypeOK ==
    /\ flags \subseteq {"ReportCount", "ReportSize"} /\ have \subseteq Reports
    /\ remaining \in 0..4 /\ usagePage \in Nat /\ usage \in Nat
    /\ truncated \in BOOLEAN

\* Both a report count and a report size are among the items from a to b.
Sized(a, b) ==
    \A key \in {"ReportCount", "ReportSize"} : \E j \in a..b : items[j].key = key

\* The items declare two reports, one of each kind, each with a count and a
\* size of its own.
DeclaresBoth ==
    \E i, j \in DOMAIN items :
        /\ i < j /\ {items[i].key, items[j].key} = Reports
        /\ Sized(1, i - 1) /\ Sized(i + 1, j - 1)

\* A device is taken for a FIDO device only if its descriptor declares both
\* an Input and an Output report: parseReportDescriptor's own comment,
\* "additionally requiring that both an Input and an Output report be
\* declared" (descriptor.go:29-32).
OnlyWithBothReports == IsFIDO => DeclaresBoth

\* Item i is the first of the given key; the first one has these data bytes.
First(key, i) ==
    items[i].key = key /\ \A j \in 1..(i - 1) : items[j].key # key

FirstIs(key, data) ==
    \E i \in DOMAIN items : First(key, i) /\ items[i].data = data

\* Every report among the items has a count and a size of its own.
SizedReports ==
    \A j \in DOMAIN items : items[j].key \in Reports =>
        \E a \in 1..j :
            Sized(a, j - 1) /\ \A k \in a..(j - 1) : items[k].key \notin Reports

\* A descriptor as FIDO devices have them: their usage page and usage come
\* first of their kind, there is a report of each kind, and every report has
\* a count and a size of its own.
WellFormed ==
    /\ FirstIs("UsagePage", <<208, 241>>) /\ FirstIs("Usage", <<1>>)
    /\ \A key \in Reports : \E i \in DOMAIN items : items[i].key = key
    /\ SizedReports

\* Every such descriptor is recognised.
AcceptsWellFormed == WellFormed /\ ~truncated => IsFIDO
=============================================================================
