------------------------- MODULE MCReportDescriptor -------------------------
(***************************************************************************)
(* ReportDescriptor on descriptors of at most MaxItems items taken from    *)
(* the ones that matter to the parser.                                     *)
(***************************************************************************)
EXTENDS ReportDescriptor

Item(key, data) == [key |-> key, data |-> data]

\* A FIDO device's items, and a second usage page such as a keyboard's.
FidoItems == {Item("UsagePage", <<208, 241>>), Item("UsagePage", <<1>>), Item("Usage", <<1>>),
              Item("ReportCount", <<64>>), Item("ReportSize", <<8>>),
              Item("Input", <<2>>), Item("Output", <<2>>)}

\* The same with items of value zero, with and without a data byte.
ZeroItems == {Item("UsagePage", <<208, 241>>), Item("UsagePage", << >>),
              Item("Usage", <<1>>), Item("Usage", <<0>>),
              Item("Input", <<2>>), Item("other", << >>)}
=============================================================================
