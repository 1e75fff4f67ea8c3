------------------------------ MODULE Symbology ------------------------------
(***************************************************************************)
(* Symbol translation between a FIX counterparty and Bitfinex.  A symbol   *)
(* master file is a sequence of lines; a line is a section header, a       *)
(* mapping of a Bitfinex symbol to the counterparty's, the setting         *)
(* passthrough=true, or anything else.  Without a file the gateway uses    *)
(* PassthroughSymbology.                                                   *)
(***************************************************************************)
LOCAL INSTANCE SequencesExt

CONSTANT Error       \* the lookup failed

Header(cp)    == [kind |-> "header", cp |-> cp]
Mapping(b, s) == [kind |-> "map", bfx |-> b, sym |-> s]
Passthrough   == [kind |-> "passthrough"]
OtherLine     == [kind |-> "other"]

newSymbolset == [passthrough |-> FALSE, symbols |-> [b \in {} |-> Error]]

\* parse: st.cp is the current counterparty.  A mapping that is already there
\* is overwritten, a section that is already there continued.
parse(st, line) ==
    LET set == IF st.cp \in DOMAIN st.sets THEN st.sets[st.cp] ELSE newSymbolset
        With(s) == [st EXCEPT !.sets =
                      [c \in DOMAIN @ \cup {st.cp} |-> IF c = st.cp THEN s ELSE @[c]]] IN
    CASE line.kind = "header"      -> [st EXCEPT !.cp = line.cp]
      [] line.kind = "passthrough" -> With([set EXCEPT !.passthrough = TRUE])
      [] line.kind = "map"         ->
           With([set EXCEPT !.symbols =
                   [b \in DOMAIN @ \cup {line.bfx} |->
                      IF b = line.bfx THEN line.sym ELSE @[b]]])
      [] OTHER -> st

\* Lines before the first header belong to the counterparty "".
NewFileSymbology(file) ==
    FoldLeft(parse, [cp |-> "", sets |-> [c \in {} |-> newSymbolset]], file).sets

\* PassthroughSymbology translates as a file that passes everything through.
NewPassthroughSymbology(cp) == NewFileSymbology(<<Header(cp), Passthrough>>)

\* Faulty variant: Bitfinex symbols are matched, as FromBitfinex does.
ToBitfinexSwapped(sets, s, cp) ==
    IF cp \notin DOMAIN sets THEN {Error}
    ELSE IF sets[cp].passthrough THEN {s}
    ELSE IF s \in DOMAIN sets[cp].symbols THEN {sets[cp].symbols[s]} ELSE {Error}

\* The result may be any match: the map is searched in random order.
ToBitfinex(sets, s, cp) ==
    IF cp \notin DOMAIN sets THEN {Error}
    ELSE IF sets[cp].passthrough THEN {s}
    ELSE LET hits == {b \in DOMAIN sets[cp].symbols : sets[cp].symbols[b] = s}
         IN  IF hits = {} THEN {Error} ELSE hits

FromBitfinex(sets, b, cp) ==
    IF cp \notin DOMAIN sets THEN Error
    ELSE IF sets[cp].passthrough THEN b
    ELSE IF b \in DOMAIN sets[cp].symbols THEN sets[cp].symbols[b] ELSE Error

\* Every caller keeps the symbol as it is when the lookup fails.
Inbound(sets, s, cp)  == {IF b = Error THEN s ELSE b : b \in ToBitfinex(sets, s, cp)}
Outbound(sets, b, cp) ==
    LET s == FromBitfinex(sets, b, cp) IN IF s = Error THEN b ELSE s
==============================================================================
