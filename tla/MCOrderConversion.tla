------------------------ MODULE MCOrderConversion ------------------------
EXTENDS OrderConversion, Sequences

\* Which fields are set, for every type and time in force.
MCTerms ==
    [id : {"int"}, ordType : OrdType, tif : TIF, inst : SUBSET Inst,
     margin : BOOLEAN, side : {"BUY"}, symbol : {"tBTC"}, hidden : {FALSE},
     oco : {FALSE}, price : {7, None}, stopPx : {5, None}, peg : {3, None},
     expire : {1500, None}]

\* Sides, flags and prices of zero.
MCSides ==
    [id : {"int"}, ordType : OrdType, tif : TIF, inst : {{}, {"PEG"}},
     margin : {FALSE}, side : Side, symbol : {"BXY"}, hidden : {TRUE},
     oco : BOOLEAN, price : {0, 7}, stopPx : {5, None}, peg : {0, 3}, expire : {1500}]

\* Symbols and ClOrdIDs.
MCSymbols ==
    [id : {"int", "text"}, ordType : {"LIMIT", "STOP"}, tif : {None}, inst : {{"PEG", "PDI"}},
     margin : {FALSE}, side : {"SELL"},
     symbol : {"tBTC", "tETH", "tXRP", "BTC", "BXY", "EXY", "XXX"}, hidden : BOOLEAN, oco : {FALSE}, price : {7}, stopPx : {5}, peg : {3}, expire : {None}]

\* Stop limits with a peg, documented as trailing stops.
MCPegged ==
    {msg \in MCTerms : msg.ordType = "STOP_LIMIT" /\ "PEG" \in msg.inst /\ msg.peg # None}

\* Immediate-or-cancel limit orders.
MCImmediate == {msg \in MCTerms : msg.ordType = "LIMIT" /\ msg.tif = "IOC"}

MCMessages == MCTerms \cup MCSides \cup MCSymbols

\* Replacements of the same or another type and expiry; one is refused.
MCReplacements ==
    {r \in [id : {"int"}, ordType : {"LIMIT", "STOP"}, tif : {None, "GTD"}, inst : {{"PDI"}},
            margin : {FALSE}, side : {"SELL_SHORT"}, symbol : {"tETH"}, hidden : {FALSE},
            oco : {FALSE}, price : {8}, stopPx : {6}, peg : {4}, expire : {2700, None}] :
       (r.tif = None) = (r.ordType = "LIMIT") /\ (r.tif = None => r.expire = None)}

\* A file with lines before the first section, a section of another
\* counterparty, a mapping that is overwritten, two Bitfinex symbols of one
\* name, and a name mapped to a symbol that Bitfinex calls otherwise.
MCFiles ==
    {<<Mapping("tETH", "XXX"), Header("EXORG"), Mapping("tBTC", "XXX"), OtherLine,
       Header("OTHER"), Passthrough, Header("EXORG"), Mapping("tBTC", "BXY"),
       Mapping("tETH", "BXY"), Mapping("ETH", "EXY")>>}

MCAlias == [s \in {"BTC", "ETH"} |-> IF s = "BTC" THEN "tBTC" ELSE "tETH"]
=============================================================================
