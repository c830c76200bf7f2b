---------------------------- MODULE NetworkConfig ----------------------------
(***************************************************************************)
(* The text form of the board's network configuration (maintenance.cpp):   *)
(* serialize_network_config, parse_key_value_text, parse_network_config.   *)
(* A text, and the value of a setting, is a sequence of tokens: the four   *)
(* characters the parser looks at, and words that have none of them.       *)
(***************************************************************************)
EXTENDS Integers, Sequences, FiniteSetsExt

CONSTANT Words  \* those of the users' values

Modes == {"static", "dhcp", "none"}
Keys == {"mode", "mac", "address", "ip", "netmask", "gateway", "dns"}
Blank == " "
Tokens ==
    {"\n", "#", "=", Blank} \cup Keys \cup Modes \cup {"manual", "disabled"}
        \cup {"192.168.1.10", "255.255.255.0", "DFONE"} \cup Words

Configs == [mode : Modes, mac : Seq(Tokens), address : Seq(Tokens),
            netmask : Seq(Tokens), gateway : Seq(Tokens), dns : Seq(Tokens)]

\* A default DfOneNetworkConfig.
Default == [mode |-> "static", mac |-> <<>>, address |-> <<"192.168.1.10">>,
            netmask |-> <<"255.255.255.0">>, gateway |-> <<>>, dns |-> <<>>]

-----------------------------------------------------------------------------
(* Writing *)

Line(key, value) == <<key, "=">> \o value \o <<"\n">>
Optional(key, value) == IF value = <<>> THEN <<>> ELSE Line(key, value)
Comment == <<"#", "DFONE", "\n">>

\* Faulty variant of Serialize: an address is written in every mode.
Serialize_AlwaysAddress(c) ==
    Comment \o Comment \o Line("mode", <<c.mode>>) \o Optional("mac", c.mac)
        \o Line("address", c.address) \o Line("netmask", c.netmask)
        \o Optional("gateway", c.gateway) \o Optional("dns", c.dns)

Serialize(c) ==
    Comment \o Comment \o Line("mode", <<c.mode>>) \o Optional("mac", c.mac)
        \o IF c.mode # "static" THEN <<>>
           ELSE Line("address", c.address) \o Line("netmask", c.netmask)
                    \o Optional("gateway", c.gateway) \o Optional("dns", c.dns)

-----------------------------------------------------------------------------
(* Reading *)

Positions(text, token) == {i \in DOMAIN text : text[i] = token}

\* The first position of a token, or the one past the end.
First(text, token) ==
    Min(Positions(text, token) \cup {Len(text) + 1})

Trim[text \in Seq(Tokens)] ==
    LET inner == DOMAIN text \ Positions(text, Blank)
    IN  IF inner = {} THEN <<>> ELSE SubSeq(text, Min(inner), Max(inner))

\* A text's first line, without its comment and its margins.
FirstLine[text \in Seq(Tokens)] ==
    LET line == SubSeq(text, 1, First(text, "\n") - 1)
    IN  Trim[SubSeq(line, 1, First(line, "#") - 1)]

LineFrom(text, i) == FirstLine[SubSeq(text, i, Len(text))]

LineStarts(text) ==
    {i \in DOMAIN text : i = 1 \/ text[i - 1] = "\n"}

Key[line \in Seq(Tokens)] == Trim[SubSeq(line, 1, First(line, "=") - 1)]
Value[line \in Seq(Tokens)] ==
    Trim[SubSeq(line, First(line, "=") + 1, Len(line))]

\* parse_key_value_text accepts blank lines and key=value.
WellFormed(text) ==
    \A i \in LineStarts(text) :
        LET line == LineFrom(text, i)
        IN  line = <<>> \/ (Positions(line, "=") # {} /\ Key[line] # <<>>)

KeyLines(text, key) ==
    {i \in LineStarts(text) :
        LET line == LineFrom(text, i)
        IN  Positions(line, "=") # {} /\ Key[line] = <<key>>}

\* The last line of a key gives its value; without one it keeps its default.
Lookup(text, key, default) ==
    LET lines == KeyLines(text, key)
    IN  IF lines = {} THEN default ELSE Value[LineFrom(text, Max(lines))]

ModeOf(text) ==
    LET value == Lookup(text, "mode", <<"static">>)
    IN  IF value \in {<<"manual">>, <<"disabled">>} THEN <<"none">> ELSE value

Parsed(text) ==
    [mode |-> ModeOf(text)[1],
     mac |-> Lookup(text, "mac", Default.mac),
     address |-> Lookup(text, "ip", Lookup(text, "address", Default.address)),
     netmask |-> Lookup(text, "netmask", Default.netmask),
     gateway |-> Lookup(text, "gateway", Default.gateway),
     dns |-> Lookup(text, "dns", Default.dns)]

\* What parse_network_config asks of a configuration.
Usable(c) == c.mode = "static" => c.address # <<>> /\ c.netmask # <<>>

\* parse_network_config succeeds.
Parses(text) ==
    /\ WellFormed(text)
    /\ ModeOf(text) \in {<<mode>> : mode \in Modes}
    /\ Usable(Parsed(text))

-----------------------------------------------------------------------------
(* What can be read back *)

\* A value the text form can carry.
Carried(value) ==
    /\ Positions(value, "\n") = {} /\ Positions(value, "#") = {}
    /\ Trim[value] = value
Clean(c) ==
    \A v \in {c.mac, c.address, c.netmask, c.gateway, c.dns} : Carried(v)

\* What is left of a configuration: the addresses of a static one only.
Normal(c) ==
    IF c.mode = "static" THEN c
    ELSE [Default EXCEPT !.mode = c.mode, !.mac = c.mac]

=============================================================================
