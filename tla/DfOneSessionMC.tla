--------------------------- MODULE DfOneSessionMC ---------------------------
(***************************************************************************)
(* Values of DfOneSession's constants for TLC. The session starts from     *)
(* settings 0; the board boots with others, which the host does not know.  *)
(***************************************************************************)
EXTENDS DfOneSession

MCDefaults == [f \in Settings |-> 0]
MCPowerOn == [f \in Settings |-> 1]

Ones == [f \in Settings |-> 1]
Mixed == [f \in Settings |-> IF f \in {"clk", "rate"} THEN 2 ELSE 0]

Simple(ops) == [op : ops]
Configure(cfg) == [op |-> "configure", mode |-> "synchronized", cfg |-> cfg]
Set(f, v) == [op |-> "set", field |-> f, val |-> v]
Record(fit, path, len) ==
    [op |-> "record", fit |-> fit, path |-> path, len |-> len]

\* Setting the board up and finding out what it is set to, captures and
\* recordings, one after the other on the same channels.
SettingRequests ==
    {Configure(Mixed), Set("rate", 3),
     [op |-> "configure", mode |-> "independent", cfg |-> Ones]}
        \cup [op : {"mode"}, mode : Modes]

StreamRequests ==
    Simple({"connect", "disconnect", "destroy", "ssd", "iq", "raw"})
        \cup {Record("ram", TRUE, 2), Record("ram", FALSE, 1),
              Record("ssd", TRUE, 1), Record("never", TRUE, 1)}

SessionRequests == SettingRequests \cup StreamRequests

\* A little of everything.
MixedRequests ==
    Simple({"connect", "disconnect", "destroy", "iq", "raw"})
        \cup {Configure(Ones), Set("gain", 2), Record("ram", TRUE, 2)}
        \cup [op : {"mode"}, mode : Modes]
        \cup [op : {"configure"}, mode : {"independent"}, cfg : {Ones}]

\* A rate set in one connection and captures in the next.
RateRequests == Simple({"connect", "iq"}) \cup {Set("rate", 2)}

=============================================================================
