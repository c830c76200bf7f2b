---------------------------- MODULE MaintenanceMC ----------------------------
(***************************************************************************)
(* Values of Maintenance's constants for TLC.                              *)
(***************************************************************************)
EXTENDS Maintenance

SomeWords == {"mac", "10.0.0.2", "10.0.0.1", "10.0.0.3", "10.0.0.4", "router",
              "old"}

Static == [Default EXCEPT !.mac = <<"mac">>, !.address = <<"10.0.0.2">>,
                          !.dns = <<"10.0.0.1", " ", "10.0.0.3">>]

Networks == {
    Static,
    [Static EXCEPT !.mode = "dhcp"],
    [Static EXCEPT !.netmask = <<>>],
    [Static EXCEPT !.address = <<" ", "10.0.0.4">>],
    [Static EXCEPT !.gateway = <<"router", "#", "old">>]}

Updates == [op : {"update"}, chunks : {2}, reboot : BOOLEAN]
AllCalls ==
    [op : Requests \ {"setnet"}] \cup [op : {"setnet"}, config : Networks]
        \cup Updates

\* Out of range, and back.
SomePercents == {-5, 130}

=============================================================================
