----------------------------- MODULE MCLookup -------------------------------
(* Three console classes, one of which has the root's name; command lists   *)
(* with an alias that is another command's name, and one with a command of   *)
(* the name of a default one.                                               *)
EXTENDS CommandLookup

Def(n, alias, rpc) == [name |-> n, alias |-> alias, rpc |-> rpc]

NamesOfConsoles == [r |-> <<"root">>, a |-> <<"a">>, b |-> <<"root">>]
SomeParents == {<<"root">>, <<"a">>}
SomeInstances == {<<"root", "a">>}
HelpOnly == <<Def("help", {}, FALSE)>>
SomeLists ==
    {<<>>,
     <<Def("ls", {"x"}, TRUE), Def("x", {}, FALSE)>>,
     <<Def("help", {}, TRUE), Def("rm", {"x"}, FALSE)>>}
SomeRequests ==
    [console : {None, <<"root">>, <<"a">>},
     id : {None, <<<<"root">>, "rm">>}, name : {None, "x", "help"}]
SomeConfigs ==
    {[require |-> TRUE, allowed |-> {"u"}, admins |-> {"v"}, mtls |-> FALSE, trust |-> TRUE],
     [require |-> FALSE, allowed |-> {"u"}, admins |-> {}, mtls |-> TRUE, trust |-> TRUE]}
=============================================================================
