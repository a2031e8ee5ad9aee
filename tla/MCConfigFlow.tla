---------------------------- MODULE MCConfigFlow ----------------------------
EXTENDS ConfigFlow

MCPresses == {<<"a1", "app">>, <<"a2", "remote">>}
MCPhoneApps == {<<"app">>, <<"app", "lamp">>}

\* A phone application, and a remote whose codec is an alias of the one of the lamp.
MCMatchOf == [c \in Conf |-> IF c = "remote" THEN "lamp" ELSE c]
=============================================================================
