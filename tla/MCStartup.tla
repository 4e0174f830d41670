------------------------------ MODULE MCStartup ------------------------------
(***************************************************************************)
(* Every configuration, environment, view and native module that the code  *)
(* of module Startup tells apart.                                          *)
(***************************************************************************)
EXTENDS Startup

MCConfigs ==
    [backend : {"auto", "python", "rust"}, incomplete : BOOLEAN, strict : BOOLEAN]

MCEnvironments ==
    [backend : {"auto", "python", "rust", "other"}, pure : {"0", "1", "other"}]

\* The installed core, one with a newer wire format, and incompatible ones.
Cores == {
    [api |-> <<0, 2>>, model |-> 2, wire |-> w, adapter |-> 1, features |-> f] :
        w \in {<<1, 1>>, <<1, 2>>, <<1, 3>>, <<2, 2>>}, f \in BOOLEAN}

MCViews == [core : Cores, complete : BOOLEAN, advertised : 0 .. 3]

MCNatives ==
    [installed : {"absent", "broken", "ok"}, schemas : {"none", "old", "current", "malformed"}]

=============================================================================
