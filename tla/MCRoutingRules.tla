--------------------------- MODULE MCRoutingRules ---------------------------
(***************************************************************************)
(* Values of the constants of RoutingRules for TLC.                        *)
(***************************************************************************)
EXTENDS RoutingRules

\* *1 begins *12; *2 is apart.
MCCodes == {"*1", "*12", "*2"}
MCBegins == {<< c, c >> : c \in MCCodes} \cup {<< "*1", "*12" >>}
=============================================================================
