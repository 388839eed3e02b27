------------------------------ MODULE MCWebApp ------------------------------
(* WebApp with a property of type string and one of type int, and the texts *)
(* "0.0.0.0" and "0".                                                      *)
EXTENDS WebApp

CONSTANTS host, level

\* The string "0.0.0.0" is read as the double 0.0, which is written as "0";
\* this is read as an integer.
MCValues == {"string 0.0.0.0", "string 0", "double 0", "int 0"}
MCTextOf == [v \in MCValues |-> IF v = "string 0.0.0.0" THEN "0.0.0.0" ELSE "0"]
MCReadAs == [t \in Scalars |-> IF t = "0.0.0.0" THEN "double 0" ELSE "int 0"]

\* An int takes the texts that are integers as a whole.
MCTyped ==
  [k \in Keys |-> [t \in Scalars |->
     CASE k = host                    -> IF t = "0" THEN "string 0" ELSE "string 0.0.0.0"
       [] k # host /\ t = "0"         -> "int 0"
       [] k # host /\ t = "0.0.0.0"   -> Nothing]]

MCDefaults == [k \in Keys |-> IF k = host THEN "string 0.0.0.0" ELSE "int 0"]

\* The sections are independent but for the slots: the configuration by
\* itself, the settings while the load of the status is out, the locations.
MCVisits == {{"config"}, {"settings", "tpm"}, {"media"}}

=============================================================================
