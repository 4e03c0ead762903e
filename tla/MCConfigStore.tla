---------------------------- MODULE MCConfigStore ------------------------------
(* ConfigStore with three configurations: the default one, one that httpd  *)
(* cannot start from, and one that does not fit into the partition, neither *)
(* as config.xml nor as config.xml.bak.                                    *)
EXTENDS ConfigStore

CONSTANTS odd, big

MCSize == [c \in Contents |-> IF c = big THEN 2 ELSE 0]
===============================================================================
