------------------------------ MODULE MCNames ------------------------------
EXTENDS Names

\* The long name is "one" and more than 63 characters.
MCHosts == {"dns", "gateway"}
MCNames == {"one", "long"}
MCAddress(n) == IF n = "one" THEN "1.1.1.1" ELSE "2.2.2.2"
MCCut(n) == IF n = "long" THEN "one" ELSE n
=============================================================================
