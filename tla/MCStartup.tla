----------------------------- MODULE MCStartup -----------------------------
(* Startup while a password is being rotated from old to new, under two    *)
(* usernames, and with workers that have no credentials configured.        *)
EXTENDS Startup

CONSTANTS admin, ops, old, new

MCConfigs ==
    {[name |-> admin, password |-> old], [name |-> admin, password |-> new],
     [name |-> ops, password |-> new], NoCreds}
=============================================================================
