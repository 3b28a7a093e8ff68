---------------------------- MODULE MCConfigFile ----------------------------
(***************************************************************************)
(* An instance of ConfigFile: two clusters, and texts with both of them,   *)
(* with one, with nothing current, and with a context that binds nothing.  *)
(***************************************************************************)
EXTENDS ConfigFile

Bound(prod, dev, current) ==
    [header |-> TRUE, current |-> current,
     contexts |-> [c \in Contexts |-> IF c = "prod" THEN prod ELSE dev]]

Texts == {Bound("t1", "t2", "prod"), Bound("t1", "t2", None),
          Bound(None, "t3", "dev"), Bound("t9", "t2", "dev")}
=============================================================================
