-------------------------- MODULE MCRepositoryAccess --------------------------
(* Instances of RepositoryAccess that TLC checks.  The bundles are cut down  *)
(* from src/test/b.ucl and the examples of service_bundle(5).                *)
EXTENDS RepositoryAccess

Getty(props) == <<Str("name", "getty")>> \o props
Start(command) == Obj("methods", <<Obj("execStart", <<Str("command", command)>>)>>)
Console(members) == Obj("instances", <<Obj("console", members)>>)

(* first and second are one file before and after an edit, custom is the     *)
(* administrator's, fresh is of a service the repository does not have.      *)
MCDoc == [first |-> Getty(<<Str("term", "linux"), Start("getty"), Console(<<Start("agetty")>>)>>),
          second |-> Getty(<<Start("getty"), Console(<<Str("term", "vt100")>>)>>),
          custom |-> Getty(<<Str("term", "xterm"), Start("fgetty"),
                           Console(<<Obj("depends", <<Arr("after", <<Str("", "utmpx")>>)>>)>>)>>),
          fresh |-> <<Str("name", "hostname")>>]
MCPath == [j \in DOMAIN MCDoc |-> IF j = "second" THEN "first" ELSE j]
MCLayer == [j \in DOMAIN MCDoc |-> IF j = "custom" THEN 4 ELSE 1]

MCSeed == <<"getty">>

(* A first start, one that makes the persistent repository anew and takes up *)
(* the volatile one of the first, and a read-only one, whose volatile        *)
(* repository is in memory.                                                  *)
StartWith(recreate, readOnly, reattach) ==
  [recreate |-> recreate, readOnly |-> readOnly, reattach |-> reattach, volatilePath |-> TRUE]
MCStarts == <<StartWith(FALSE, FALSE, FALSE), StartWith(TRUE, FALSE, TRUE), StartWith(FALSE, TRUE, FALSE)>>
=============================================================================
