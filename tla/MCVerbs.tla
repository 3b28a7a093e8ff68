------------------------------ MODULE MCVerbs ------------------------------
(***************************************************************************)
(* Instances of Verbs.                                                     *)
(***************************************************************************)
EXTENDS Verbs

VM(name) == [name |-> name, node |-> "n1", type |-> "qemu", power |-> "stopped"]
Container(name) == [VM(name) EXCEPT !.type = "lxc"]
Running(g) == [g EXCEPT !.power = "running"]

To(verb, names) == [verb |-> verb, names |-> names, target |-> "n2"]

Four(a, b, c, d) ==
    [v \in VMIDs |-> CASE v = 100 -> a [] v = 101 -> b [] v = 102 -> c [] OTHER -> d]

\* Lists of names, one of them shared with a container, and a guest of each
\* type to migrate.
ListOrders ==
    {To(verb, names) : verb \in {"delete", "start", "stop"},
                       names \in {<<"web">>, <<"web", "mail">>, <<"mail", "web">>}}
    \cup {To("migrate", <<"db">>)}

ListClusters ==
    {Four(VM("web"), Running(VM("mail")), Container("web"), VM("db")),
     Four(Running(VM("web")), VM("mail"), VM("mail"), Container("db"))}

\* Guests that turn up under a vmid looked up before.
Passersby == {Container("web"), VM("mail")}
=============================================================================
