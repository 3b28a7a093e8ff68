-------------------------- MODULE BatchProperties --------------------------
(***************************************************************************)
(* What a command over several documents promises, stated over Batch.      *)
(***************************************************************************)
EXTENDS Batch

Documents(p) == 1..Len(objs[p])
Manifested(p, i) == objs[p][i].manifest

\* The document is one this pvectl can apply, and the cluster is as it says.
DocumentHolds(p, i) ==
    /\ Supports(registry, objs[p][i], "apply")
    /\ Converged(guests, Manifested(p, i))

\* Diff finds nothing to change in the config of the guest.
NoDifference(p, i) ==
    \E v \in Targets(guests, Manifested(p, i)) :
        /\ Targets(guests, Manifested(p, i)) = {v}
        /\ InSync(guests[v], Manifested(p, i))

Undisturbed == moves = 0

(***************************************************************************)
(* However many documents an apply has worked through, those that are not  *)
(* as declared are among the ones it counted as failed: no failure is      *)
(* forgotten because a later document went well, and none keeps the ones   *)
(* after it from being applied.  (cmd/apply.go: failed++ and go on.)       *)
(***************************************************************************)
FailuresAreCounted ==
    \A p \in Procs :
        Undisturbed /\ command[p] = "apply" =>
            Cardinality({i \in 1..at[p] - 1 : ~DocumentHolds(p, i)}) <= failed[p]

(***************************************************************************)
(* The exit status tells of the cluster: apply exits 0 only when every     *)
(* document is as declared; diff exits 0 only when no document differs and *)
(* 1 only when one does.  ("Exit status: 0 no differences, 1 differences   *)
(* found, >1 error.")                                                      *)
(***************************************************************************)
ExitTellsTheCluster ==
    \A p \in Procs : Undisturbed /\ ~running[p] =>
        /\ command[p] = "apply" /\ code[p] = 0 =>
            \A i \in Documents(p) : DocumentHolds(p, i)
        /\ command[p] = "diff" /\ code[p] = 0 =>
            \A i \in Documents(p) : NoDifference(p, i)
        /\ command[p] = "diff" /\ code[p] = 1 /\ timeouts = 0 =>
            \E i \in Documents(p) : ~NoDifference(p, i)

(***************************************************************************)
(* When nothing goes wrong, one apply is enough, also for a directory that *)
(* holds a guest and its clone: documents are applied in the order of the  *)
(* names of their files, so the clone comes after its source.  Apply fails *)
(* then only for a document it cannot serve, or input it cannot read.      *)
(* (decodeDir sorts; DecodeFiles keeps the order of -f.)                   *)
(***************************************************************************)
OneApplyIsEnough ==
    \A p \in Procs :
        /\ Undisturbed /\ faults = 0 /\ timeouts = 0 /\ outages = 0
        /\ command[p] = "apply" /\ code[p] = 1
        => \/ objs[p] = <<>>
           \/ \E i \in Documents(p) : ~Supports(registry, objs[p][i], "apply")

(***************************************************************************)
(* Registering a handler again changes no lookup, and a word that is not   *)
(* ambiguous leads to the handler that serves documents of that type.      *)
(* (Registry.addName; Lookup and ForObject agree.)                         *)
(***************************************************************************)
LookupsAgree ==
    \A i \in DOMAIN registry :
        LET h == registry[i] IN
        /\ \A w \in Words : Lookup(Append(registry, registry[i]), w) # Unknown
                            <=> Lookup(registry, w) # Unknown
        /\ \A w \in {h.gvk.kind} \cup h.aliases :
            \/ Lookup(registry, w) = ByGVK(registry, h.gvk)
            \/ \E j \in DOMAIN registry : /\ registry[j].gvk # h.gvk
                                          /\ LowerCase[w] \in NamesOf(registry[j])
=============================================================================
