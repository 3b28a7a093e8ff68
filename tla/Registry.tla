------------------------------ MODULE Registry ------------------------------
(***************************************************************************)
(* Which handler serves a command-line word or a manifest document         *)
(* (resource/registry.go, resource/interfaces.go, runtime/object.go).  A   *)
(* registry is the sequence of the handlers registered, in order; the two  *)
(* maps the code keeps beside it are functions of that sequence.           *)
(***************************************************************************)
EXTENDS Naturals, Sequences, FiniteSets

CONSTANTS
    Words,       \* what stands for a kind or an alias
    LowerCase,   \* word -> word, strings.ToLower
    Groups,      \* API groups, "" for none
    Versions,    \* API versions
    Unknown      \* "no handler"

ASSUME WordsAssumption ==
    /\ LowerCase \in [Words -> Words]
    /\ \A w \in Words : LowerCase[LowerCase[w]] = LowerCase[w]

GVKs == [group : Groups, version : Versions, kind : Words]

\* What a handler may offer besides reading.
Capabilities == {"apply", "delete", "start", "stop"}

Handler == [gvk : GVKs, aliases : SUBSET Words, can : SUBSET Capabilities]
ASSUME UnknownAssumption == Unknown \notin GVKs \cup Handler

Registries == Seq(Handler)

(***************************************************************************)
(* Register: the last handler of a type serves it (byGVK), and a name      *)
(* stands for each type it was indexed under, once (byName).               *)
(***************************************************************************)
ByGVK(handlers, gvk) ==
    LET of == {i \in DOMAIN handlers : handlers[i].gvk = gvk} IN
    IF of = {}
    THEN Unknown
    ELSE handlers[CHOOSE i \in of : \A j \in of : j <= i]

NamesOf(h) == {LowerCase[w] : w \in {h.gvk.kind} \cup h.aliases}

\* The registrations that index a name, and the types they index it under.
Entries(handlers, name) == {i \in DOMAIN handlers : name \in NamesOf(handlers[i])}

ByName_WithRepeats(handlers, name) ==
    {<<i, handlers[i].gvk>> : i \in Entries(handlers, name)}

ByName(handlers, name) == {handlers[i].gvk : i \in Entries(handlers, name)}

\* A word nobody registered, or one that stands for several types, is an error.
Lookup(handlers, word) ==
    LET found == ByName(handlers, LowerCase[word]) IN
    IF Cardinality(found) = 1
    THEN ByGVK(handlers, handlers[CHOOSE i \in Entries(handlers, LowerCase[word]) : TRUE].gvk)
    ELSE Unknown

(***************************************************************************)
(* A document says its type as an apiVersion, here the parts between its   *)
(* slashes, and a kind.  It is dispatched on all three, never by an alias. *)
(***************************************************************************)
ParsedGVK(apiVersion, kind) ==
    CASE "" \in {apiVersion[i] : i \in DOMAIN apiVersion} -> Unknown
      [] Len(apiVersion) = 1 -> [group |-> "", version |-> apiVersion[1], kind |-> kind]
      [] Len(apiVersion) = 2 ->
            [group |-> apiVersion[1], version |-> apiVersion[2], kind |-> kind]
      [] OTHER -> Unknown

ForObject(handlers, doc) ==
    LET gvk == ParsedGVK(doc.apiVersion, doc.kind) IN
    IF gvk = Unknown THEN Unknown ELSE ByGVK(handlers, gvk)

Supports(handlers, doc, capability) ==
    LET h == ForObject(handlers, doc) IN h # Unknown /\ capability \in h.can
=============================================================================
