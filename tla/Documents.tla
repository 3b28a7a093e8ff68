----------------------------- MODULE Documents -----------------------------
(***************************************************************************)
(* What -f names: files, directories and standard input, each a stream of  *)
(* YAML or JSON documents (runtime/decoder.go).  Decoding is all or        *)
(* nothing, and it comes before the first call of any command.             *)
(***************************************************************************)
EXTENDS Naturals, SequencesExt

CONSTANT Undecodable   \* the whole command fails on its input

(***************************************************************************)
(* A document is empty (comments, null), garbled (no YAML, or no mapping), *)
(* or an object with a type and a manifest.                                *)
(***************************************************************************)
Empty == [form |-> "empty"]
Garbled == [form |-> "garbled"]
Object(apiVersion, kind, m) ==
    [form |-> "object", apiVersion |-> apiVersion, kind |-> kind, manifest |-> m]

Complete(doc) ==
    doc.form = "object" /\ doc.kind # "" /\ doc.apiVersion # <<"">>

Decode(stream) ==
    LET objects == SelectSeq(stream, LAMBDA doc : doc.form # "empty") IN
    IF \A i \in DOMAIN objects : Complete(objects[i])
    THEN objects
    ELSE Undecodable

(***************************************************************************)
(* A path is a stream (a file or "-"), a directory, or nothing that can be *)
(* read.  A directory's entries are named by numbers, in the order of      *)
(* their names; those without a manifest's extension, and directories, are *)
(* passed over.                                                            *)
(***************************************************************************)
Missing == [form |-> "missing"]
File(docs) == [form |-> "file", docs |-> docs]
Directory(entries) == [form |-> "dir", entries |-> entries]
Entry(name, ext, docs) == [name |-> name, ext |-> ext, docs |-> docs]

ManifestExtensions == {"yaml", "yml", "json"}

ByNameOf(e, f) == e.name < f.name

Streams_InAnyOrder(path) ==
    IF path.form = "file"
    THEN <<path.docs>>
    ELSE LET files == SetToSortSeq({e \in path.entries : e.ext \in ManifestExtensions},
                                   LAMBDA e, f : e.name > f.name)
         IN  [i \in DOMAIN files |-> files[i].docs]

Streams(path) ==
    IF path.form = "file"
    THEN <<path.docs>>
    ELSE LET files == SetToSortSeq({e \in path.entries : e.ext \in ManifestExtensions},
                                   ByNameOf)
         IN  [i \in DOMAIN files |-> files[i].docs]

DecodeFiles(paths) ==
    IF \E i \in DOMAIN paths : paths[i].form = "missing"
    THEN Undecodable
    ELSE LET streams == FlattenSeq([i \in DOMAIN paths |-> Streams(paths[i])])
             decoded == [i \in DOMAIN streams |-> Decode(streams[i])]
         IN  IF \E i \in DOMAIN decoded : decoded[i] = Undecodable
             THEN Undecodable
             ELSE FlattenSeq(decoded)
=============================================================================
