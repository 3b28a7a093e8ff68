----------------------------- MODULE ConfigFile -----------------------------
(***************************************************************************)
(* The config file (internal/config, cliopt/factory.go, cmd/config.go):    *)
(* commands that load it to find the cluster they talk to, use-context,    *)
(* which rewrites it in place, and the user, who edits it.  Save truncates *)
(* the file and then writes it, with no lock and no temporary file, so     *)
(* other processes and crashes fall between the two.  A write of the whole *)
(* text is one step: the file is smaller than what write(2) cuts in two.   *)
(***************************************************************************)
EXTENDS Naturals

CONSTANTS
    Contexts,    \* context names
    Targets,     \* the node and user a context binds
    Dangling,    \* the targets that name a node or user not in the file
    Procs,       \* pvectl processes
    Versions,    \* the texts the user may give the file
    MaxEdits,    \* bound: edits
    MaxCrashes,  \* bound: processes killed
    None

ASSUME TargetsAssumption == Dangling \subseteq Targets
ASSUME NoneAssumption == None \notin Contexts /\ None \notin Targets
ASSUME BoundsAssumption == MaxEdits \in Nat /\ MaxCrashes \in Nat

\* A parsed file.  header says that apiVersion and kind are there.
Config == [header : BOOLEAN, contexts : [Contexts -> Targets \cup {None}],
           current : Contexts \cup {None}]
ASSUME VersionsAssumption == Versions \subseteq Config
ASSUME NoConfigAssumption == None \notin Config

Nothing == [c \in Contexts |-> None]
Zero == [header |-> FALSE, contexts |-> Nothing, current |-> None]
NewConfig == [Zero EXCEPT !.header = TRUE]

\* The file: missing, empty, a text, or two texts on top of each other.
File == [state : {"absent", "text", "garbled"}, config : Config]
Absent == [state |-> "absent", config |-> Zero]
Empty == [state |-> "text", config |-> Zero]
Garbled == [state |-> "garbled", config |-> Zero]
Text(cfg) == [state |-> "text", config |-> cfg]

\* A config whose contexts bind nodes and users of the file.
Sound == [header : BOOLEAN, contexts : [Contexts -> (Targets \ Dangling) \cup {None}],
          current : Contexts \cup {None}]

\* What a process is told: switch to a context, or talk to a cluster,
\* through the context named on the command line or the current one.
Orders == [verb : {"use"}, context : Contexts]
          \cup [verb : {"run"}, context : Contexts \cup {None}]

VARIABLES
    file,
    pc,      \* process -> what it does next
    order,   \* process -> what it was told
    cfg,     \* process -> the config it has loaded
    target,  \* process -> where its last run connected to
    edits, crashes,  \* how much of each bound is used
    written, \* every context map the user gave the file
    chosen   \* every context the user made current, or was told to use

vars == <<file, pc, order, cfg, target, edits, crashes, written, chosen>>

TypeOK ==
    /\ file \in File
    /\ pc \in [Procs -> {"idle", "load", "resolve", "check", "truncate", "write"}]
    /\ order \in [Procs -> Orders]
    /\ cfg \in [Procs -> Sound \cup {None}]
    /\ target \in [Procs -> Targets \cup {None}]
    /\ edits \in 0..MaxEdits /\ crashes \in 0..MaxCrashes
    /\ written \subseteq [Contexts -> Targets \cup {None}]
    /\ chosen \subseteq Contexts

Init ==
    /\ file \in {Absent} \cup {Text(v) : v \in Versions}
    /\ pc = [p \in Procs |-> "idle"]
    /\ order \in [Procs -> {[verb |-> "run", context |-> None]}]
    /\ cfg = [p \in Procs |-> None]
    /\ target = [p \in Procs |-> None]
    /\ edits = 0 /\ crashes = 0
    /\ written = {file.config.contexts}
    /\ chosen = {file.config.current} \ {None}

-----------------------------------------------------------------------------
Valid_AnyHeader(c) ==
    /\ \A n \in Contexts : c.contexts[n] \notin Dangling
    /\ c.current # None => c.contexts[c.current] # None

Valid_SkipsReferences(c) ==
    /\ c.header
    /\ c.current # None => c.contexts[c.current] # None

\* apiVersion and kind, every context's node and user, the current context.
Valid(c) ==
    /\ c.header
    /\ \A n \in Contexts : c.contexts[n] \notin Dangling
    /\ c.current # None => c.contexts[c.current] # None

\* A file that is not there is an empty config; one that is no YAML is an
\* error, and so is a config that is not valid.
Loaded ==
    CASE file.state = "absent" -> {NewConfig}
      [] file.state = "garbled" -> {}
      [] OTHER -> {file.config}

Selected_FallsBack(c, flag) ==
    IF flag # None THEN {flag}
    ELSE IF c.current # None THEN {c.current} ELSE Contexts

\* --context, else the current context.
Selected(c, flag) == (IF flag # None THEN {flag} ELSE {c.current}) \ {None}

-----------------------------------------------------------------------------
Goto(p, label) == pc' = [pc EXCEPT ![p] = label]

End(p, where) ==
    /\ Goto(p, "idle")
    /\ cfg' = [cfg EXCEPT ![p] = None]
    /\ target' = [target EXCEPT ![p] = where]
    /\ UNCHANGED order

Begin(p, o) ==
    /\ pc[p] = "idle"
    /\ Goto(p, "load")
    /\ order' = [order EXCEPT ![p] = o]
    /\ target' = [target EXCEPT ![p] = None]
    /\ chosen' = chosen \cup ({o.context} \ {None})
    /\ UNCHANGED <<file, cfg, edits, crashes, written>>

Load(p) ==
    /\ pc[p] = "load"
    /\ IF \E c \in Loaded : Valid(c)
       THEN /\ \E c \in Loaded : cfg' = [cfg EXCEPT ![p] = c]
            /\ Goto(p, IF order[p].verb = "use" THEN "check" ELSE "resolve")
            /\ UNCHANGED <<order, target>>
       ELSE End(p, None)
    /\ UNCHANGED <<file, edits, crashes, written, chosen>>

\* A command that talks to a cluster: no context selected, or one that is
\* not there, is an error.
Resolve(p) ==
    /\ pc[p] = "resolve"
    /\ LET selected == Selected(cfg[p], order[p].context)
       IN  IF selected = {}
           THEN End(p, None)
           ELSE \E n \in selected : End(p, cfg[p].contexts[n])
    /\ UNCHANGED <<file, edits, crashes, written, chosen>>

\* use-context: the context must be there.
Check(p) ==
    /\ pc[p] = "check"
    /\ IF cfg[p].contexts[order[p].context] = None
       THEN End(p, None)
       ELSE /\ cfg' = [cfg EXCEPT ![p].current = order[p].context]
            /\ Goto(p, "truncate")
            /\ UNCHANGED <<order, target>>
    /\ UNCHANGED <<file, edits, crashes, written, chosen>>

Truncate(p) ==
    /\ pc[p] = "truncate"
    /\ Goto(p, "write")
    /\ file' = Empty
    /\ UNCHANGED <<order, cfg, target, edits, crashes, written, chosen>>

\* On a file another process has written since it was truncated, the text
\* goes over the other one, whose end shows if it is longer.
Write(p) ==
    /\ pc[p] = "write"
    /\ \/ file' = Text(cfg[p])
       \/ file \notin {Empty, Text(cfg[p])} /\ file' = Garbled
    /\ End(p, None)
    /\ UNCHANGED <<edits, crashes, written, chosen>>

Crash(p) ==
    /\ pc[p] # "idle"
    /\ crashes < MaxCrashes /\ crashes' = crashes + 1
    /\ End(p, None)
    /\ UNCHANGED <<file, edits, written, chosen>>

\* The user saves another text over whatever is there, in place.
Edit(v) ==
    /\ edits < MaxEdits /\ edits' = edits + 1
    /\ file' = Text(v)
    /\ written' = written \cup {v.contexts}
    /\ chosen' = chosen \cup ({v.current} \ {None})
    /\ UNCHANGED <<pc, order, cfg, target, crashes>>

Step(p) == Load(p) \/ Resolve(p) \/ Check(p) \/ Truncate(p) \/ Write(p)

Next ==
    \/ \E p \in Procs : (\E o \in Orders : Begin(p, o)) \/ Step(p) \/ Crash(p)
    \/ \E v \in Versions : Edit(v)

Spec == Init /\ [][Next]_vars

-----------------------------------------------------------------------------
(***************************************************************************)
(* The contexts a command works with are those of a text the user wrote,   *)
(* whole: never the rest of a file that another pvectl is rewriting, or    *)
(* was killed rewriting.  (Load and Validate together, against Save.)      *)
(***************************************************************************)
LoadedIsUsers ==
    \A p \in Procs : cfg[p] # None => cfg[p].contexts \in written

(***************************************************************************)
(* A command connects to a cluster only through a context the user chose,  *)
(* by use-context, on the command line or in the file, and to the node and *)
(* user the file gave that context.                                        *)
(***************************************************************************)
TargetsAreChosen ==
    \A p \in Procs : target[p] # None =>
        \E c \in chosen, w \in written : w[c] = target[p]
=============================================================================
