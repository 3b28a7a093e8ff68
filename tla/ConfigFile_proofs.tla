-------------------------- MODULE ConfigFile_proofs --------------------------
(***************************************************************************)
(* Proofs about ConfigFile, for any number of processes, contexts, edits   *)
(* and crashes.                                                            *)
(***************************************************************************)
EXTENDS ConfigFile, TLAPS

(***************************************************************************)
(* The inductive invariant.  A text that has its header is a whole text:   *)
(* what Truncate leaves has none, and what Write writes was loaded from    *)
(* one that had.  Everything loaded, current or targeted goes back to it.  *)
(***************************************************************************)
Whole(c) ==
    /\ c.contexts \in written
    /\ c.current # None => c.current \in chosen

FileIsWhole ==
    /\ file.state = "text" /\ file.config.header => Whole(file.config)
    /\ file.state = "absent" => Nothing \in written

LoadedAreWhole == \A p \in Procs : cfg[p] # None => Whole(cfg[p])

BusyHaveConfig ==
    \A p \in Procs : pc[p] \in {"resolve", "check", "truncate", "write"} => cfg[p] # None

OrdersAreChosen ==
    \A p \in Procs : pc[p] # "idle" /\ order[p].context # None => order[p].context \in chosen

SwitchersAreTold ==
    \A p \in Procs : pc[p] = "check" => order[p].context # None

IInv ==
    /\ TypeOK
    /\ FileIsWhole /\ LoadedAreWhole
    /\ BusyHaveConfig /\ OrdersAreChosen /\ SwitchersAreTold
    /\ TargetsAreChosen

-----------------------------------------------------------------------------
LEMMA ConstantConfigs ==
    /\ Zero \in Config /\ NewConfig \in Config
    /\ Zero.contexts = Nothing /\ ~Zero.header /\ Zero.current = None
    /\ NewConfig.contexts = Nothing /\ NewConfig.current = None
    /\ Nothing \in [Contexts -> Targets \cup {None}]
  BY DEF Zero, NewConfig, Config, Nothing

LEMMA ConstantFiles ==
    /\ Absent \in File /\ Empty \in File /\ Garbled \in File
    /\ Absent.state = "absent" /\ Garbled.state = "garbled" /\ Empty.state = "text"
    /\ Absent.config = Zero /\ Empty.config = Zero
    /\ \A c \in Config : Text(c) \in File /\ Text(c).state = "text" /\ Text(c).config = c
  BY ConstantConfigs DEF Absent, Empty, Garbled, Text, File

\* A config in which every context binds something of the file.
LEMMA ValidIsSound ==
    ASSUME NEW c \in Config, Valid(c)
    PROVE  c \in Sound
  BY DEF Valid, Config, Sound

LEMMA SoundIsConfig == Sound \subseteq Config /\ None \notin Sound
<1>1. Sound \subseteq Config
  BY TargetsAssumption DEF Sound, Config
<1> QED
  BY <1>1, NoConfigAssumption

-----------------------------------------------------------------------------
LEMMA Initially == Init => IInv
<1> SUFFICES ASSUME Init PROVE IInv
  OBVIOUS
<1>1. file \in File
  BY ConstantFiles, VersionsAssumption DEF Init
<1>2. file.config \in Config /\ file.config.contexts \in [Contexts -> Targets \cup {None}]
      /\ file.config.current \in Contexts \cup {None}
  BY <1>1 DEF File, Config
<1>3. TypeOK
  BY <1>1, <1>2, BoundsAssumption DEF Init, TypeOK, Orders
<1>4. FileIsWhole
  <2>1. file.state = "absent" => file = Absent
    BY ConstantFiles, VersionsAssumption DEF Init
  <2>2. Whole(file.config)
    BY <1>2 DEF Whole, Init
  <2> QED
    BY <2>1, <2>2, ConstantFiles, ConstantConfigs DEF FileIsWhole, Init
<1>5. LoadedAreWhole /\ BusyHaveConfig /\ OrdersAreChosen /\ SwitchersAreTold /\ TargetsAreChosen
  BY DEF Init, LoadedAreWhole, BusyHaveConfig, OrdersAreChosen, SwitchersAreTold, TargetsAreChosen
<1> QED
  BY <1>3, <1>4, <1>5 DEF IInv

-----------------------------------------------------------------------------
(***************************************************************************)
(* The steps.                                                              *)
(***************************************************************************)
LEMMA EndKeeps ==
    ASSUME IInv, NEW p \in Procs, NEW where \in Targets \cup {None}, End(p, where),
           where # None => \E c \in chosen, w \in written : w[c] = where,
           file' \in File, FileIsWhole',
           edits' \in 0..MaxEdits, crashes' \in 0..MaxCrashes, UNCHANGED <<written, chosen>>
    PROVE  IInv'
<1>1. TypeOK'
  BY DEF IInv, TypeOK, End, Goto
<1>2. LoadedAreWhole'
  BY DEF IInv, TypeOK, End, Goto, LoadedAreWhole, Whole
<1>3. BusyHaveConfig'
  BY DEF IInv, TypeOK, End, Goto, BusyHaveConfig
<1>4. OrdersAreChosen' /\ SwitchersAreTold'
  BY DEF IInv, TypeOK, End, Goto, OrdersAreChosen, SwitchersAreTold
<1>5. TargetsAreChosen'
  BY DEF IInv, TypeOK, End, TargetsAreChosen
<1> QED
  BY <1>1, <1>2, <1>3, <1>4, <1>5 DEF IInv

\* Nothing changes but where a process is, and the config it holds.
LEMMA MoveKeeps ==
    ASSUME IInv, NEW p \in Procs, NEW label \in {"resolve", "check", "truncate", "write"},
           NEW c \in Sound, Whole(c), cfg' = [cfg EXCEPT ![p] = c], Goto(p, label),
           pc[p] # "idle", label = "check" => order[p].context # None,
           file' \in File, FileIsWhole',
           UNCHANGED <<order, target, edits, crashes, written, chosen>>
    PROVE  IInv'
<1>1. TypeOK'
  BY DEF IInv, TypeOK, Goto
<1>2. LoadedAreWhole'
  BY DEF IInv, TypeOK, LoadedAreWhole, Whole
<1>3. BusyHaveConfig'
  BY SoundIsConfig DEF IInv, TypeOK, Goto, BusyHaveConfig
<1>4. OrdersAreChosen' /\ SwitchersAreTold'
  BY DEF IInv, TypeOK, Goto, OrdersAreChosen, SwitchersAreTold
<1>5. TargetsAreChosen'
  BY DEF IInv, TargetsAreChosen
<1> QED
  BY <1>1, <1>2, <1>3, <1>4, <1>5 DEF IInv

LEMMA SameFile == ASSUME IInv, UNCHANGED <<file, written, chosen>> PROVE file' \in File /\ FileIsWhole'
  BY DEF IInv, TypeOK, FileIsWhole, Whole

\* What Load finds valid is whole.
LEMMA LoadedIsWhole ==
    ASSUME IInv, NEW c \in Loaded, Valid(c)
    PROVE  c \in Config /\ Whole(c)
<1>1. CASE file.state = "absent"
  <2>1. c = NewConfig
    BY <1>1 DEF Loaded
  <2> QED
    BY <1>1, <2>1, ConstantConfigs DEF IInv, FileIsWhole, Whole
<1>2. CASE file.state = "text"
  <2>1. c = file.config
    BY <1>2 DEF Loaded
  <2> QED
    BY <1>2, <2>1 DEF IInv, FileIsWhole, TypeOK, File, Valid
<1>3. CASE file.state = "garbled"
  BY <1>3 DEF Loaded
<1> QED
  BY <1>1, <1>2, <1>3 DEF IInv, TypeOK, File

LEMMA BeginKeeps ==
    ASSUME IInv, NEW p \in Procs, NEW o \in Orders, Begin(p, o)
    PROVE  IInv'
<1>1. TypeOK'
  BY DEF IInv, TypeOK, Begin, Goto, Orders
<1>2. FileIsWhole' /\ LoadedAreWhole'
  BY DEF IInv, FileIsWhole, LoadedAreWhole, Whole, Begin
<1>3. BusyHaveConfig' /\ SwitchersAreTold'
  BY DEF IInv, TypeOK, BusyHaveConfig, SwitchersAreTold, Begin, Goto
<1>4. OrdersAreChosen'
  BY DEF IInv, TypeOK, OrdersAreChosen, Begin, Goto
<1>5. TargetsAreChosen'
  BY DEF IInv, TypeOK, TargetsAreChosen, Begin
<1> QED
  BY <1>1, <1>2, <1>3, <1>4, <1>5 DEF IInv

LEMMA LoadKeeps ==
    ASSUME IInv, NEW p \in Procs, Load(p)
    PROVE  IInv'
<1>1. file' \in File /\ FileIsWhole'
  BY SameFile DEF Load
<1>2. edits' \in 0..MaxEdits /\ crashes' \in 0..MaxCrashes
  BY DEF Load, IInv, TypeOK
<1>3. CASE \E c \in Loaded : Valid(c)
  <2>1. PICK c \in Loaded : cfg' = [cfg EXCEPT ![p] = c]
    BY <1>3 DEF Load
  <2>2. Valid(c)
    BY <1>3, <2>1 DEF Loaded
  <2>3. c \in Sound /\ Whole(c)
    BY <2>2, LoadedIsWhole, ValidIsSound
  <2>4. PICK label \in {"resolve", "check"} :
            Goto(p, label) /\ (label = "check" => order[p].verb = "use")
    BY <1>3 DEF Load
  <2>5. label = "check" => order[p].context # None
    BY <2>4, NoneAssumption DEF IInv, TypeOK, Orders
  <2>6. UNCHANGED <<order, target, edits, crashes, written, chosen>> /\ pc[p] # "idle"
    BY <1>3 DEF Load
  <2> QED
    BY <1>1, <2>1, <2>3, <2>4, <2>5, <2>6, MoveKeeps
<1>4. CASE ~\E c \in Loaded : Valid(c)
  <2>1. End(p, None) /\ UNCHANGED <<written, chosen>>
    BY <1>4 DEF Load
  <2> QED
    BY <1>1, <1>2, <2>1, EndKeeps
<1> QED
  BY <1>3, <1>4

LEMMA ResolveKeeps ==
    ASSUME IInv, NEW p \in Procs, Resolve(p)
    PROVE  IInv'
<1>1. file' \in File /\ FileIsWhole'
  BY SameFile DEF Resolve
<1>2. edits' \in 0..MaxEdits /\ crashes' \in 0..MaxCrashes /\ UNCHANGED <<written, chosen>>
  BY DEF Resolve, IInv, TypeOK
<1> DEFINE selected == Selected(cfg[p], order[p].context)
<1>3. CASE selected = {}
  BY <1>1, <1>2, <1>3, EndKeeps DEF Resolve
<1>4. CASE selected # {}
  <2>1. PICK n \in selected : End(p, cfg[p].contexts[n])
    BY <1>4 DEF Resolve
  <2>2. cfg[p] \in Config /\ Whole(cfg[p])
    BY SoundIsConfig DEF Resolve, IInv, TypeOK, BusyHaveConfig, LoadedAreWhole
  <2>3. n \in chosen
    BY <2>2 DEF Selected, Resolve, Whole, IInv, OrdersAreChosen
  <2>4. cfg[p].contexts[n] \in Targets \cup {None}
    BY <2>2, <2>3 DEF Config, IInv, TypeOK
  <2>5. \E c \in chosen, w \in written : w[c] = cfg[p].contexts[n]
    BY <2>2, <2>3 DEF Whole
  <2> QED
    BY <1>1, <1>2, <2>1, <2>4, <2>5, EndKeeps
<1> QED
  BY <1>3, <1>4

LEMMA CheckKeeps ==
    ASSUME IInv, NEW p \in Procs, Check(p)
    PROVE  IInv'
<1>1. file' \in File /\ FileIsWhole'
  BY SameFile DEF Check
<1>2. edits' \in 0..MaxEdits /\ crashes' \in 0..MaxCrashes /\ UNCHANGED <<written, chosen>>
  BY DEF Check, IInv, TypeOK
<1>3. CASE cfg[p].contexts[order[p].context] = None
  BY <1>1, <1>2, <1>3, EndKeeps DEF Check
<1>4. CASE cfg[p].contexts[order[p].context] # None
  <2> DEFINE c == [cfg[p] EXCEPT !.current = order[p].context]
  <2>1. cfg[p] \in Sound /\ Whole(cfg[p])
    BY DEF Check, IInv, TypeOK, BusyHaveConfig, LoadedAreWhole
  <2>2. order[p].context \in chosen \cap Contexts /\ order[p].context # None
    BY DEF Check, IInv, TypeOK, OrdersAreChosen, SwitchersAreTold
  <2>3. c \in Sound
    BY <2>1, <2>2 DEF Sound
  <2>4. c.contexts = cfg[p].contexts /\ c.current = order[p].context
    BY <2>1 DEF Sound
  <2>5. Whole(c)
    BY <2>1, <2>2, <2>4 DEF Whole
  <2>6. cfg' = [cfg EXCEPT ![p] = c]
    BY <1>4 DEF Check
  <2>7. Goto(p, "truncate") /\ pc[p] # "idle" /\ UNCHANGED <<order, target, edits, crashes>>
    BY <1>4 DEF Check
  <2> HIDE DEF c
  <2> QED
    BY <1>1, <1>2, <2>3, <2>5, <2>6, <2>7, MoveKeeps
<1> QED
  BY <1>3, <1>4

LEMMA TruncateKeeps ==
    ASSUME IInv, NEW p \in Procs, Truncate(p)
    PROVE  IInv'
<1>1. cfg[p] \in Sound /\ Whole(cfg[p]) /\ cfg' = [cfg EXCEPT ![p] = cfg[p]]
  BY DEF Truncate, IInv, TypeOK, BusyHaveConfig, LoadedAreWhole
<1>2. file' \in File /\ FileIsWhole'
  BY ConstantFiles, ConstantConfigs DEF Truncate, FileIsWhole
<1> QED
  BY <1>1, <1>2, MoveKeeps DEF Truncate

LEMMA WriteKeeps ==
    ASSUME IInv, NEW p \in Procs, Write(p)
    PROVE  IInv'
<1>1. cfg[p] \in Config /\ Whole(cfg[p])
  BY SoundIsConfig DEF Write, IInv, TypeOK, BusyHaveConfig, LoadedAreWhole
<1>2. file' \in File /\ FileIsWhole'
  <2>1. CASE file' = Text(cfg[p])
    BY <1>1, <2>1, ConstantFiles DEF FileIsWhole, Whole, Write
  <2>2. CASE file' = Garbled
    BY <2>2, ConstantFiles DEF FileIsWhole
  <2> QED
    BY <2>1, <2>2 DEF Write
<1>3. End(p, None) /\ edits' \in 0..MaxEdits /\ crashes' \in 0..MaxCrashes
      /\ UNCHANGED <<written, chosen>>
  BY DEF Write, IInv, TypeOK
<1> QED
  BY <1>2, <1>3, EndKeeps

LEMMA CrashKeeps ==
    ASSUME IInv, NEW p \in Procs, Crash(p)
    PROVE  IInv'
<1>1. file' \in File /\ FileIsWhole'
  BY SameFile DEF Crash
<1>2. edits' \in 0..MaxEdits /\ crashes' \in 0..MaxCrashes
  BY BoundsAssumption DEF Crash, IInv, TypeOK
<1> QED
  BY <1>1, <1>2, EndKeeps DEF Crash

LEMMA EditKeeps ==
    ASSUME IInv, NEW v \in Versions, Edit(v)
    PROVE  IInv'
<1>1. v \in Config /\ v.contexts \in [Contexts -> Targets \cup {None}]
      /\ v.current \in Contexts \cup {None}
  BY VersionsAssumption DEF Config
<1>2. TypeOK'
  BY <1>1, ConstantFiles, BoundsAssumption DEF Edit, IInv, TypeOK
<1>3. FileIsWhole'
  BY <1>1, ConstantFiles DEF Edit, FileIsWhole, Whole
<1>4. LoadedAreWhole' /\ BusyHaveConfig' /\ OrdersAreChosen' /\ SwitchersAreTold'
  BY DEF Edit, IInv, LoadedAreWhole, BusyHaveConfig, OrdersAreChosen, SwitchersAreTold, Whole
<1>5. TargetsAreChosen'
  BY DEF Edit, IInv, TargetsAreChosen
<1> QED
  BY <1>2, <1>3, <1>4, <1>5 DEF IInv

LEMMA StutterKeeps == IInv /\ UNCHANGED vars => IInv'
  BY DEF IInv, TypeOK, FileIsWhole, LoadedAreWhole, BusyHaveConfig, OrdersAreChosen,
         SwitchersAreTold, TargetsAreChosen, Whole, vars

LEMMA NextKeeps == IInv /\ [Next]_vars => IInv'
<1> SUFFICES ASSUME IInv, [Next]_vars PROVE IInv'
  OBVIOUS
<1>1. CASE UNCHANGED vars
  BY <1>1, StutterKeeps
<1>2. ASSUME NEW p \in Procs, NEW o \in Orders, Begin(p, o) PROVE IInv'
  BY <1>2, BeginKeeps
<1>3. ASSUME NEW p \in Procs, Step(p) \/ Crash(p) PROVE IInv'
  BY <1>3, LoadKeeps, ResolveKeeps, CheckKeeps, TruncateKeeps, WriteKeeps, CrashKeeps DEF Step
<1>4. ASSUME NEW v \in Versions, Edit(v) PROVE IInv'
  BY <1>4, EditKeeps
<1> QED
  BY <1>1, <1>2, <1>3, <1>4 DEF Next

-----------------------------------------------------------------------------
(***************************************************************************)
(* The inductive invariant holds in every reachable state.                 *)
(***************************************************************************)
THEOREM ConfigInvariance == Spec => []IInv
  BY Initially, NextKeeps, PTL DEF Spec

(***************************************************************************)
(* Type correctness: among the rest, no context a command holds names a    *)
(* node or user that is not in its file.  (Validate, use-context.)         *)
(***************************************************************************)
THEOREM ConfigTypeCorrect == Spec => []TypeOK
<1>1. IInv => TypeOK
  BY DEF IInv
<1> QED
  BY <1>1, ConfigInvariance, PTL

(***************************************************************************)
(* No command works with a half-written file, for any number of processes, *)
(* edits and crashes.  (Load and Validate against Save.)                   *)
(***************************************************************************)
THEOREM LoadedIsWritten == Spec => []LoadedIsUsers
<1>1. IInv => LoadedIsUsers
  BY DEF IInv, LoadedAreWhole, Whole, LoadedIsUsers
<1> QED
  BY <1>1, ConfigInvariance, PTL

(***************************************************************************)
(* No command connects to a cluster nobody chose.  (Resolve, use-context.) *)
(***************************************************************************)
THEOREM TargetsChosen == Spec => []TargetsAreChosen
<1>1. IInv => TargetsAreChosen
  BY DEF IInv
<1> QED
  BY <1>1, ConfigInvariance, PTL
=============================================================================
