----------------------------- MODULE KconfigFiles -----------------------------
(***************************************************************************)
(* Configuration files: what kconfiglib writes and loads, and the tools    *)
(* around it, `make X_defconfig` (defconfig.py), `make savedefconfig`      *)
(* (savedefconfig.py) and `make menuconfig`, any of which may be killed.   *)
(*                                                                         *)
(* ConfigWrites has the accesses to the files; here is what is read and    *)
(* written (KconfigLines).  The tools start a program each, whose values   *)
(* are calculated when a file is written.                                  *)
(***************************************************************************)
EXTENDS KconfigLines, ConfigWrites

CONSTANT Budgets    \* how many tools and builds are started, values edited, programs killed

VARIABLE left       \* what may still be started, edited and killed

vars == <<defs, conf, writesVars, left>>

Location == "DS_DEFCONFIG"

\* load_config() without a file name: no .config, no change.
LoadStandard(k) == IF files[".config"] = None THEN k ELSE Load(k, files[".config"])

\* Mutant: what is n is recorded like any other value.
OldValsWithN(k) == ConfigContents(k)

\* auto.conf leaves out what is n.
OldValsContents(k) ==
  SelectSeq(ConfigContents(k), LAMBDA l : ~(OrigType(l[1]) \in BoolTri /\ Tri(k, l[1]) = 0))
-----------------------------------------------------------------------------
(***************************************************************************)
(* The tools.                                                              *)
(***************************************************************************)
\* The values are gone with the program.
AccessFile ==
  /\ \/ WriteNothing \/ SaveOld \/ OpenForWriting \/ WriteContents
     \/ TouchNext \/ WriteOldVals \/ Build
  /\ conf' = IF tool' = "none" THEN Pristine ELSE conf
  /\ UNCHANGED <<defs, left>>

\* make X_defconfig: the file, and where it came from.
Defconfig(f) ==
  /\ tool = "none" /\ left.tools > 0 /\ f \notin Standard /\ files[f] # None
  /\ conf' = SetSymValue(Load(Pristine, files[f]), Location, f)
  /\ StartWriting("defconfig", ".config", ConfigContents(conf'))
  /\ left' = [left EXCEPT !.tools = @ - 1]
  /\ UNCHANGED defs

\* make savedefconfig: to where the configuration came from.
SaveDefconfig ==
  LET loaded == LoadStandard(Pristine)
      place == Str(loaded, Location)
  IN /\ tool = "none" /\ left.tools > 0
     /\ conf' = UnsetSymValue(loaded, Location)
     /\ StartWriting("savedefconfig", IF place = "" THEN "defconfig" ELSE place, MinContents(conf'))
     /\ left' = [left EXCEPT !.tools = @ - 1]
     /\ UNCHANGED defs

\* make menuconfig: values are edited, other files loaded, the full or the
\* minimal configuration saved.
Menuconfig ==
  /\ left.tools > 0 /\ StartMenuconfig
  /\ conf' = LoadStandard(Pristine)
  /\ left' = [left EXCEPT !.tools = @ - 1]
  /\ UNCHANGED defs
Edit(i, v) ==
  /\ tool = "menuconfig" /\ Quiet /\ left.edits > 0
  /\ conf' = Settled(IF i \in Syms THEN SetSymValue(conf, i, v) ELSE SetChoiceValue(conf, i, v))
  /\ conf' # conf
  /\ left' = [left EXCEPT !.edits = @ - 1]
  /\ UNCHANGED <<defs, writesVars>>
LoadFile(f) ==
  /\ tool = "menuconfig" /\ Quiet /\ files[f] # None /\ f # "auto.conf"
  /\ conf' = Load(conf, files[f])
  /\ UNCHANGED <<defs, writesVars, left>>
Save ==
  /\ \/ SaveAs(".config", ConfigContents(conf))
     \/ SaveAs("defconfig", MinContents(conf))
  /\ UNCHANGED <<defs, conf, left>>
Quit == EndMenuconfig /\ conf' = Pristine /\ UNCHANGED <<defs, left>>

\* A build.
NewValues(k) == [s \in Syms |-> [written |-> WriteToConf(k, s), str |-> Str(k, s)]]
SyncDeps ==
  /\ tool = "none" /\ left.builds > 0
  /\ conf' = LoadStandard(Pristine)
  /\ StartBuild(OldValsContents(conf'), NewValues(conf'), InOrder)
  /\ left' = [left EXCEPT !.builds = @ - 1]
  /\ UNCHANGED defs

KillTool ==
  /\ left.kills > 0 /\ Kill
  /\ conf' = Pristine
  /\ left' = [left EXCEPT !.kills = @ - 1]
  /\ UNCHANGED defs
-----------------------------------------------------------------------------
FilesInit ==
  /\ Init /\ left \in Budgets
  /\ dep = [bools |-> {s \in Syms : OrigType(s) \in BoolTri},
            touched |-> {}, used |-> [s \in Syms |-> None], torn |-> FALSE]
  /\ WritesInit

FilesNext ==
  \/ AccessFile
  \/ \E f \in DOMAIN files : Defconfig(f) \/ LoadFile(f)
  \/ SaveDefconfig \/ Menuconfig \/ Save \/ Quit \/ SyncDeps \/ KillTool
  \/ \E i \in Items : \E v \in UserValues(i) : Edit(i, v)

FilesSpec == FilesInit /\ [][FilesNext]_vars
-----------------------------------------------------------------------------
(***************************************************************************)
(* Properties.                                                             *)
(***************************************************************************)

=============================================================================
