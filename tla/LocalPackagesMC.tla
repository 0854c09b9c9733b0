--------------------------- MODULE LocalPackagesMC ---------------------------
EXTENDS LocalPackages, TLC

SomeIds == {1, 2, 9, 10}      \* 10 comes after 9, but before 2 as text
AllOverlays == OverlayType
Empty == [data |-> {}, debian |-> "none"]

\* Every list of four tasks of two configs that may provide the name of one.
StagingLists ==
  [SomeIds -> {[config |-> c, provides |-> p, cmd_type |-> k, writes |-> w, overlay |-> Empty] :
                 c \in Configs, p \in Provides \cup {Nothing}, k \in {"host", "vm"}, w \in BOOLEAN}]

\* Every list of three tasks with overlays after one of config A without.
Plain(c, k, o) ==
  [config |-> c, provides |-> Nothing, cmd_type |-> k, writes |-> FALSE, overlay |-> o]
PackageLists ==
  {(1 :> Plain("A", "host", Empty)) @@ (2 :> Plain("A", k, o)) @@ rest :
     k \in {"host", "vm"}, o \in AllOverlays,
     rest \in [{9, 10} -> {Plain(c, j, v) : c \in Configs, j \in {"host", "vm"}, v \in AllOverlays}]}

AllLists == StagingLists \cup PackageLists

=============================================================================
