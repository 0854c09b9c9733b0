--------------------------- MODULE KconfigFilesMC ---------------------------
(***************************************************************************)
(* Programs that use the classes on one set of tables, the tools and their *)
(* files on another.                                                       *)
(***************************************************************************)
EXTENDS KconfigFiles, KconfigCachesMC

MCGiven == "x_defconfig" :> << <<"DS_DEFCONFIG", "">>, <<"A", "n">>, <<"GONE", "y">>, <<"P", "y">>, <<"W", "m">> >>
Budget(tools, edits, builds, kills) ==
  [tools |-> tools, edits |-> edits, builds |-> builds, kills |-> kills]
MCBudgets == {Budget(1, 1, 0, 1), Budget(1, 1, 2, 0), Budget(2, 0, 2, 1),
              Budget(2, 0, 0, 2), Budget(3, 0, 0, 1)}
MCSavings == {Budget(1, 1, 0, 0), Budget(2, 0, 0, 0)}
NoTools == Budget(0, 0, 0, 0)

MCKconfigs == MCClients \cup MCTools \cup MCTristates
AllBudgets == MCBudgets \cup MCSavings \cup {NoTools}

MCInit ==
  \/ FilesInit /\ defs \in MCClients /\ left = NoTools /\ CachesInit
  \/ /\ FilesInit /\ config = NoItems
     /\ \/ defs \in MCTools /\ left \in MCBudgets
        \/ defs \in MCTristates /\ left \in MCSavings
MCNext ==
  \/ defs \in MCClients /\ CachesNext /\ UNCHANGED <<writesVars, left>>
  \/ defs \notin MCClients /\ FilesNext /\ UNCHANGED config
MCSpec == MCInit /\ [][MCNext]_<<vars, config>>

-----------------------------------------------------------------------------
\* One symbol of a choice is y, whatever the programs set.
ProgramsSeeOneSelection == defs \in MCClients => OneSelection

\* What the programs are offered is held, whatever they have set before.
ProgramsHoldOffers == defs \in MCClients => OfferedIsHeld
=============================================================================
