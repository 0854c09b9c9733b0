----------------------------- MODULE ConfigWrites -----------------------------
(***************************************************************************)
(* The files of a configuration as the tools write them, one access after  *)
(* the other: .config with its copy (write_config(), _save_old()), minimal *)
(* configurations, and auto.conf with the files that sync_deps() touches.  *)
(* Any tool may be killed at any point.                                    *)
(*                                                                         *)
(* What is written, and the values a build is configured with, are         *)
(* parameters here: KconfigFiles calculates them.  A file is a sequence of *)
(* lines <<name, value>>, or None if there is no such file.                *)
(***************************************************************************)
EXTENDS KconfigBase

CONSTANT Given  \* the files below configs/, by name

Standard == {".config", ".config.old", "auto.conf"}

ASSUME GivenAssumption == DOMAIN Given \cap Standard = {}
ASSUME NIsAValue == None # "n"

VARIABLES
  files,  \* file name -> lines
  tool,   \* the program that runs
  job,    \* the file it is writing: name, contents, the next step; for a build
          \* its values, and the symbols that are still to be compared
  dep,    \* of sync_deps(): which symbols are bool or tristate, the files
          \* touched, the values that are built in, whether auto.conf is torn
  saved,  \* the last configuration that was written to .config
  cuts    \* how often writing .config was cut off since it was last whole

writesVars == <<files, tool, job, dep, saved, cuts>>

Empty == <<>>
NoJob == [file |-> "", contents |-> Empty, step |-> "none", new |-> <<>>, rest |-> <<>>]
Quiet == job.step = "none"
Writing(file, contents) == [NoJob EXCEPT !.file = file, !.contents = contents, !.step = "compare"]
-----------------------------------------------------------------------------
(***************************************************************************)
(* The values a build is configured with, and those it finds in auto.conf. *)
(* A value v has v.str, and v.written if it is a line of .config.          *)
(***************************************************************************)
\* Of several lines the last one counts.
ValueIn(lines, s) ==
  LET at == {p \in DOMAIN lines : lines[p][1] = s} IN
  IF lines = None \/ at = {} THEN None ELSE lines[CHOOSE p \in at : \A q \in at : q <= p][2]
OldVal(s) == ValueIn(files["auto.conf"], s)

IsN(s, v) == s \in dep.bools /\ v.str = "n"

\* What autoconf.h says of a symbol: nothing if it is n or not written.
Defined(s, v) == IF v.written /\ ~IsN(s, v) THEN v.str ELSE None

\* Mutant: a symbol without an old value has not changed.
ChangedIfKnown(s, v) == OldVal(s) # None /\ (~v.written \/ v.str # OldVal(s))

Changed(s, v) ==
  IF v.written THEN v.str # OldVal(s) /\ ~(OldVal(s) = None /\ IsN(s, v))
  ELSE OldVal(s) # None
-----------------------------------------------------------------------------
(***************************************************************************)
(* Writing a file.                                                         *)
(***************************************************************************)
Finished ==
  CASE tool = "menuconfig" -> job' = NoJob /\ tool' = tool
    [] tool = "build" -> job' = [job EXCEPT !.step = "build"] /\ tool' = tool
    [] OTHER -> job' = NoJob /\ tool' = "none"

\* A file that has the contents already is not touched.
WriteNothing ==
  /\ job.step = "compare" /\ files[job.file] = job.contents
  /\ Finished
  /\ UNCHANGED <<files, dep, saved, cuts>>

\* Mutant: no copy of the old configuration is kept.
KeepNoOld ==
  /\ job.step = "compare" /\ files[job.file] # job.contents
  /\ job' = [job EXCEPT !.step = "open"]
  /\ UNCHANGED <<files, tool, dep, saved, cuts>>

\* _save_old() renames .config.
SaveOld ==
  /\ job.step = "compare" /\ files[job.file] # job.contents
  /\ files' = IF job.file # ".config" \/ files[".config"] = None THEN files
              ELSE [files EXCEPT ![".config.old"] = files[".config"], ![".config"] = None]
  /\ job' = [job EXCEPT !.step = "open"]
  /\ UNCHANGED <<tool, dep, saved, cuts>>

OpenForWriting ==
  /\ job.step = "open"
  /\ files' = [files EXCEPT ![job.file] = Empty]
  /\ job' = [job EXCEPT !.step = "write"]
  /\ UNCHANGED <<tool, dep, saved, cuts>>

WriteContents ==
  /\ job.step = "write"
  /\ files' = [files EXCEPT ![job.file] = job.contents]
  /\ saved' = IF job.file = ".config" THEN job.contents ELSE saved
  /\ cuts' = IF job.file = ".config" THEN 0 ELSE cuts
  /\ Finished
  /\ UNCHANGED dep
-----------------------------------------------------------------------------
(***************************************************************************)
(* The tools: t writes one file and ends, menuconfig writes as often as it *)
(* is told to.                                                             *)
(***************************************************************************)
StartWriting(t, file, contents) ==
  /\ tool = "none" /\ tool' = t
  /\ job' = Writing(file, contents)
  /\ UNCHANGED <<files, dep, saved, cuts>>
StartMenuconfig ==
  /\ tool = "none" /\ tool' = "menuconfig"
  /\ UNCHANGED <<files, job, dep, saved, cuts>>
SaveAs(file, contents) ==
  /\ tool = "menuconfig" /\ Quiet
  /\ job' = Writing(file, contents)
  /\ UNCHANGED <<files, tool, dep, saved, cuts>>
EndMenuconfig ==
  /\ tool = "menuconfig" /\ Quiet
  /\ tool' = "none"
  /\ UNCHANGED <<files, job, dep, saved, cuts>>

(***************************************************************************)
(* sync_deps(): the file of every symbol that has changed since the last   *)
(* build is touched, then auto.conf is written.  What depends on a touched *)
(* symbol is built again with its value (Build).                           *)
(***************************************************************************)
StartBuild(contents, new, order) ==
  /\ tool = "none" /\ tool' = "build"
  /\ job' = [file |-> "auto.conf", contents |-> contents, step |-> "touch",
             new |-> new, rest |-> order]
  /\ UNCHANGED <<files, dep, saved, cuts>>
TouchNext ==
  /\ job.step = "touch" /\ job.rest # <<>>
  /\ dep' = IF Changed(Head(job.rest), job.new[Head(job.rest)])
            THEN [dep EXCEPT !.touched = @ \cup {Head(job.rest)}] ELSE dep
  /\ job' = [job EXCEPT !.rest = Tail(@)]
  /\ UNCHANGED <<files, tool, saved, cuts>>
WriteOldVals ==
  /\ job.step = "touch" /\ job.rest = <<>>
  /\ job' = [job EXCEPT !.step = "compare"]
  /\ UNCHANGED <<files, tool, dep, saved, cuts>>

\* The build takes the new values of what was touched.
Build ==
  /\ job.step = "build"
  /\ dep' = [dep EXCEPT !.touched = {},
                        !.used = [s \in DOMAIN dep.used |->
                                    IF s \in dep.touched THEN Defined(s, job.new[s]) ELSE @[s]]]
  /\ job' = NoJob /\ tool' = "none"
  /\ UNCHANGED <<files, saved, cuts>>
-----------------------------------------------------------------------------
\* A program is killed; of what it was writing any part may be there.
Kill ==
  /\ tool # "none"
  /\ tool' = "none" /\ job' = NoJob
  /\ IF job.step = "write"
     THEN /\ \E n \in 0..Len(job.contents) - 1 :
               files' = [files EXCEPT ![job.file] = SubSeq(job.contents, 1, n)]
          /\ dep' = [dep EXCEPT !.torn = @ \/ job.file = "auto.conf"]
     ELSE UNCHANGED <<files, dep>>
  /\ cuts' = IF job.file = ".config" /\ job.step \in {"open", "write"} THEN cuts + 1 ELSE cuts
  /\ UNCHANGED saved
-----------------------------------------------------------------------------
WritesInit ==
  /\ tool = "none" /\ job = NoJob
  /\ files = [f \in Standard \cup {"defconfig"} \cup DOMAIN Given |->
               IF f \in DOMAIN Given THEN Given[f] ELSE None]
  /\ dep = [bools |-> dep.bools, touched |-> {}, used |-> [s \in DOMAIN dep.used |-> None], torn |-> FALSE]
  /\ saved = None /\ cuts = 0

\* What a build writes to auto.conf is what it defines, and it compares every
\* symbol.
TellsTheBuild(contents, new, order) ==
  /\ DOMAIN new = DOMAIN dep.used /\ order \in Seq(DOMAIN new)
  /\ \A s \in DOMAIN new :
       new[s].str # None /\ ValueIn(contents, s) = Defined(s, new[s]) /\ s \in Elems(order)

WritesNext ==
  \/ WriteNothing \/ SaveOld \/ OpenForWriting \/ WriteContents
  \/ StartWriting("defconfig", ".config", job'.contents) \/ SaveAs(".config", job'.contents)
  \/ \E f \in DOMAIN files \ Standard :
       StartWriting("savedefconfig", f, job'.contents) \/ SaveAs(f, job'.contents)
  \/ StartMenuconfig \/ EndMenuconfig
  \/ StartBuild(job'.contents, job'.new, job'.rest) /\ TellsTheBuild(job'.contents, job'.new, job'.rest)
  \/ TouchNext \/ WriteOldVals \/ Build \/ Kill

\* Every behaviour of the tools, with whatever they write, is one of these
\* (Kconfig.write_config(), write_min_config() and sync_deps()).
WritesSpec == WritesInit /\ [][WritesNext]_writesVars
-----------------------------------------------------------------------------
(***************************************************************************)
(* Properties.                                                             *)
(***************************************************************************)

\* One kill at whatever point leaves the last configuration that was saved in
\* .config or in .config.old, and so does every later one, if .config was
\* written as a whole before it (_save_old()).
SavedIsKept == cuts <= 1 /\ Quiet => saved \in {files[".config"], files[".config.old"], None}

\* After a build no symbol has a value but the one it was built with: each one
\* that changed was touched, kills before auto.conf is written included
\* (kconfiglib.py:1832-1838).
BuildsAreCurrent ==
  job.step = "build" /\ ~dep.torn =>
    \A s \in DOMAIN dep.used : s \in dep.touched \/ dep.used[s] = Defined(s, job.new[s])
=============================================================================
