---------------------------- MODULE KconfigProofs ----------------------------
(***************************************************************************)
(* What holds of the configuration files, of the window of menuconfig and  *)
(* of the caches whatever the configuration is: for every set of symbols,  *)
(* files, values, menus and dependencies.  Each part has one invariant:    *)
(* where the saved configuration and the record of the last build are      *)
(* while a file is being written (WInv), the row of the selected entry     *)
(* (FrameInv), and that what a cached value was calculated from is cached  *)
(* (CacheInv).                                                             *)
(***************************************************************************)
EXTENDS ConfigWrites, MenuWindow, KconfigCaches, TLAPS, FiniteSetTheorems, WellFoundedInduction

(***************************************************************************)
(* ConfigWrites.                                                           *)
(***************************************************************************)
Steps == {"none", "touch", "compare", "open", "write", "build"}
JobFields == {"file", "contents", "step", "new", "rest"}

JobOK ==
  /\ DOMAIN job = JobFields /\ job.step \in Steps
  /\ job.step # "none" => job.file \in DOMAIN files \ {".config.old"}
  /\ job.step \in {"touch", "build"} => job.file = "auto.conf" /\ tool = "build"
  /\ job.step # "none" => (job.file = "auto.conf" <=> tool = "build")
  /\ tool = "none" => job.step = "none"

DepOK == DOMAIN dep = {"bools", "touched", "used", "torn"}

FilesOK == Standard \subseteq DOMAIN files

\* The saved configuration is in .config; while that is being written, or was
\* cut off, it is in the copy.  A copy may be lost once writing was cut off.
WritingConfig == job.file = ".config" /\ job.step \in {"open", "write"}
CopyInv ==
  /\ cuts \in Nat
  /\ cuts = 0 /\ ~WritingConfig => saved \in {files[".config"], None}
  /\ cuts = 0 /\ WritingConfig => saved \in {files[".config.old"], None}
  /\ cuts = 1 /\ ~WritingConfig => saved \in {files[".config.old"], None}

\* A symbol whose value is not the one it was built with was touched, or
\* auto.conf has the value it was built with, so that the next build touches it.
Told(s, value) == s \in dep.touched \/ dep.used[s] = value
ToldOld == \A s \in DOMAIN dep.used : Told(s, OldVal(s))
ToldNew(names) == \A s \in names : Told(s, Defined(s, job.new[s]))
RecordGone == job.file = "auto.conf" /\ job.step = "write"
RecordInv ==
  ~dep.torn =>
    /\ ~RecordGone => ToldOld /\ \A s \in DOMAIN dep.used \cap dep.bools : OldVal(s) # "n"
    /\ job.step = "touch" => ToldNew(DOMAIN dep.used \ Elems(job.rest))
    /\ job.step = "build" => \A s \in DOMAIN dep.used : OldVal(s) = Defined(s, job.new[s])
    /\ job.file = "auto.conf" /\ job.step \in {"compare", "open", "write", "build"} =>
         ToldNew(DOMAIN dep.used)

\* What a build was started with.
BuildInv ==
  /\ job.file = "auto.conf" =>
       /\ DOMAIN job.new = DOMAIN dep.used /\ job.rest \in Seq(DOMAIN job.new)
       /\ \A s \in DOMAIN job.new :
            job.new[s].str # None /\ ValueIn(job.contents, s) = Defined(s, job.new[s])

WInv == JobOK /\ DepOK /\ FilesOK /\ CopyInv /\ RecordInv /\ BuildInv
-----------------------------------------------------------------------------
LEMMA WritesInitInv == WritesInit => WInv
<1> SUFFICES ASSUME WritesInit PROVE WInv
  OBVIOUS
<1>1. /\ DOMAIN dep = {"bools", "touched", "used", "torn"}
      /\ \A s \in DOMAIN dep.used : dep.used[s] = None
  BY DEF WritesInit
<1>2. /\ job = NoJob /\ job.step = "none" /\ job.file = "" /\ DOMAIN job = JobFields
      /\ saved = None /\ cuts = 0 /\ Standard \subseteq DOMAIN files
      /\ files["auto.conf"] = None
  BY GivenAssumption DEF WritesInit, NoJob, JobFields, Standard
<1>3. \A s : OldVal(s) = None
  BY <1>2 DEF OldVal, ValueIn
<1>4. CopyInv
  BY <1>2 DEF CopyInv, WritingConfig
<1>5. RecordInv
  BY <1>1, <1>2, <1>3, NIsAValue DEF RecordInv, ToldOld, Told
<1>6. JobOK /\ DepOK /\ FilesOK /\ BuildInv
  BY <1>1, <1>2 DEF JobOK, DepOK, FilesOK, BuildInv, Steps
<1> QED BY <1>4, <1>5, <1>6 DEF WInv

\* Unless it changes, sync_deps() has the value of a symbol in auto.conf.
LEMMA UnchangedIsDefined ==
  ASSUME NEW s, NEW v, v.str # None, ~Changed(s, v), s \in dep.bools => OldVal(s) # "n"
  PROVE  OldVal(s) = Defined(s, v)
BY DEF Changed, Defined, IsN

LEMMA TailIsASeq ==
  ASSUME NEW S, NEW names \in Seq(S), names # <<>>
  PROVE  Tail(names) \in Seq(S)
OBVIOUS
LEMMA HeadOrTail ==
  ASSUME NEW S, NEW names \in Seq(S), names # <<>>,
         NEW s \in Elems(names), s \notin Elems(Tail(names))
  PROVE  s = Head(names)
<1>1. PICK p \in 1..Len(names) : names[p] = s
  BY DEF Elems
<1>2. CASE p = 1
  BY <1>1, <1>2
<1>3. CASE p # 1
  <2>1. p - 1 \in DOMAIN Tail(names) /\ Tail(names)[p - 1] = s
    BY <1>1, <1>3
  <2> QED BY <2>1 DEF Elems
<1> QED BY <1>2, <1>3

\* What a step that leaves auto.conf and sync_deps()'s files alone keeps.
LEMMA RecordKept ==
  ASSUME WInv, UNCHANGED dep, files'["auto.conf"] = files["auto.conf"],
         job'.file # "auto.conf", job'.step \notin {"touch", "build"}, ~RecordGone
  PROVE  RecordInv'
<1>1. \A s : OldVal(s)' = OldVal(s)
  BY DEF OldVal
<1> QED BY <1>1 DEF WInv, RecordInv, RecordGone, ToldOld, Told

LEMMA NoJobFields ==
  /\ DOMAIN NoJob = JobFields /\ NoJob.step = "none" /\ NoJob.file = ""
  /\ \A f, c : LET w == Writing(f, c) IN DOMAIN w = JobFields /\ w.step = "compare" /\ w.file = f
BY DEF NoJob, JobFields, Writing

\* A step that writes a file ends: the job is done, or a build goes on.
LEMMA AfterFinished ==
  ASSUME WInv, Finished, job.step \in {"compare", "write"}
  PROVE  \/ /\ job.file = "auto.conf" /\ tool = "build" /\ tool' = "build"
            /\ job' = [job EXCEPT !.step = "build"]
            /\ DOMAIN job' = JobFields /\ job'.step = "build" /\ job'.file = job.file
            /\ job'.new = job.new /\ job'.contents = job.contents /\ job'.rest = job.rest
         \/ /\ job.file # "auto.conf" /\ tool # "build" /\ tool' # "build"
            /\ job' = NoJob
<1>1. DOMAIN job = JobFields /\ (job.file = "auto.conf" <=> tool = "build")
  BY DEF WInv, JobOK
<1>2. CASE tool = "build"
  BY <1>1, <1>2 DEF Finished, JobFields
<1>3. CASE tool # "build"
  BY <1>1, <1>3 DEF Finished
<1> QED BY <1>2, <1>3

\* Both ways of writing a file to its end: it has the contents.
LEMMA WrittenStep ==
  ASSUME WInv, Finished, job.step \in {"compare", "write"}, UNCHANGED dep,
         files' \in {files, [files EXCEPT ![job.file] = job.contents]},
         files'[job.file] = job.contents
  PROVE  JobOK' /\ DepOK' /\ FilesOK' /\ RecordInv' /\ BuildInv'
<1> USE DEF WInv
<1>1. job.file \in DOMAIN files \ {".config.old"} /\ DOMAIN files' = DOMAIN files
  BY DEF JobOK
<1>2. DepOK' /\ FilesOK'
  BY <1>1 DEF DepOK, FilesOK
<1>3. CASE /\ job.file = "auto.conf" /\ tool = "build" /\ tool' = "build"
           /\ DOMAIN job' = JobFields /\ job'.step = "build" /\ job'.file = job.file
           /\ job'.new = job.new /\ job'.contents = job.contents /\ job'.rest = job.rest
  <2>1. JobOK' /\ BuildInv'
    BY <1>1, <1>3 DEF JobOK, BuildInv, Steps, Defined, IsN
  <2>2. \A s \in DOMAIN dep.used : OldVal(s)' = Defined(s, job.new[s])
    BY <1>3 DEF OldVal, BuildInv
  <2>3. \A s, v : Defined(s, v)' = Defined(s, v)
    BY DEF Defined, IsN
  <2>4. ASSUME ~dep.torn, NEW s \in DOMAIN dep.used
        PROVE  /\ Told(s, Defined(s, job.new[s]))
               /\ s \in dep.bools => Defined(s, job.new[s]) # "n"
    BY <1>3, <2>4, NIsAValue DEF RecordInv, ToldNew, Defined, IsN
  <2>5. RecordInv'
    BY <1>3, <2>2, <2>3, <2>4 DEF RecordInv, ToldNew, ToldOld, Told, RecordGone
  <2> QED BY <1>2, <2>1, <2>5
<1>4. CASE job.file # "auto.conf" /\ tool # "build" /\ tool' # "build" /\ job' = NoJob
  <2>1. JobOK' /\ BuildInv'
    BY <1>4, NoJobFields DEF JobOK, BuildInv, Steps
  <2>2. files'["auto.conf"] = files["auto.conf"]
    BY <1>1, <1>4 DEF FilesOK, Standard
  <2>3. RecordInv'
    BY <1>4, <2>2, NoJobFields, RecordKept DEF RecordGone
  <2> QED BY <1>2, <2>1, <2>3
<1> QED BY <1>3, <1>4, AfterFinished

LEMMA WriteNothingStep == ASSUME WInv, WriteNothing PROVE WInv'
<1>1. JobOK' /\ DepOK' /\ FilesOK' /\ RecordInv' /\ BuildInv'
  BY WrittenStep DEF WriteNothing
<1>2. CopyInv'
  <2>1. ~WritingConfig /\ ~WritingConfig'
    BY AfterFinished, NoJobFields DEF WriteNothing, WritingConfig
  <2> QED BY <2>1 DEF WInv, CopyInv, WriteNothing
<1> QED BY <1>1, <1>2 DEF WInv

LEMMA WriteContentsStep == ASSUME WInv, WriteContents PROVE WInv'
<1> USE DEF WInv
<1>1. /\ job.step = "write" /\ Finished /\ UNCHANGED dep
      /\ files' = [files EXCEPT ![job.file] = job.contents]
      /\ job.file \in DOMAIN files \ {".config.old"} /\ Standard \subseteq DOMAIN files
  BY DEF WriteContents, JobOK, FilesOK
<1>2. JobOK' /\ DepOK' /\ FilesOK' /\ RecordInv' /\ BuildInv'
  BY <1>1, WrittenStep
<1>3. CopyInv'
  <2>1. ~WritingConfig'
    BY <1>1, AfterFinished, NoJobFields DEF WritingConfig
  <2>2. CASE job.file = ".config"
    BY <1>1, <2>1, <2>2 DEF CopyInv, WriteContents, Standard
  <2>3. CASE job.file # ".config"
    BY <1>1, <2>1, <2>3 DEF CopyInv, WriteContents, Standard, WritingConfig
  <2> QED BY <2>2, <2>3
<1> QED BY <1>2, <1>3

\* A step within a job: the job keeps its file, contents and values.
LEMMA JobGoesOn ==
  ASSUME WInv, NEW step \in {"compare", "open", "write"}, job.step # "none",
         job' = [job EXCEPT !.step = step], UNCHANGED <<tool, dep>>, DOMAIN files' = DOMAIN files
  PROVE  /\ JobOK' /\ DepOK' /\ FilesOK' /\ BuildInv'
         /\ job'.step = step /\ job'.file = job.file /\ job'.new = job.new
<1> USE DEF WInv
<1>1. /\ job'.step = step /\ job'.file = job.file /\ job'.new = job.new
      /\ job'.contents = job.contents /\ job'.rest = job.rest /\ DOMAIN job' = JobFields
  BY DEF JobOK, JobFields
<1>2. JobOK'
  BY <1>1 DEF JobOK, Steps
<1>3. DepOK' /\ FilesOK' /\ BuildInv'
  BY <1>1 DEF DepOK, FilesOK, BuildInv, Defined, IsN
<1> QED BY <1>1, <1>2, <1>3

\* Until auto.conf is truncated it says what it said.
LEMMA RecordGoesOn ==
  ASSUME WInv, NEW step \in {"compare", "open", "write"}, UNCHANGED dep,
         job'.step = step, job'.file = job.file, job'.new = job.new,
         job.step \in {"compare", "open"} \/ (job.step = "touch" /\ job.rest = <<>>),
         job.step # "none", ~(job.file = "auto.conf" /\ step = "write") =>
                              files'["auto.conf"] = files["auto.conf"]
  PROVE  RecordInv'
<1> USE DEF WInv
<1>1. ~RecordGone /\ (job.step = "touch" => job.file = "auto.conf")
  BY DEF RecordGone, JobOK
<1>2. ~RecordGone' => \A s : OldVal(s)' = OldVal(s)
  BY DEF OldVal, RecordGone
<1>3. \A s, v : Defined(s, v)' = Defined(s, v) /\ Told(s, v)' = Told(s, v)
  BY DEF Defined, IsN, Told
<1>4. ~dep.torn => ToldOld /\ \A s \in DOMAIN dep.used \cap dep.bools : OldVal(s) # "n"
  BY <1>1 DEF RecordInv
<1>5. ~dep.torn /\ job.file = "auto.conf" => ToldNew(DOMAIN dep.used)
  BY <1>1 DEF RecordInv, ToldNew, Elems
<1> QED BY <1>2, <1>3, <1>4, <1>5 DEF RecordInv, ToldOld, ToldNew

LEMMA SaveOldStep == ASSUME WInv, SaveOld PROVE WInv'
<1> USE DEF WInv
<1>0. /\ job.step = "compare" /\ job' = [job EXCEPT !.step = "open"]
      /\ UNCHANGED <<tool, dep, saved, cuts>>
      /\ \/ files' = files
         \/ files' = [files EXCEPT ![".config.old"] = files[".config"], ![".config"] = None]
  BY DEF SaveOld
<1>1. DOMAIN files' = DOMAIN files /\ files'["auto.conf"] = files["auto.conf"]
  BY <1>0 DEF FilesOK, Standard
<1>2. /\ JobOK' /\ DepOK' /\ FilesOK' /\ BuildInv'
      /\ job'.step = "open" /\ job'.file = job.file /\ job'.new = job.new
  BY <1>0, <1>1, JobGoesOn
<1>3. RecordInv'
  BY <1>0, <1>1, <1>2, RecordGoesOn
<1>4. CopyInv'
  <2>1. CASE job.file = ".config"
    <3>1. saved # None /\ cuts = 0 => saved = files[".config"]
      BY <1>0 DEF CopyInv, WritingConfig
    <3>2. files[".config"] # None => files'[".config.old"] = files[".config"]
      BY <2>1 DEF SaveOld, FilesOK, Standard
    <3> QED BY <1>0, <1>2, <2>1, <3>1, <3>2 DEF CopyInv, WritingConfig
  <2>2. CASE job.file # ".config"
    BY <1>0, <1>2, <2>2 DEF SaveOld, CopyInv, WritingConfig
  <2> QED BY <2>1, <2>2
<1> QED BY <1>2, <1>3, <1>4

LEMMA OpenStep == ASSUME WInv, OpenForWriting PROVE WInv'
<1> USE DEF WInv
<1>1. /\ job.step = "open" /\ job' = [job EXCEPT !.step = "write"]
      /\ UNCHANGED <<tool, dep, saved, cuts>>
      /\ files' = [files EXCEPT ![job.file] = Empty] /\ DOMAIN files' = DOMAIN files
      /\ job.file \in DOMAIN files \ {".config.old"} /\ Standard \subseteq DOMAIN files
  BY DEF OpenForWriting, JobOK, FilesOK
<1>2. /\ JobOK' /\ DepOK' /\ FilesOK' /\ BuildInv'
      /\ job'.step = "write" /\ job'.file = job.file /\ job'.new = job.new
  BY <1>1, JobGoesOn
<1>3. RecordInv'
  BY <1>1, <1>2, RecordGoesOn
<1>4. CopyInv'
  BY <1>1, <1>2 DEF CopyInv, WritingConfig, Standard
<1> QED BY <1>2, <1>3, <1>4

LEMMA WriteOldValsStep == ASSUME WInv, WriteOldVals PROVE WInv'
<1> USE DEF WInv
<1>1. /\ job.step = "touch" /\ job.rest = <<>> /\ job' = [job EXCEPT !.step = "compare"]
      /\ UNCHANGED <<files, tool, dep, saved, cuts>>
  BY DEF WriteOldVals
<1>2. /\ JobOK' /\ DepOK' /\ FilesOK' /\ BuildInv'
      /\ job'.step = "compare" /\ job'.file = job.file /\ job'.new = job.new
  BY <1>1, JobGoesOn
<1>3. RecordInv'
  BY <1>1, <1>2, RecordGoesOn
<1>4. CopyInv'
  BY <1>1, <1>2 DEF CopyInv, WritingConfig
<1> QED BY <1>2, <1>3, <1>4

\* A job begins.
LEMMA WritingStarts ==
  ASSUME WInv, NEW file \in DOMAIN files \ {".config.old", "auto.conf"}, NEW contents,
         job.step = "none", job' = Writing(file, contents),
         tool' \notin {"none", "build"}, UNCHANGED <<files, dep, saved, cuts>>
  PROVE  WInv'
<1> USE DEF WInv
<1>1. DOMAIN job' = JobFields /\ job'.step = "compare" /\ job'.file = file
  BY NoJobFields
<1>2. JobOK' /\ DepOK' /\ FilesOK' /\ BuildInv'
  BY <1>1 DEF JobOK, DepOK, FilesOK, BuildInv, Steps
<1>3. CopyInv'
  BY <1>1 DEF CopyInv, WritingConfig
<1>4. RecordInv'
  BY <1>1, RecordKept DEF RecordGone
<1> QED BY <1>2, <1>3, <1>4

LEMMA StartWritingStep ==
  ASSUME WInv, NEW t \in {"defconfig", "savedefconfig"}, NEW contents,
         NEW file \in DOMAIN files \ {".config.old", "auto.conf"}, StartWriting(t, file, contents)
  PROVE  WInv'
<1>1. /\ job.step = "none" /\ tool' \notin {"none", "build"}
      /\ job' = Writing(file, contents) /\ UNCHANGED <<files, dep, saved, cuts>>
  BY DEF WInv, JobOK, StartWriting
<1> QED BY <1>1, WritingStarts

LEMMA SaveAsStep ==
  ASSUME WInv, NEW contents, NEW file \in DOMAIN files \ {".config.old", "auto.conf"},
         SaveAs(file, contents)
  PROVE  WInv'
<1>1. /\ job.step = "none" /\ tool' \notin {"none", "build"}
      /\ job' = Writing(file, contents) /\ UNCHANGED <<files, dep, saved, cuts>>
  BY DEF SaveAs, Quiet
<1> QED BY <1>1, WritingStarts

\* menuconfig begins and ends between two jobs.
LEMMA MenuconfigStep ==
  ASSUME WInv, StartMenuconfig \/ EndMenuconfig
  PROVE  WInv'
<1> USE DEF WInv
<1>1. /\ job.step = "none" /\ tool' # "build"
      /\ UNCHANGED <<files, job, dep, saved, cuts>>
  BY DEF JobOK, StartMenuconfig, EndMenuconfig, Quiet
<1>2. JobOK' /\ DepOK' /\ FilesOK' /\ BuildInv' /\ CopyInv'
  BY <1>1 DEF JobOK, DepOK, FilesOK, BuildInv, CopyInv, WritingConfig, Defined, IsN
<1>3. RecordInv'
  BY <1>1 DEF RecordInv, RecordGone, ToldOld, ToldNew, Told, OldVal, Defined, IsN
<1> QED BY <1>2, <1>3

LEMMA StartBuildStep ==
  ASSUME WInv, NEW contents, NEW new, NEW order,
         StartBuild(contents, new, order), TellsTheBuild(contents, new, order)
  PROVE  WInv'
<1> USE DEF WInv
<1>1. /\ job.step = "none" /\ tool' = "build" /\ UNCHANGED <<files, dep, saved, cuts>>
      /\ DOMAIN job' = JobFields /\ job'.step = "touch" /\ job'.file = "auto.conf"
      /\ job'.new = new /\ job'.contents = contents /\ job'.rest = order
      /\ "auto.conf" \in DOMAIN files
  BY DEF StartBuild, JobOK, JobFields, FilesOK, Standard
<1>2. JobOK' /\ DepOK' /\ FilesOK' /\ CopyInv'
  BY <1>1 DEF JobOK, DepOK, FilesOK, CopyInv, WritingConfig, Steps
<1>3. BuildInv'
  BY <1>1 DEF BuildInv, TellsTheBuild, Defined, IsN
<1>4. RecordInv'
  <2>1. \A s : OldVal(s)' = OldVal(s) /\ \A v : Told(s, v)' = Told(s, v)
    BY <1>1 DEF OldVal, Told
  <2>2. (DOMAIN dep.used \ Elems(job.rest))' = {}
    BY <1>1 DEF TellsTheBuild
  <2> QED BY <1>1, <2>1, <2>2 DEF RecordInv, RecordGone, ToldOld, ToldNew
<1> QED BY <1>2, <1>3, <1>4

\* The next symbol is touched if it has changed; what was touched stays so.
LEMMA TouchNextStep == ASSUME WInv, TouchNext PROVE WInv'
<1> USE DEF WInv
<1> DEFINE h == Head(job.rest)
<1>1. /\ job.step = "touch" /\ UNCHANGED <<files, tool, saved, cuts>>
      /\ job.file = "auto.conf" /\ job.file \in DOMAIN files
      /\ DOMAIN job' = JobFields /\ job'.step = "touch" /\ job'.file = "auto.conf"
      /\ job'.new = job.new /\ job'.contents = job.contents /\ job'.rest = Tail(job.rest)
  BY DEF TouchNext, JobOK, JobFields
<1>2. /\ DOMAIN dep' = DOMAIN dep /\ dep'.bools = dep.bools /\ dep'.used = dep.used /\ dep'.torn = dep.torn
      /\ dep'.touched = IF Changed(h, job.new[h]) THEN dep.touched \cup {h} ELSE dep.touched
  BY DEF TouchNext, DepOK
<1>3. JobOK' /\ DepOK' /\ FilesOK' /\ CopyInv'
  BY <1>1, <1>2 DEF JobOK, DepOK, FilesOK, CopyInv, WritingConfig
<1>4. \A s, v : Defined(s, v)' = Defined(s, v) /\ OldVal(s)' = OldVal(s) /\ (Told(s, v) => Told(s, v)')
  BY <1>1, <1>2 DEF Defined, IsN, OldVal, Told
<1>5. BuildInv'
  <2>1. Tail(job.rest) \in Seq(DOMAIN job.new)
    BY <1>1, TailIsASeq DEF BuildInv, TouchNext
  <2> QED BY <1>1, <1>2, <1>4, <2>1 DEF BuildInv
<1>6. RecordInv'
  <2> SUFFICES ASSUME ~dep.torn PROVE ToldOld' /\ ToldNew(DOMAIN dep.used \ Elems(job.rest))'
                                      /\ \A s \in DOMAIN dep.used \cap dep.bools : OldVal(s) # "n"
    BY <1>1, <1>2, <1>4 DEF RecordInv
  <2>1. /\ ToldOld /\ ToldNew(DOMAIN dep.used \ Elems(job.rest))
        /\ \A s \in DOMAIN dep.used \cap dep.bools : OldVal(s) # "n"
    BY <1>1 DEF RecordInv, RecordGone
  <2>2. ToldOld'
    BY <1>2, <1>4, <2>1 DEF ToldOld
  <2>3. ASSUME NEW s \in DOMAIN dep.used, s \notin Elems(Tail(job.rest))
        PROVE  Told(s, Defined(s, job.new[s]))'
    <3>1. CASE s \notin Elems(job.rest)
      BY <1>1, <1>4, <2>1, <3>1 DEF ToldNew
    <3>2. CASE s = h
      <4>1. CASE Changed(h, job.new[h])
        BY <1>2, <3>2, <4>1 DEF Told
      <4>2. CASE ~Changed(h, job.new[h])
        <5>1. OldVal(s) = Defined(s, job.new[s])
          BY <1>1, <2>1, <3>2, <4>2, UnchangedIsDefined DEF BuildInv
        <5> QED BY <1>1, <1>4, <2>1, <5>1 DEF ToldOld
      <4> QED BY <4>1, <4>2
    <3>3. s \in Elems(job.rest) => s = h
      BY <1>1, <2>3, HeadOrTail DEF TouchNext, BuildInv
    <3> QED BY <3>1, <3>2, <3>3
  <2> QED BY <1>1, <1>2, <2>1, <2>2, <2>3 DEF ToldNew
<1> QED BY <1>3, <1>5, <1>6

LEMMA BuildStep == ASSUME WInv, Build PROVE WInv'
<1> USE DEF WInv
<1>1. /\ job.step = "build" /\ job.file = "auto.conf" /\ job' = NoJob /\ tool' = "none"
      /\ UNCHANGED <<files, saved, cuts>>
  BY DEF Build, JobOK
<1>2. /\ DOMAIN dep' = DOMAIN dep /\ dep'.bools = dep.bools /\ dep'.torn = dep.torn /\ dep'.touched = {}
      /\ dep'.used = [s \in DOMAIN dep.used |->
                        IF s \in dep.touched THEN Defined(s, job.new[s]) ELSE dep.used[s]]
  BY DEF Build, DepOK
<1>3. JobOK' /\ DepOK' /\ FilesOK' /\ BuildInv' /\ CopyInv'
  BY <1>1, <1>2, NoJobFields DEF JobOK, DepOK, FilesOK, BuildInv, CopyInv, WritingConfig, Steps
<1>4. \A s : OldVal(s)' = OldVal(s)
  BY <1>1 DEF OldVal
<1>5. ASSUME ~dep.torn, NEW s \in DOMAIN dep.used
      PROVE  /\ dep'.used[s] = OldVal(s)
             /\ s \in dep.bools => OldVal(s) # "n"
  <2>1. /\ OldVal(s) = Defined(s, job.new[s]) /\ Told(s, Defined(s, job.new[s]))
        /\ s \in dep.bools => OldVal(s) # "n"
    BY <1>1, <1>5 DEF RecordInv, RecordGone, ToldNew
  <2> QED BY <1>2, <2>1 DEF Told
<1>6. RecordInv'
  BY <1>1, <1>2, <1>4, <1>5, NoJobFields DEF RecordInv, RecordGone, ToldOld, Told
<1> QED BY <1>3, <1>6

\* A kill before auto.conf is truncated leaves what the next build needs; after
\* that, the record is torn.
LEMMA KillStep == ASSUME WInv, Kill PROVE WInv'
<1> USE DEF WInv
<1>1. /\ job' = NoJob /\ tool' = "none" /\ saved' = saved
      /\ DOMAIN files' = DOMAIN files
      /\ \A f \in DOMAIN files : (f = job.file /\ job.step = "write") \/ files'[f] = files[f]
      /\ cuts' = IF WritingConfig THEN cuts + 1 ELSE cuts
  BY DEF Kill, WritingConfig
<1>2. /\ DOMAIN dep' = DOMAIN dep /\ dep'.bools = dep.bools /\ dep'.touched = dep.touched
      /\ dep'.used = dep.used /\ (dep'.torn <=> dep.torn \/ RecordGone)
  BY DEF Kill, DepOK, RecordGone
<1>3. Standard \subseteq DOMAIN files /\ (job.step = "write" => job.file # ".config.old")
  BY DEF FilesOK, JobOK
<1>4. JobOK' /\ DepOK' /\ FilesOK' /\ BuildInv'
  BY <1>1, <1>2, NoJobFields DEF JobOK, DepOK, FilesOK, BuildInv, Steps
<1>5. CopyInv'
  <2>1. ~WritingConfig' /\ files'[".config.old"] = files[".config.old"] /\ cuts \in Nat
    BY <1>1, <1>3, NoJobFields DEF WritingConfig, Standard, CopyInv
  <2>2. CASE WritingConfig
    BY <1>1, <2>1, <2>2 DEF CopyInv
  <2>3. CASE ~WritingConfig
    <3>1. files'[".config"] = files[".config"]
      BY <1>1, <1>3, <2>3 DEF WritingConfig, Standard
    <3> QED BY <1>1, <2>1, <2>3, <3>1 DEF CopyInv
  <2> QED BY <2>2, <2>3
<1>6. RecordInv'
  <2> SUFFICES ASSUME ~dep.torn, ~RecordGone
               PROVE  ToldOld' /\ \A s \in DOMAIN dep.used \cap dep.bools : OldVal(s)' # "n"
    BY <1>1, <1>2, NoJobFields DEF RecordInv
  <2>1. \A s : OldVal(s)' = OldVal(s)
    BY <1>1, <1>3 DEF OldVal, Standard, RecordGone
  <2> QED BY <1>2, <2>1 DEF RecordInv, ToldOld, Told
<1> QED BY <1>4, <1>5, <1>6
-----------------------------------------------------------------------------
LEMMA WritesStepInv == WInv /\ [WritesNext]_writesVars => WInv'
<1> SUFFICES ASSUME WInv, [WritesNext]_writesVars PROVE WInv'
  OBVIOUS
<1>1. CASE WriteNothing \/ SaveOld \/ OpenForWriting \/ WriteContents
  BY <1>1, WriteNothingStep, SaveOldStep, OpenStep, WriteContentsStep
<1>2. ".config" \in DOMAIN files \ {".config.old", "auto.conf"}
  BY DEF WInv, FilesOK, Standard
<1>3. CASE StartWriting("defconfig", ".config", job'.contents) \/ SaveAs(".config", job'.contents)
  BY <1>2, <1>3, StartWritingStep, SaveAsStep
<1>4. ASSUME NEW f \in DOMAIN files \ Standard,
             StartWriting("savedefconfig", f, job'.contents) \/ SaveAs(f, job'.contents)
      PROVE  WInv'
  BY <1>4, StartWritingStep, SaveAsStep DEF Standard
<1>5. CASE StartMenuconfig \/ EndMenuconfig
  BY <1>5, MenuconfigStep
<1>6. CASE /\ StartBuild(job'.contents, job'.new, job'.rest)
           /\ TellsTheBuild(job'.contents, job'.new, job'.rest)
  BY <1>6, StartBuildStep
<1>7. CASE TouchNext \/ WriteOldVals \/ Build \/ Kill
  BY <1>7, TouchNextStep, WriteOldValsStep, BuildStep, KillStep
<1>8. CASE UNCHANGED writesVars
  BY <1>8 DEF writesVars, WInv, JobOK, DepOK, FilesOK, CopyInv, WritingConfig, RecordInv, RecordGone,
              ToldOld, ToldNew, Told, OldVal, BuildInv, Defined, IsN
<1> QED BY <1>1, <1>3, <1>4, <1>5, <1>6, <1>7, <1>8 DEF WritesNext

LEMMA WritesInvariant == WritesSpec => []WInv
BY WritesInitInv, WritesStepInv, PTL DEF WritesSpec

\* However often whatever tools write and are killed: as long as writing .config
\* is not cut off twice in a row, the last configuration is there.
THEOREM OneKillLosesNothing == WritesSpec => []SavedIsKept
<1>1. WInv => SavedIsKept
  BY DEF WInv, CopyInv, WritingConfig, SavedIsKept, Quiet
<1> QED BY <1>1, WritesInvariant, PTL

\* Whatever values the builds are configured with, and wherever they are killed:
\* none uses a value that is not the configured one.
THEOREM BuildsUseNewValues == WritesSpec => []BuildsAreCurrent
<1>1. WInv => BuildsAreCurrent
  BY DEF WInv, JobOK, RecordInv, ToldNew, Told, BuildsAreCurrent
<1> QED BY <1>1, WritesInvariant, PTL
-----------------------------------------------------------------------------
(***************************************************************************)
(* MenuWindow.                                                             *)
(***************************************************************************)
UiFields == {"cur", "shown", "sel", "scroll", "rows", "show_all", "height",
             "filename", "minconf", "changed", "mode"}

\* The globals without the scroll position, and with a selected entry in the window.
Placed(u) ==
  /\ DOMAIN u = UiFields /\ u.shown \in Seq(Nat) /\ u.rows \in Seq(Nat)
  /\ u.height \in Nat \ {0} /\ u.sel \in 0..Len(u.shown) - 1
Framed(u) == Placed(u) /\ u.scroll \in Nat /\ u.sel - u.scroll \in 0..u.height - 1

FrameInv == Running => Framed(ui)

\* Scroll positions, as numbers.
LEMMA CenteredRow ==
  ASSUME NEW n \in Nat, NEW h \in Nat \ {0}, NEW sel \in 0..n - 1,
         NEW wanted, wanted = AtLeast0(sel - h \div 2), NEW lim, lim = AtLeast0(n - h),
         NEW scroll, scroll = IF wanted < lim THEN wanted ELSE lim
  PROVE  scroll \in Nat /\ sel - scroll \in 0..h - 1
<1>1. h \div 2 \in 0..h - 1
  OBVIOUS
<1>2. wanted \in Nat /\ sel - wanted \in 0..h - 1
  BY <1>1 DEF AtLeast0
<1>3. lim \in Nat /\ sel - lim <= h - 1
  BY DEF AtLeast0
<1> QED BY <1>2, <1>3
LEMMA ResizedRow ==
  ASSUME NEW sel \in Nat, NEW old \in Nat, old <= sel, NEW h \in Nat \ {0},
         NEW scroll, scroll = IF sel - old >= h THEN sel - h + 1 ELSE old
  PROVE  scroll \in Nat /\ sel - scroll \in 0..h - 1
OBVIOUS
LEMMA KeptRow ==
  ASSUME NEW sel \in Nat, NEW h \in Nat \ {0}, NEW row \in Nat,
         NEW scroll, scroll = AtLeast0(sel - (IF row < h - 1 THEN row ELSE h - 1))
  PROVE  scroll \in Nat /\ sel - scroll \in 0..h - 1
BY DEF AtLeast0

LEMMA LastAndRest ==
  ASSUME NEW rows \in Seq(Nat), rows # <<>>
  PROVE  rows[Len(rows)] \in Nat /\ SubSeq(rows, 1, Len(rows) - 1) \in Seq(Nat)
<1>1. Len(rows) \in Nat \ {0} /\ \A i \in 1..Len(rows) : rows[i] \in Nat
  OBVIOUS
<1>2. SubSeq(rows, 1, Len(rows) - 1) \in Seq(Nat)
  BY <1>1
<1> QED BY <1>1, <1>2

LEMMA IndexInList ==
  ASSUME NEW ns \in Seq(Nat), NEW n \in Elems(ns)
  PROVE  Index(ns, n) \in 0..Len(ns) - 1
<1>1. \E p \in DOMAIN ns : ns[p] = n
  BY DEF Elems
<1>2. Index(ns, n) + 1 \in DOMAIN ns
  BY <1>1 DEF Index
<1>3. DOMAIN ns = 1..Len(ns) /\ Len(ns) \in Nat
  OBVIOUS
<1> HIDE DEF Index
<1>4. \A i : i + 1 \in 1..Len(ns) /\ i \in Int => i \in 0..Len(ns) - 1
  BY <1>3
<1>5. Index(ns, n) \in Int
  BY <1>1 DEF Index
<1> QED BY <1>2, <1>3, <1>4, <1>5

LEMMA CenteredIsFramed == ASSUME NEW u, Placed(u) PROVE Framed(Centered(u))
<1> DEFINE c == Centered(u)
           wanted == AtLeast0(u.sel - u.height \div 2)
           lim == MaxScroll(u)
<1>1. /\ DOMAIN c = UiFields /\ c.shown = u.shown /\ c.rows = u.rows /\ c.height = u.height /\ c.sel = u.sel
      /\ c.scroll = IF wanted < lim THEN wanted ELSE lim
  BY DEF Centered, Placed, UiFields
<1>2. u.height \in Nat \ {0} /\ u.sel \in 0..Len(u.shown) - 1 /\ Len(u.shown) \in Nat
  BY DEF Placed
<1>3. lim = AtLeast0(Len(u.shown) - u.height)
  BY DEF MaxScroll
<1>4. c.scroll \in Nat /\ u.sel - c.scroll \in 0..u.height - 1
  <2> HIDE DEF wanted, lim, c
  <2> QED BY <1>1, <1>2, <1>3, CenteredRow DEF wanted
<1>5. Placed(c)
  BY <1>1 DEF Placed
<1> QED BY <1>1, <1>4, <1>5 DEF Framed

LEMMA ResizedIsFramed ==
  ASSUME NEW u, Framed(u), NEW h \in Nat \ {0}
  PROVE  Framed(Resized(u, h))
<1> DEFINE r == Resized(u, h)
<1>1. /\ DOMAIN r = UiFields /\ r.shown = u.shown /\ r.rows = u.rows /\ r.height = h /\ r.sel = u.sel
      /\ r.scroll = IF u.sel - u.scroll >= h THEN u.sel - h + 1 ELSE u.scroll
  BY DEF Resized, Framed, Placed, UiFields
<1>2. Placed(r)
  BY <1>1 DEF Framed, Placed
<1>3. r.scroll \in Nat /\ r.sel - r.scroll \in 0..h - 1
  <2>1. u.sel \in Nat /\ u.scroll \in Nat /\ u.scroll <= u.sel
    BY DEF Framed, Placed
  <2> HIDE DEF r
  <2> QED BY <1>1, <2>1, ResizedRow
<1> QED BY <1>1, <1>2, <1>3 DEF Framed

\* The entry stays in its row, unless there are not enough before it.
LEMMA KeptIsFramed ==
  ASSUME NEW u, Framed(u), NEW new \in Seq(Nat), NEW sel \in 0..Len(new) - 1
  PROVE  Framed(Kept(u, new, sel))
<1> DEFINE k == Kept(u, new, sel)
<1>1. /\ DOMAIN k = UiFields /\ k.shown = new /\ k.rows = u.rows /\ k.height = u.height /\ k.sel = sel
      /\ k.scroll = AtLeast0(sel - (u.sel - u.scroll))
  BY DEF Kept, Framed, Placed, UiFields
<1>2. Placed(k)
  BY <1>1 DEF Framed, Placed
<1>3. k.scroll \in Nat /\ k.sel - k.scroll \in 0..u.height - 1
  <2> DEFINE row == u.sel - u.scroll
  <2>1. row \in 0..u.height - 1 /\ u.height \in Nat
    BY DEF Framed, Placed
  <2>2. k.sel = sel /\ k.scroll = AtLeast0(sel - row) /\ sel \in Nat
    BY <1>1
  <2> HIDE DEF row, k
  <2> QED BY <2>1, <2>2 DEF AtLeast0
<1> QED BY <1>1, <1>2, <1>3 DEF Framed

\* The menu above: the menu that is left is selected, in the row it was entered from.
LEMMA LeftIsFramed ==
  ASSUME NEW u, Framed(u), NEW parent, NEW shown \in Seq(Nat), u.cur \in Elems(shown)
  PROVE  Framed(LeftTo(u, parent, shown))
<1> DEFINE b == BackTo(u, parent, shown)
           row == u.rows[Len(u.rows)]
           a == AtRow(b, row)
<1>1. /\ DOMAIN b = UiFields /\ b.shown = shown /\ b.rows = u.rows /\ b.height = u.height
      /\ b.sel = Index(shown, u.cur)
  BY DEF BackTo, Framed, Placed, UiFields
<1>2. Placed(b)
  BY <1>1, IndexInList DEF Framed, Placed
<1>3. CASE u.rows = <<>>
  BY <1>2, <1>3, CenteredIsFramed DEF LeftTo
<1>4. CASE u.rows # <<>>
  <2>1. row \in Nat /\ SubSeq(u.rows, 1, Len(u.rows) - 1) \in Seq(Nat)
    BY <1>4, LastAndRest DEF Framed, Placed
  <2>2. /\ DOMAIN a = UiFields /\ a.shown = shown /\ a.height = u.height /\ a.sel = b.sel
        /\ a.rows = SubSeq(u.rows, 1, Len(u.rows) - 1)
        /\ a.scroll = AtLeast0(b.sel - (IF row < u.height - 1 THEN row ELSE u.height - 1))
    BY <1>1 DEF AtRow, UiFields
  <2>3. Placed(a)
    BY <1>1, <1>2, <2>1, <2>2 DEF Placed
  <2>4. a.scroll \in Nat /\ a.sel - a.scroll \in 0..a.height - 1
    <3>1. b.sel \in Nat /\ u.height \in Nat \ {0}
      BY <1>1, <1>2 DEF Placed
    <3> HIDE DEF a, row
    <3> QED BY <2>1, <2>2, <3>1, KeptRow
  <2> QED BY <1>4, <2>3, <2>4 DEF LeftTo, Framed
<1> QED BY <1>3, <1>4

\* Arrow keys, as numbers.
LEMMA NextRow ==
  ASSUME NEW n \in Nat, NEW h \in Nat \ {0}, NEW sel \in 0..n - 2, NEW off \in Nat,
         NEW old \in Nat, sel - old \in 0..h - 1, NEW lim, lim = AtLeast0(n - h), NEW scroll,
         scroll = IF sel + 1 >= old + h - off /\ old < lim THEN old + 1 ELSE old
  PROVE  scroll \in Nat /\ sel + 1 - scroll \in 0..h - 1
<1>1. CASE n - h < 0
  BY <1>1 DEF AtLeast0
<1>2. CASE n - h >= 0
  BY <1>2 DEF AtLeast0
<1> QED BY <1>1, <1>2
LEMMA PrevRow ==
  ASSUME NEW h \in Nat \ {0}, NEW sel \in Nat \ {0}, NEW off \in Nat,
         NEW old \in Nat, sel - old \in 0..h - 1, NEW scroll,
         scroll = IF sel - 1 < old + off THEN AtLeast0(old - 1) ELSE old
  PROVE  scroll \in Nat /\ sel - 1 - scroll \in 0..h - 1
<1>1. CASE old = 0
  BY <1>1 DEF AtLeast0
<1>2. CASE old # 0
  BY <1>2 DEF AtLeast0
<1> QED BY <1>1, <1>2
LEMMA LastRow ==
  ASSUME NEW n \in Nat \ {0}, NEW h \in Nat \ {0}, NEW scroll, scroll = AtLeast0(n - h)
  PROVE  scroll \in Nat /\ n - 1 - scroll \in 0..h - 1
BY DEF AtLeast0

LEMMA MovedIsFramed ==
  ASSUME NEW u, Framed(u), NEW sel \in 0..Len(u.shown) - 1, NEW scroll \in Nat,
         sel - scroll \in 0..u.height - 1
  PROVE  Framed([u EXCEPT !.sel = sel, !.scroll = scroll])
<1> DEFINE w == [u EXCEPT !.sel = sel, !.scroll = scroll]
<1>1. /\ DOMAIN w = UiFields /\ w.shown = u.shown /\ w.rows = u.rows /\ w.height = u.height
      /\ w.sel = sel /\ w.scroll = scroll
  BY DEF Framed, Placed, UiFields
<1> HIDE DEF w
<1> QED BY <1>1 DEF Framed, Placed

LEMMA ArrowsKeepFrame ==
  ASSUME FrameInv, SelectNext \/ SelectPrev \/ SelectLast \/ SelectFirst
  PROVE  Framed(ui')
<1>1. Running /\ Framed(ui)
  BY DEF FrameInv, SelectNext, SelectPrev, SelectLast, SelectFirst
<1>2. /\ ui.height \in Nat \ {0} /\ ui.sel \in 0..Len(ui.shown) - 1 /\ Len(ui.shown) \in Nat
      /\ ui.scroll \in Nat /\ ui.sel - ui.scroll \in 0..ui.height - 1
  BY <1>1 DEF Framed, Placed
<1>3. CASE SelectNext
  <2> DEFINE lim == MaxScroll(ui)
             scroll == IF ui.sel + 1 >= ui.scroll + ui.height - ScrollOffset /\ ui.scroll < lim
                       THEN ui.scroll + 1 ELSE ui.scroll
  <2>1. ui' = [ui EXCEPT !.sel = ui.sel + 1, !.scroll = scroll] /\ ui.sel < Len(ui.shown) - 1
    BY <1>3 DEF SelectNext
  <2>2. ui.sel \in 0..Len(ui.shown) - 2 /\ ui.sel + 1 \in 0..Len(ui.shown) - 1
    BY <1>2, <2>1
  <2>3. lim = AtLeast0(Len(ui.shown) - ui.height)
    BY DEF MaxScroll
  <2>4. scroll \in Nat /\ ui.sel + 1 - scroll \in 0..ui.height - 1
    <3> HIDE DEF lim
    <3> QED BY <1>2, <2>2, <2>3, NextRow, HeightsAssumption DEF HeightsAssumption
  <2> HIDE DEF scroll
  <2>5. ASSUME NEW sel, sel = ui.sel + 1 PROVE Framed([ui EXCEPT !.sel = sel, !.scroll = scroll])
    <3>1. sel \in 0..Len(ui.shown) - 1 /\ sel - scroll \in 0..ui.height - 1
      BY <2>2, <2>4, <2>5
    <3> QED BY <1>1, <2>4, <3>1, MovedIsFramed
  <2> QED BY <2>1, <2>5
<1>4. CASE SelectPrev
  <2> DEFINE scroll == IF ui.sel - 1 < ui.scroll + ScrollOffset
                       THEN AtLeast0(ui.scroll - 1) ELSE ui.scroll
  <2>1. ui' = [ui EXCEPT !.sel = ui.sel - 1, !.scroll = scroll] /\ ui.sel > 0
    BY <1>4 DEF SelectPrev
  <2>2. ui.sel \in Nat \ {0} /\ ui.sel - 1 \in 0..Len(ui.shown) - 1
    BY <1>2, <2>1
  <2>3. scroll \in Nat /\ ui.sel - 1 - scroll \in 0..ui.height - 1
    BY <1>2, <2>2, PrevRow, HeightsAssumption DEF HeightsAssumption
  <2> HIDE DEF scroll
  <2> QED BY <1>1, <2>1, <2>2, <2>3, MovedIsFramed
<1>5. CASE SelectLast
  <2> DEFINE last == Len(ui.shown) - 1
             scroll == MaxScroll(ui)
  <2>1. ui' = [ui EXCEPT !.sel = last, !.scroll = scroll]
    BY <1>5 DEF SelectLast
  <2>2. Len(ui.shown) \in Nat \ {0} /\ last \in 0..Len(ui.shown) - 1
    BY <1>2
  <2>3. scroll \in Nat /\ last - scroll \in 0..ui.height - 1
    BY <1>2, <2>2, LastRow DEF MaxScroll
  <2> HIDE DEF scroll, last
  <2> QED BY <1>1, <2>1, <2>2, <2>3, MovedIsFramed
<1>6. CASE SelectFirst
  <2>1. ui' = [ui EXCEPT !.sel = 0, !.scroll = 0]
    BY <1>6 DEF SelectFirst
  <2>2. 0 \in 0..Len(ui.shown) - 1 /\ 0 \in Nat /\ 0 - 0 \in 0..ui.height - 1
    BY <1>2
  <2> QED BY <1>1, <2>1, <2>2, MovedIsFramed
<1> QED BY <1>3, <1>4, <1>5, <1>6

LEMMA OpenIsFramed == ASSUME NEW u, Open(u), u.mode = "running" PROVE Framed(u)
<1> DEFINE o == Opened(u.shown, u.height, u.show_all, u.changed)
<1>1. /\ DOMAIN o = UiFields /\ o.shown = u.shown /\ o.rows = <<>> /\ o.height = u.height
      /\ o.sel = 0 /\ o.scroll = 0 /\ (o.mode = "running" => u.shown # <<>>)
  BY DEF Opened, UiFields
<1>2. u = o /\ u.height \in Nat \ {0} /\ u.shown \in Seq(Nat)
  BY HeightsAssumption DEF Open, HeightsAssumption
<1>3. u.shown # <<>>
  BY <1>1, <1>2
<1>4. Len(u.shown) \in Nat \ {0}
  BY <1>2, <1>3
<1>5. <<>> \in Seq(Nat) /\ 0 \in 0..Len(u.shown) - 1 /\ 0 - 0 \in 0..u.height - 1
  BY <1>2, <1>4
<1>6. /\ DOMAIN u = UiFields /\ u.rows = <<>> /\ u.sel = 0 /\ u.scroll = 0
  <2> HIDE DEF o
  <2> QED BY <1>1, <1>2
<1> QED BY <1>2, <1>5, <1>6 DEF Framed, Placed

LEMMA EnteredIsFramed == ASSUME FrameInv, EnterMenu PROVE Framed(ui')
<1> DEFINE inside == Inside(ui, ui'.cur, ui'.shown)
           placed == [inside EXCEPT !.sel = ui'.sel]
<1>1. Framed(ui) /\ Selectable(ui') /\ (ui' = inside \/ ui' = Centered(placed))
  BY DEF FrameInv, EnterMenu
<1>2. /\ DOMAIN inside = UiFields /\ inside.shown = ui'.shown /\ inside.height = ui.height
      /\ inside.sel = 0 /\ inside.scroll = 0 /\ inside.rows = Append(ui.rows, ui.sel - ui.scroll)
  BY <1>1 DEF Inside, Framed, Placed, UiFields
<1>3. ui.sel - ui.scroll \in Nat /\ Append(ui.rows, ui.sel - ui.scroll) \in Seq(Nat)
  BY <1>1 DEF Framed, Placed
<1>4. /\ ui'.shown \in Seq(Nat) /\ ui'.sel \in 0..Len(ui'.shown) - 1 /\ Len(ui'.shown) \in Nat
      /\ ui.height \in Nat \ {0}
  BY <1>1 DEF Selectable, Framed, Placed
<1>5. 0 \in 0..Len(ui'.shown) - 1 /\ 0 - 0 \in 0..ui.height - 1
  BY <1>4
<1>6. CASE ui' = inside
  <2>1. Framed(inside)
    <3> HIDE DEF inside
    <3> QED BY <1>2, <1>3, <1>4, <1>5 DEF Framed, Placed
  <2> QED BY <1>6, <2>1
<1>7. CASE ui' = Centered(placed)
  <2>1. /\ DOMAIN placed = UiFields /\ placed.shown = ui'.shown /\ placed.height = ui.height
        /\ placed.sel = ui'.sel /\ placed.rows = inside.rows
    <3> HIDE DEF inside
    <3> QED BY <1>2 DEF UiFields
  <2>2. Placed(placed)
    <3> HIDE DEF placed, inside
    <3> QED BY <1>2, <1>3, <1>4, <2>1 DEF Placed
  <2> QED BY <1>7, <2>2, CenteredIsFramed
<1> QED BY <1>1, <1>6, <1>7

\* A flag or a file name does not move the window.
LEMMA FlagsKeepFrame ==
  ASSUME NEW u, Framed(u), NEW w, DOMAIN w = DOMAIN u,
         \A f \in {"shown", "rows", "height", "sel", "scroll"} : w[f] = u[f]
  PROVE  Framed(w)
<1>1. w.shown = u.shown /\ w.rows = u.rows /\ w.height = u.height /\ w.sel = u.sel /\ w.scroll = u.scroll
  OBVIOUS
<1> QED BY <1>1 DEF Framed, Placed

LEMMA NotedIsFramed ==
  ASSUME Framed(ui)
  PROVE  /\ Framed(Noted) /\ Noted.mode = ui.mode /\ Noted.cur = ui.cur
         /\ \A mode : Framed([Noted EXCEPT !.mode = mode])
<1>1. DOMAIN ui = UiFields
  BY DEF Framed, Placed
<1>2. /\ DOMAIN Noted = DOMAIN ui /\ Noted.mode = ui.mode /\ Noted.cur = ui.cur
      /\ \A f \in {"shown", "rows", "height", "sel", "scroll"} : Noted[f] = ui[f]
  BY <1>1 DEF Noted, UiFields
<1>3. Framed(Noted)
  BY <1>2, FlagsKeepFrame
<1>4. ASSUME NEW mode PROVE Framed([Noted EXCEPT !.mode = mode])
  <2> DEFINE w == [Noted EXCEPT !.mode = mode]
  <2>1. DOMAIN w = DOMAIN Noted
        /\ \A f \in {"shown", "rows", "height", "sel", "scroll"} : w[f] = Noted[f]
    BY <1>1, <1>2 DEF UiFields
  <2>2. Framed(w)
    <3> HIDE DEF w
    <3> QED BY <1>3, <2>1, FlagsKeepFrame
  <2> QED BY <2>2
<1> QED BY <1>2, <1>3, <1>4

\* The closest entry that is still shown is one of those shown now.
LEMMA GreatestOfMany ==
  ASSUME NEW S \in SUBSET Nat, IsFiniteSet(S), S # {}
  PROVE  \E r \in S : \A s \in S : s <= r
<1> DEFINE Above(r) == {s \in S : r < s}
           T == {Above(r) : r \in S}
<1>1. T \subseteq FiniteSubsetsOf(S) /\ T # {}
  <2>1. \A r \in S : Above(r) \in SUBSET S /\ IsFiniteSet(Above(r))
    BY FS_Subset
  <2> QED BY <2>1 DEF FiniteSubsetsOf
<1>2. IsWellFoundedOn(StrictSubsetOrdering(S), FiniteSubsetsOf(S))
  BY FS_StrictSubsetOrderingWellFounded
<1>3. PICK X \in T : \A Y \in T : <<Y, X>> \notin StrictSubsetOrdering(S)
  <2> HIDE DEF T
  <2> QED BY <1>1, <1>2, WFMin
<1>4. PICK r \in S : X = Above(r)
  OBVIOUS
<1>5. ASSUME NEW s \in S, r < s PROVE FALSE
  <2>1. /\ \A t \in S : s < t => r < t
        /\ s \in Above(r) /\ s \notin Above(s)
    BY <1>5
  <2>2. <<Above(s), Above(r)>> \in StrictSubsetOrdering(S)
    <3>1. Above(s) \subseteq Above(r) /\ Above(r) \subseteq S
      BY <2>1
    <3> QED BY <2>1, <3>1 DEF StrictSubsetOrdering
  <2> QED BY <1>3, <1>4, <2>2
<1> QED BY <1>5

LEMMA ClosestIsShown ==
  ASSUME NEW old \in Seq(Nat), NEW sel \in 0..Len(old) - 1, NEW new \in Seq(Nat)
  PROVE  Closest(old, sel, new) \subseteq Elems(new)
<1> DEFINE before == {p \in 1..sel + 1 : old[p] \in Elems(new)}
           after == {p \in sel + 2..Len(old) : old[p] \in Elems(new)}
<1>1. CASE before = {}
  <2>1. Closest(old, sel, new) = {old[p] : p \in {p \in after : \A q \in after : p <= q}}
    BY <1>1 DEF Closest
  <2> QED BY <2>1
<1>2. CASE before # {}
  <2>1. before \in SUBSET Nat /\ IsFiniteSet(before)
    <3>1. 1..sel + 1 \subseteq Nat /\ IsFiniteSet(1..sel + 1)
      BY FS_Interval
    <3> QED BY <3>1, FS_Subset
  <2>2. \E p \in before : \A q \in before : q <= p
    <3> HIDE DEF before
    <3> QED BY <1>2, <2>1, GreatestOfMany
  <2> DEFINE p0 == CHOOSE p \in before : \A q \in before : q <= p
  <2>3. p0 \in before
    <3> HIDE DEF before
    <3> QED BY <2>2
  <2>4. Closest(old, sel, new) = {old[p0]}
    BY <1>2 DEF Closest
  <2> HIDE DEF p0
  <2> QED BY <2>3, <2>4
<1> QED BY <1>1, <1>2

LEMMA ToggledIsFramed ==
  ASSUME NEW u, Framed(u), NEW new \in Seq(Nat)
  PROVE  Framed(ToggledWith(u, new))
<1> DEFINE close == Closest(u.shown, u.sel, new)
           one == CHOOSE n \in close : TRUE
           other == [u EXCEPT !.show_all = ~@]
           same == [u EXCEPT !.show_all = TRUE]
<1>1. close \subseteq Elems(new)
  BY ClosestIsShown DEF Framed, Placed
<1>2. Framed(other) /\ Framed(same)
  <2>1. DOMAIN u = UiFields
    BY DEF Framed, Placed
  <2>2. \A f \in {"shown", "rows", "height", "sel", "scroll"} : other[f] = u[f] /\ same[f] = u[f]
    BY <2>1 DEF UiFields
  <2>3. DOMAIN other = DOMAIN u /\ DOMAIN same = DOMAIN u
    OBVIOUS
  <2> HIDE DEF other, same
  <2> QED BY <2>2, <2>3, FlagsKeepFrame
<1>3. ToggledWith(u, new) = IF close = {} THEN same ELSE Kept(other, new, Index(new, one))
  BY DEF ToggledWith, ToggledTo
<1>4. close # {} => one \in Elems(new)
  <2> HIDE DEF close
  <2> QED BY <1>1
<1> HIDE DEF close, one, other, same
<1>5. close # {} => Framed(Kept(other, new, Index(new, one)))
  BY <1>2, <1>4, IndexInList, KeptIsFramed
<1> QED BY <1>2, <1>3, <1>5

LEMMA FrameInit == ui = NotStarted \/ Open(ui) => FrameInv
<1>1. ui = NotStarted => ~Running
  BY DEF NotStarted, Running
<1> QED BY <1>1, OpenIsFramed DEF FrameInv, Running

LEMMA FrameStep == FrameInv /\ [WindowNext]_ui => FrameInv'
<1> SUFFICES ASSUME FrameInv, [WindowNext]_ui, ui'.mode = "running"
             PROVE  Framed(ui')
  BY DEF FrameInv, Running, Framed, Placed
<1>1. CASE UNCHANGED ui
  BY <1>1 DEF FrameInv, Running
<1>2. CASE Start
  BY <1>2, OpenIsFramed DEF Start
<1>3. CASE Resize
  BY <1>3, ResizedIsFramed, HeightsAssumption DEF Resize, FrameInv, HeightsAssumption
<1>4. CASE SelectNext \/ SelectPrev \/ SelectLast \/ SelectFirst
  BY <1>4, ArrowsKeepFrame
<1>5. CASE EnterMenu
  BY <1>5, EnteredIsFramed
<1>6. CASE LeaveTo
  <2>1. Framed(ui) /\ ui'.shown \in Seq(Nat) /\ ui' = LeftTo(Noted, ui'.cur, ui'.shown)
    BY <1>6 DEF LeaveTo, FrameInv
  <2>2. Framed(Noted)
    BY <2>1, NotedIsFramed
  <2>3. CASE Noted.cur \notin Elems(ui'.shown)
    <3>1. ui' = [Noted EXCEPT !.mode = "leave"]
      BY <2>1, <2>3 DEF LeftTo
    <3> QED BY <2>1, <3>1, NotedIsFramed
  <2> QED BY <2>1, <2>2, <2>3, LeftIsFramed
<1>7. CASE Toggle
  BY <1>7, ToggledIsFramed DEF Toggle, FrameInv
<1>8. CASE Update
  <2>1. Framed(ui) /\ ui'.shown \in Seq(Nat) /\ ui' = UpdatedTo(Noted, ui'.shown)
    BY <1>8 DEF Update, FrameInv
  <2>2. Framed(Noted)
    BY <2>1, NotedIsFramed
  <2>3. CASE SelNode(Noted) \notin Elems(ui'.shown)
    <3>1. ui' = [Noted EXCEPT !.mode = "update"]
      BY <2>1, <2>3 DEF UpdatedTo
    <3> QED BY <2>1, <3>1, NotedIsFramed
  <2>4. CASE SelNode(Noted) \in Elems(ui'.shown)
    <3>1. ui' = Kept(Noted, ui'.shown, Index(ui'.shown, SelNode(Noted)))
      BY <2>1, <2>4 DEF UpdatedTo
    <3>2. Index(ui'.shown, SelNode(Noted)) \in 0..Len(ui'.shown) - 1
      BY <2>1, <2>4, IndexInList
    <3>3. Framed(Kept(Noted, ui'.shown, Index(ui'.shown, SelNode(Noted))))
      BY <2>1, <2>2, <3>2, KeptIsFramed
    <3> QED BY <3>1, <3>3
  <2> QED BY <2>3, <2>4
<1>9. CASE Jump
  <2> DEFINE there == [ui EXCEPT !.rows = <<>>, !.cur = ui'.cur, !.shown = ui'.shown,
                                 !.show_all = ui'.show_all, !.sel = ui'.sel]
  <2>1. /\ Framed(ui) /\ Selectable(ui') /\ ui'.height \in Nat \ {0}
        /\ ui' = Resized(Centered(there), ui'.height)
    BY <1>9, HeightsAssumption DEF Jump, FrameInv, HeightsAssumption
  <2>2. /\ DOMAIN there = UiFields /\ there.shown = ui'.shown /\ there.rows = <<>>
        /\ there.height = ui.height /\ there.sel = ui'.sel
    BY <2>1 DEF Framed, Placed, UiFields
  <2>3. <<>> \in Seq(Nat) /\ ui.height \in Nat \ {0}
    BY <2>1 DEF Framed, Placed
  <2> HIDE DEF there
  <2>4. Placed(there)
    BY <2>1, <2>2, <2>3 DEF Placed, Selectable
  <2>5. Framed(Resized(Centered(there), ui'.height))
    BY <2>1, <2>4, CenteredIsFramed, ResizedIsFramed
  <2> QED BY <2>1, <2>5
<1>10. CASE Note
  <2>1. Framed(ui) /\ ui' = [Noted EXCEPT !.mode = ui'.mode]
    BY <1>10 DEF Note, FrameInv
  <2> QED BY <2>1, NotedIsFramed
<1> QED BY <1>1, <1>2, <1>3, <1>4, <1>5, <1>6, <1>7, <1>8, <1>9, <1>10 DEF WindowNext

\* Whichever menus there are and whatever is shown of them: there is always a
\* selected entry, and it is within the window (menuconfig.py:1105, 1673).
THEOREM SelectionInWindow == WindowSpec => []InWindow
<1>1. FrameInv => InWindow
  BY DEF FrameInv, InWindow, Framed, Placed
<1> QED BY <1>1, FrameInit, FrameStep, PTL DEF WindowSpec
-----------------------------------------------------------------------------
(***************************************************************************)
(* KconfigCaches.                                                          *)
(***************************************************************************)
Complete(k, n) ==
  /\ IsRight(k, n) /\ (ReadBy(k, n) # {} => HasCaches(k, n[1]))
  /\ \A r \in ReadBy(k, n) : IsCached(k, r)
CacheInv(k) == Grounded(k) /\ \A n \in Nodes(k) : IsCached(k, n) => Complete(k, n)

LEMMA LeastOfMany ==
  ASSUME NEW S \in SUBSET Nat, S # {}
  PROVE  \E l \in S : \A s \in S : l <= s
<1>1. PICK a \in S : TRUE
  OBVIOUS
<1> DEFINE Below == {d \in 0..a : a - d \in S}
<1>2. Below \in SUBSET Nat /\ IsFiniteSet(Below) /\ 0 \in Below
  <2>1. a \in Nat /\ 0..a \subseteq Nat /\ IsFiniteSet(0..a) /\ 0 \in 0..a /\ a - 0 \in S
    BY <1>1, FS_Interval
  <2> QED BY <2>1, FS_Subset
<1>3. PICK d \in Below : \A e \in Below : e <= d
  <2> HIDE DEF Below
  <2> QED BY <1>2, GreatestOfMany
<1>4. ASSUME NEW s \in S PROVE a - d <= s
  <2>1. a \in Nat /\ s \in Nat /\ d \in Nat
    BY <1>1
  <2>2. CASE s <= a
    <3>1. a - s \in 0..a /\ a - (a - s) = s
      BY <2>1, <2>2
    <3>2. a - s <= d
      BY <1>3, <3>1
    <3> QED BY <2>1, <3>2
  <2> QED BY <2>1, <2>2
<1> QED BY <1>4

\* Of any set of values there is one whose calculation reads none of the set.
LEMMA FirstCalculated ==
  ASSUME NEW k, Grounded(k), NEW B \in SUBSET Nodes(k), B # {}
  PROVE  \E n \in B : \A r \in ReadBy(k, n) : r \in Nodes(k) \ B
<1> DEFINE D == {k.depth[n] : n \in B}
<1>1. D \in SUBSET Nat /\ D # {}
  BY DEF Grounded
<1>2. PICK l \in D : \A d \in D : l <= d
  <2> HIDE DEF D
  <2> QED BY <1>1, LeastOfMany
<1>3. PICK n \in B : l = k.depth[n]
  OBVIOUS
<1>4. ASSUME NEW r \in ReadBy(k, n) PROVE r \in Nodes(k) \ B
  <2>1. r \in Nodes(k) /\ k.depth[r] < k.depth[n] /\ k.depth[r] \in Nat /\ k.depth[n] \in Nat
    BY <1>3 DEF Grounded
  <2>2. r \in B => k.depth[n] <= k.depth[r]
    BY <1>2, <1>3
  <2> QED BY <2>1, <2>2
<1> QED BY <1>3, <1>4

\* What is calculated from right values is right.
LEMMA CalculatedIsComplete ==
  ASSUME NEW k, NEW j, CacheInv(k), Grounded(j), Calculates(k, j)
  PROVE  CacheInv(j)
<1>1. /\ Nodes(j) = Nodes(k) /\ \A n : Val(j, n) = Val(k, n) /\ ReadBy(j, n) = ReadBy(k, n)
      /\ \A n \in Nodes(k) : IsCached(k, n) => j.cache[n] = k.cache[n]
  BY DEF Calculates, Nodes, Val, ReadBy
<1>2. ASSUME NEW n \in Nodes(j), IsCached(j, n)
      PROVE  /\ ReadBy(j, n) # {} => HasCaches(j, n[1])
             /\ \A r \in ReadBy(j, n) : IsCached(j, r)
  <2>1. CASE j.cache[n] = k.cache[n]
    <3>1. Complete(k, n)
      BY <1>1, <1>2, <2>1 DEF CacheInv, IsCached
    <3>2. <<n[1], "vis">> \in Nodes(k) /\ \A r \in ReadBy(k, n) : r \in Nodes(k)
      BY <1>1 DEF CacheInv, Grounded
    <3> QED BY <1>1, <3>1, <3>2 DEF Complete, HasCaches, IsCached
  <2>2. CASE j.cache[n] # k.cache[n]
    BY <1>1, <2>2 DEF Calculates
  <2> QED BY <2>1, <2>2
<1> DEFINE Wrong == {n \in Nodes(j) : IsCached(j, n) /\ ~IsRight(j, n)}
<1>3. Wrong = {}
  <2> SUFFICES ASSUME Wrong # {} PROVE FALSE
    OBVIOUS
  <2>1. PICK n \in Wrong : \A r \in ReadBy(j, n) : r \in Nodes(j) \ Wrong
    <3> HIDE DEF Wrong
    <3>1. Wrong \in SUBSET Nodes(j)
      BY DEF Wrong
    <3> QED BY <3>1, FirstCalculated
  <2>2. \A r \in ReadBy(j, n) : IsRight(j, r)
    BY <1>2, <2>1
  <2>3. j.cache[n] # k.cache[n]
    <3>1. IsCached(k, n) => IsRight(k, n)
      BY <1>1, <2>1 DEF CacheInv, Complete
    <3> QED BY <1>1, <2>1, <3>1 DEF IsCached, IsRight
  <2>4. n \in Nodes(k) /\ \A r \in ReadBy(k, n) : IsRight(j, r)
    BY <1>1, <2>1, <2>2
  <2> QED BY <2>1, <2>3, <2>4 DEF Calculates
<1>4. \A n \in Nodes(j) : IsCached(j, n) => IsRight(j, n)
  BY <1>3
<1> QED BY <1>2, <1>4 DEF CacheInv, Complete

\* What stays cached was not read from an item that was invalidated: that item
\* is a dependency, and the flag of the item that stays would be set.
LEMMA KeptReadsKept ==
  ASSUME NEW k, CacheInv(k), NEW S \in SUBSET ItemsOf(k), ReachesAll(k, S),
         NEW n \in Nodes(k), IsCached(k, n), n[1] \notin S, NEW r \in ReadBy(k, n)
  PROVE  r \in Nodes(k) /\ IsCached(k, r) /\ r[1] \notin S /\ HasCaches(k, n[1])
<1>1. /\ n[1] \in ItemsOf(k) /\ r \in Nodes(k) /\ r[1] \in {n[1], k.modules} \cup k.deps[n[1]]
      /\ HasCaches(k, n[1]) /\ IsCached(k, r)
  BY DEF CacheInv, Complete, Grounded
<1>2. k.modules \notin S
  BY <1>1 DEF ReachesAll
<1>3. k.deps[n[1]] \cap S = {}
  BY <1>1, <1>2 DEF ReachesAll
<1> QED BY <1>1, <1>2, <1>3

LEMMA InvalidatedIsComplete ==
  ASSUME NEW k, NEW j, CacheInv(k), Grounded(j),
         NEW S \in SUBSET ItemsOf(k), Invalidates(k, j, S)
  PROVE  CacheInv(j)
<1>1. /\ Nodes(j) = Nodes(k) /\ ReachesAll(k, S)
      /\ \A n \in Nodes(k) : j.cache[n] = IF n[1] \in S THEN <<>> ELSE k.cache[n]
  BY DEF Invalidates
<1> DEFINE Stays == {n \in Nodes(k) : IsCached(j, n)}
           Moved == {n \in Stays : j.calc[n] # k.calc[n]}
<1>2. \A n \in Stays : n[1] \notin S /\ IsCached(k, n) /\ Complete(k, n) /\ j.cache[n] = k.cache[n]
  BY <1>1 DEF CacheInv, IsCached
<1>3. \A n \in Stays : \A r \in ReadBy(k, n) : r \in Stays /\ HasCaches(k, n[1])
  <2> SUFFICES ASSUME NEW n \in Stays, NEW r \in ReadBy(k, n)
               PROVE  r \in Stays /\ HasCaches(k, n[1])
    OBVIOUS
  <2>1. r \in Nodes(k) /\ IsCached(k, r) /\ r[1] \notin S /\ HasCaches(k, n[1])
    BY <1>1, <1>2, KeptReadsKept
  <2> QED BY <1>1, <2>1 DEF IsCached
<1>4. Moved = {}
  <2> SUFFICES ASSUME Moved # {} PROVE FALSE
    OBVIOUS
  <2>1. PICK n \in Moved : \A r \in ReadBy(k, n) : r \in Nodes(k) \ Moved
    <3>1. Moved \in SUBSET Nodes(k) /\ Grounded(k)
      BY DEF CacheInv
    <3> HIDE DEF Moved
    <3> QED BY <3>1, FirstCalculated
  <2>2. \A r \in ReadBy(k, n) : Val(j, r) = Val(k, r)
    BY <1>3, <2>1 DEF Val
  <2>3. n \in Nodes(k) /\ n[1] \notin S /\ (ReadBy(k, n) # {} => HasCaches(k, n[1]))
    BY <1>2, <2>1 DEF Complete
  <2> QED BY <2>1, <2>2, <2>3 DEF Invalidates
<1>5. \A n \in Stays : Val(j, n) = Val(k, n) /\ ReadBy(j, n) = ReadBy(k, n)
  BY <1>4 DEF Val, ReadBy
<1> HIDE DEF Moved
<1>6. ASSUME NEW n \in Nodes(j), IsCached(j, n) PROVE Complete(j, n)
  <2>1. n \in Stays
    BY <1>1, <1>6
  <2>2. IsRight(j, n)
    BY <1>2, <1>5, <2>1 DEF Complete, IsRight
  <2>3. \A r \in ReadBy(j, n) : IsCached(j, r)
    BY <1>3, <1>5, <2>1
  <2>4. ReadBy(j, n) # {} => HasCaches(j, n[1])
    <3> SUFFICES ASSUME ReadBy(j, n) # {} PROVE HasCaches(j, n[1])
      OBVIOUS
    <3>1. HasCaches(k, n[1]) /\ n[1] \notin S
      BY <1>2, <1>3, <1>5, <2>1
    <3>2. <<n[1], "vis">> \in Nodes(k) /\ <<n[1], "vis">>[1] = n[1]
      BY <2>1 DEF CacheInv, Grounded
    <3> QED BY <1>1, <3>1, <3>2 DEF HasCaches, IsCached
  <2> QED BY <2>2, <2>3, <2>4 DEF Complete
<1> QED BY <1>6 DEF CacheInv

LEMMA CachesComplete == CacheSpec => []CacheInv(config)
<1>1. CacheInit => CacheInv(config)
  BY DEF CacheInit, CacheInv
<1>2. CacheInv(config) /\ [CacheNext]_config => CacheInv(config)'
  <2> SUFFICES ASSUME CacheInv(config), CacheStep(config, config') PROVE CacheInv(config')
    BY DEF CacheNext, CacheInv, Grounded, Complete, Nodes, ItemsOf, ReadBy, IsCached, IsRight, Val, HasCaches
  <2> QED BY CalculatedIsComplete, InvalidatedIsComplete DEF CacheStep
<1> QED BY <1>1, <1>2, PTL DEF CacheSpec

\* Whatever is read and set, in whatever order: what is cached is what would be
\* calculated, though _rec_invalidate() stops at items without a visibility.
THEOREM CachedIsCalculated == CacheSpec => []CachesAreRight
<1>1. CacheInv(config) => CachesAreRight
  BY DEF CacheInv, Complete, CachesAreRight
<1> QED BY <1>1, CachesComplete, PTL

\* Why it may stop there: _cached_vis is set on every item that a cached value
\* was read from, and on its own.
THEOREM VisibilityIsTheFlag == CacheSpec => []FlagIsRight
<1>1. CacheInv(config) => FlagIsRight
  <2> SUFFICES ASSUME CacheInv(config), NEW n \in Nodes(config), IsCached(config, n),
                      ReadBy(config, n) # {}
               PROVE  /\ HasCaches(config, n[1])
                      /\ \A r \in ReadBy(config, n) :
                           /\ IsCached(config, r)
                           /\ ReadBy(config, r) # {} => HasCaches(config, r[1])
    BY DEF FlagIsRight
  <2>1. \A r \in ReadBy(config, n) : r \in Nodes(config) /\ IsCached(config, r)
    BY DEF CacheInv, Complete, Grounded
  <2> QED BY <2>1 DEF CacheInv, Complete
<1> QED BY <1>1, CachesComplete, PTL
\* Whatever is read and set, no cache is stale, and none is out of reach of the
\* next invalidation.
THEOREM CachesStaySound == CacheSpec => []CachesAreSound
  BY CachedIsCalculated, VisibilityIsTheFlag, PTL DEF CachesAreSound
=============================================================================
