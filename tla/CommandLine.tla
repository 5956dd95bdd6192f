---------------------------- MODULE CommandLine ----------------------------
(***************************************************************************)
(* The commands `push deb` and `rm deb` (internal/cli/push.go, remove.go)  *)
(* on an apt repository, one after the other, as an operator or a CI job   *)
(* runs them, and runs them again when they have failed.                   *)
(*                                                                         *)
(* A command checks its flags and its files, sets up the bucket's client   *)
(* and the signer, and then makes a publisher that it calls once for every *)
(* file or once for the removal.  A file on the disk is what it holds.     *)
(***************************************************************************)
EXTENDS AptPublisher, Sequences, SequencesExt

CONSTANTS
  Garbage,      \* the content of a file that is not a .deb
  MaxFiles,     \* bound: the arguments of one push
  MaxCommands   \* bound: commands run

ASSUME CommandAssumption == MaxFiles \in Nat /\ MaxCommands \in Nat

Debs == [arch : Archs, pkg : Packages, build : Builds]

Pushes == [kind : {"push"}, component : Components, dryRun : BOOLEAN,
           files : SeqOf(Debs \cup {Garbage}, MaxFiles) \ {<<>>}]
Removals == [kind : {"rm"}, component : Components, dryRun : BOOLEAN, pkg : Packages]

VARIABLES
  command,      \* the command, the last one when none runs
  phase,        \* what the command does next, "shell" when none runs
  next,         \* push: the number of the file that is next
  disk,         \* the files that are there
  status,       \* how the last command ended
  torn,         \* whether a call of it was interrupted, and none of its runs has
                \* succeeded since
  before,       \* the indexes when the command was first run
  commands      \* commands run

shell   == <<command, phase, next, disk, status, torn, before, commands>>
allVars == <<vars, shell>>

-----------------------------------------------------------------------------
(* The commands                                                            *)

\* An operator may run any command next, or the same one again; a command that
\* was interrupted while it wrote is run again until it succeeds.
Run(c) ==
  /\ phase = "shell"
  /\ commands < MaxCommands
  /\ torn => c = command
  /\ commands' = commands + 1
  /\ command' = c
  /\ phase' = "flags"
  /\ next' = 1
  /\ status' = "running"
  /\ UNCHANGED <<vars, torn>>
  /\ before' = IF status = "error" /\ c = command
               THEN before
               ELSE [i \in Indexes |-> Read(i)]

RunPush(c)   == Run(c) /\ disk' = Range(c.files)
RunRemove(c) == Run(c) /\ disk' = {}

Exit(result) ==
  /\ phase' = "shell"
  /\ status' = result
  /\ torn' = (result = "error" /\ (torn \/ outcome = "failed"))
  /\ UNCHANGED <<command, next, disk, before, commands>>

Proceed(to) ==
  /\ phase' = to
  /\ UNCHANGED <<command, next, disk, status, torn, before, commands>>

\* cobra and validate may reject the flags.
CheckFlags ==
  /\ phase = "flags"
  /\ \/ Exit("error")
     \/ Proceed(IF command.kind = "push" THEN "files" ELSE "setup")
  /\ UNCHANGED vars

CheckFiles ==
  /\ phase = "files"
  /\ IF Range(command.files) \subseteq disk THEN Proceed("setup") ELSE Exit("error")
  /\ UNCHANGED vars

\* A dry run ends here.
DryRun ==
  /\ phase = "setup"
  /\ command.dryRun
  /\ Exit("ok")
  /\ UNCHANGED vars

\* newBackend, signer: without credentials or with a key that cannot be read they
\* fail.
Setup ==
  /\ phase = "setup"
  /\ ~command.dryRun
  /\ Exit("error") \/ Proceed("call")
  /\ UNCHANGED vars

CurrentFile == command.files[next]

\* Mutant: a file that cannot be published is passed over.
PassBadFile ==
  /\ phase = "call"
  /\ command.kind = "push"
  /\ next <= Len(command.files)
  /\ CurrentFile \notin disk \/ CurrentFile = Garbage
  /\ next' = next + 1
  /\ UNCHANGED <<vars, command, phase, disk, status, torn, before, commands>>

\* The file is gone by now, or Add cannot parse it: push stops.
BadFile ==
  /\ phase = "call"
  /\ command.kind = "push"
  /\ next <= Len(command.files)
  /\ CurrentFile \notin disk \/ CurrentFile = Garbage
  /\ Exit("error")
  /\ UNCHANGED vars

CallAdd ==
  /\ phase = "call"
  /\ command.kind = "push"
  /\ next <= Len(command.files)
  /\ CurrentFile \in disk \ {Garbage}
  /\ BeginAdd([kind |-> "add", component |-> command.component, arch |-> CurrentFile.arch,
               pkg |-> CurrentFile.pkg, build |-> CurrentFile.build])
  /\ Proceed("wait")

CallRemove ==
  /\ phase = "call"
  /\ command.kind = "rm"
  /\ BeginRemove([kind |-> "remove", component |-> command.component,
                  pkg |-> command.pkg])
  /\ Proceed("wait")

\* Mutant: the error of a file is logged, and push goes on.
AddReturnedRegardless ==
  /\ phase = "wait"
  /\ pc = "idle"
  /\ command.kind = "push"
  /\ phase' = "call"
  /\ next' = next + 1
  /\ UNCHANGED <<vars, command, disk, status, torn, before, commands>>

\* push goes on to the next file only after a success.
AddReturned ==
  /\ phase = "wait"
  /\ pc = "idle"
  /\ command.kind = "push"
  /\ IF outcome = "failed"
     THEN Exit("error")
     ELSE /\ phase' = "call"
          /\ next' = next + 1
          /\ UNCHANGED <<command, disk, status, torn, before, commands>>
  /\ UNCHANGED vars

AllPushed ==
  /\ phase = "call"
  /\ command.kind = "push"
  /\ next > Len(command.files)
  /\ Exit("ok")
  /\ UNCHANGED vars

RemoveReturned ==
  /\ phase = "wait"
  /\ pc = "idle"
  /\ command.kind = "rm"
  /\ Exit(IF outcome = "failed" THEN "error" ELSE "ok")
  /\ UNCHANGED vars

-----------------------------------------------------------------------------
(* What happens to a command                                               *)

\* A file of the command is deleted from the disk; one that is lost before the
\* files are checked may as well be a name with a typo in it.
LoseFile ==
  /\ phase # "shell"
  /\ \E f \in disk : disk' = disk \ {f}
  /\ UNCHANGED <<vars, command, phase, next, status, torn, before, commands>>

\* The process dies between two calls.  Fail is its death in the middle of one.
Kill ==
  /\ phase # "shell"
  /\ pc = "idle"
  /\ faults < MaxFaults
  /\ faults' = faults + 1
  /\ Exit("error")
  /\ UNCHANGED <<bucket, pc, op, locals, outcome, acked, ops>>

CommandInit ==
  /\ Init
  /\ command = None
  /\ phase = "shell"
  /\ next = 1
  /\ disk = {}
  /\ status = "none"
  /\ torn = FALSE
  /\ before = [i \in Indexes |-> {}]
  /\ commands = 0

CommandNext ==
  \/ \E c \in Pushes : RunPush(c)
  \/ \E c \in Removals : RunRemove(c)
  \/ CheckFlags
  \/ CheckFiles
  \/ DryRun
  \/ Setup
  \/ BadFile
  \/ CallAdd
  \/ CallRemove
  \/ AddReturned
  \/ AllPushed
  \/ RemoveReturned
  \/ LoseFile
  \/ Kill
  \/ (Step \/ Fail) /\ UNCHANGED shell

CommandSpec == CommandInit /\ [][CommandNext]_allVars

-----------------------------------------------------------------------------
(* Properties                                                              *)

Ended == phase = "shell" /\ status # "none"

IndexOf(f) == [component |-> command.component, arch |-> f.arch]

\* The file is published.
Published(f) ==
  /\ \E e \in Read(IndexOf(f)) : e.pkg = f.pkg /\ e.build = f.build
  /\ Holds(pool, PathOf(IndexOf(f), f.pkg), f.build)

\* Whether a later file of the same push may have replaced f or pruned it, or have
\* set out to, or whether retention may not have let f in at all.
Superseded(f, j) ==
  \/ \E k \in j + 1 .. next :
       /\ k \in DOMAIN command.files
       /\ command.files[k] # Garbage
       /\ command.files[k].arch = f.arch
       /\ command.files[k].pkg.name = f.pkg.name
  \/ /\ Keep > 0
     /\ Keep <= Cardinality({e \in Read(IndexOf(f)) :
                               /\ e.pkg.name = f.pkg.name
                               /\ Rank[e.pkg.version] >= Rank[f.pkg.version]})

\* However a push ends, it has published the files before the one it stopped at,
\* all of them when it exits without an error (newPushDebCmd).
PrefixPublished ==
  Ended /\ command.kind = "push" =>
    /\ \A j \in 1 .. next - 1 :
         /\ command.files[j] # Garbage
         /\ Published(command.files[j]) \/ Superseded(command.files[j], j)
    /\ status = "ok" /\ ~command.dryRun => next > Len(command.files)

\* Files that are missing, that vanish or that do not parse, wrong flags and a
\* setup that fails stop a command, but leave no repository half published
\* (checkFiles; Add parses before it writes).
FailsCleanly ==
  Ended /\ faults = 0 =>
    /\ \A i \in Indexes : PoolMatches(i)
    /\ DOMAIN packages # {} => packagesGz = packages /\ ReleaseCurrent /\ ReleaseSigned

\* What a push makes of the indexes when nothing goes wrong.
Pushed(c, start) ==
  LET push(contents, f) ==
        LET i == [component |-> c.component, arch |-> f.arch]
        IN  [contents EXCEPT ![i] = BuildPackages(Prune(Insert(contents[i], f)))]
  IN  FoldLeft(push, start, c.files)

FilesOf(contents) ==
  [i \in DOMAIN contents |-> {[pkg |-> e.pkg, build |-> e.build] : e \in contents[i]}]

\* A push that fails, at any file and in any step, and is run again until it exits
\* without an error has the effect on the indexes of a push that did not fail.
RerunCompletes ==
  Ended /\ status = "ok" /\ command.kind = "push" /\ ~command.dryRun =>
    FilesOf([i \in Indexes |-> Read(i)]) = FilesOf(Pushed(command, before))

\* Such a push leaves a pool that agrees with every index, a Packages.gz that agrees
\* with every index it pushed to, and a Release that states what is there, whatever
\* was interrupted before it.  The Packages.gz of other indexes may still be those
\* of an interrupted rm: running an rm again does not repair them.
RerunAgrees ==
  Ended /\ status = "ok" /\ command.kind = "push" /\ ~command.dryRun =>
    /\ \A i \in Indexes : PoolMatches(i)
    /\ \A f \in Range(command.files) : Holds(packagesGz, IndexOf(f), Read(IndexOf(f)))
    /\ ReleaseCurrent
    /\ Signed => ReleaseSigned

\* An rm that exits without an error, the first time or when it is run again, has
\* taken the version from every architecture, and no more than that.
RmRemoves ==
  Ended /\ status = "ok" /\ command.kind = "rm" /\ ~command.dryRun =>
    /\ FilesOf([i \in Indexes |-> Read(i)]) =
         FilesOf([i \in Indexes |->
                    IF i.component = command.component
                    THEN {e \in before[i] : e.pkg # command.pkg}
                    ELSE before[i]])
    /\ \A i \in Indexes : PoolMatches(i)

=============================================================================
