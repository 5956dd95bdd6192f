------------------------- MODULE CommandLineProofs -------------------------
(***************************************************************************)
(* What a push leaves behind, however it ends, what a command that fails   *)
(* without an interruption does not, and what a push and an rm have done   *)
(* that are run again until they succeed, for any number of files and of   *)
(* commands: theorems about CommandLine.                                   *)
(***************************************************************************)
EXTENDS CommandLine, AptPublisherProofs, SequenceTheorems

-----------------------------------------------------------------------------
(* What retention does to the packages of a name.                          *)

\* The stanzas of the name of pkg that are as new as pkg or newer.
AsNew(c, pkg) ==
  {e \in c : e.pkg.name = pkg.name /\ Rank[e.pkg.version] >= Rank[pkg.version]}

\* There is no room for pkg.
Full(c, pkg) == Keep > 0 /\ Keep <= Cardinality(AsNew(c, pkg))

\* Writing an index leaves as many of them.
LEMMA BuildCounts ==
  ASSUME NEW c \in Contents, NEW pkg
  PROVE  Cardinality(AsNew(BuildPackages(c), pkg)) = Cardinality(AsNew(c, pkg))
<1> DEFINE listed(e) == [e EXCEPT !.at = Cardinality({d \in c : d.at <= e.at})]
           f         == [e \in AsNew(c, pkg) |-> listed(e)]
<1>1. IsFiniteSet(AsNew(c, pkg)) /\ AsNew(c, pkg) \subseteq c
  BY FS_Subset DEF AsNew, Contents
<1>2. \A e \in c : listed(e).pkg = e.pkg
  BY DEF Contents, Stanzas
<1>3. AsNew(BuildPackages(c), pkg) = {listed(e) : e \in AsNew(c, pkg)}
  BY <1>2 DEF BuildPackages, AsNew
<1> HIDE DEF listed
<1>4. /\ f \in [AsNew(c, pkg) -> AsNew(BuildPackages(c), pkg)]
      /\ \A t \in AsNew(BuildPackages(c), pkg) : \E x \in AsNew(c, pkg) : f[x] = t
  BY <1>3
<1>5. \A d, e \in AsNew(c, pkg) : f[d] = f[e] => d = e
  <2>1. \A d, e \in c : d.pkg = e.pkg => d = e
    BY DEF Contents
  <2>2. QED
    BY <1>1, <1>2, <2>1
<1> HIDE DEF f
<1>6. QED
  BY <1>1, <1>4, <1>5, SameNumber

\* A new package is let in, or there is no room for it among those as new.
LEMMA PruneAdmits ==
  ASSUME NEW c \in Contents, Written(c), NEW o \in AddOps
  PROVE  LET left == Prune(Insert(c, o))
         IN  (\E e \in left : e.pkg = o.pkg) \/ Full(left, o.pkg)
<1> DEFINE items == Insert(c, o)
           left  == Prune(items)
           group == {e \in left : e.pkg.name = o.pkg.name}
           new   == [pkg |-> o.pkg, build |-> o.build, at |-> Cardinality(c) + 1]
<1> SUFFICES ASSUME new \notin left
             PROVE  Full(left, o.pkg)
  OBVIOUS
<1>1. items \in Contents /\ Spaced(items) /\ new \in items
  BY InsertType, InsertSpaced DEF Insert
<1>2. Orderly(items, GroupOf, AgeOf) /\ left \in Contents /\ left \subseteq items
  BY <1>1, ContentsOrderly, PruneSubset, SubContents
<1> HIDE DEF items
<1>3. Keep > 0 /\ left = Retain(items, Keep, GroupOf, AgeOf)
  BY <1>1 DEF Prune
<1>4. GroupItems(left, GroupOf, o.pkg.name) = group
  BY <1>2, GroupOfName
<1>5. o.pkg \in Packages /\ GroupOf[new.pkg] = o.pkg.name
      /\ AgeOf[new.pkg] = Rank[o.pkg.version]
  BY DEF AddOps, GroupOf, AgeOf
<1>6. /\ Cardinality(GroupItems(left, GroupOf, GroupOf[new.pkg])) = Keep
      /\ \A e \in GroupItems(left, GroupOf, GroupOf[new.pkg]) : Newer(e, new, AgeOf)
  <2>1. new \in items \ Retain(items, Keep, GroupOf, AgeOf)
    BY <1>1, <1>3
  <2> HIDE DEF new
  <2>2. QED
    BY <1>2, <1>3, <2>1, RetainsNewest, KeepAssumption
<1>7. ASSUME NEW e \in group PROVE Rank[e.pkg.version] >= Rank[o.pkg.version]
  <2>1. e.pkg \in Packages /\ AgeOf[e.pkg] = Rank[e.pkg.version]
    BY <1>2 DEF Contents, Stanzas, AgeOf
  <2>2. Rank[e.pkg.version] \in Nat /\ Rank[o.pkg.version] \in Nat
    BY <1>5, <2>1, RankAssumption DEF Packages
  <2>3. Newer(e, new, AgeOf)
    BY <1>4, <1>5, <1>6
  <2>4. QED
    BY <1>5, <2>1, <2>2, <2>3 DEF Newer
<1>8. AsNew(left, o.pkg) = group
  BY <1>7 DEF AsNew
<1>9. Cardinality(AsNew(left, o.pkg)) = Keep
  BY <1>4, <1>5, <1>6, <1>8
<1> HIDE DEF left
<1>10. QED
  BY <1>3, <1>9, KeepAssumption DEF Full

\* Nothing of another name goes.
LEMMA PruneSparesOthers ==
  ASSUME NEW c \in Contents, Written(c), Bounded(c), NEW o \in AddOps,
         NEW e \in c, e.pkg.name # o.pkg.name
  PROVE  e \in Prune(Insert(c, o))
<1> DEFINE items == Insert(c, o)
           left  == Prune(items)
           name  == e.pkg.name
           here  == {x \in c : x.pkg.name = name}
           stay  == {x \in left : x.pkg.name = name}
<1> SUFFICES ASSUME e \notin left
             PROVE  FALSE
  OBVIOUS
<1>1. items \in Contents /\ Spaced(items) /\ e \in items
  BY InsertType, InsertSpaced DEF Insert
<1>2. \A x \in items : x.pkg.name = name => x \in c
  BY DEF Insert
<1>3. Orderly(items, GroupOf, AgeOf) /\ left \in Contents /\ left \subseteq items
  BY <1>1, ContentsOrderly, PruneSubset, SubContents
<1> HIDE DEF items
<1>4. Keep > 0 /\ left = Retain(items, Keep, GroupOf, AgeOf)
  BY <1>1 DEF Prune
<1>5. GroupItems(left, GroupOf, GroupOf[e.pkg]) = stay
  <2>1. GroupOf[e.pkg] = name
    BY DEF Contents, Stanzas, GroupOf
  <2>2. QED
    BY <1>3, <2>1, GroupOfName
<1>6. Cardinality(stay) = Keep
  <2>1. e \in items \ Retain(items, Keep, GroupOf, AgeOf)
    BY <1>1, <1>4
  <2> HIDE DEF left, stay
  <2>2. Cardinality(GroupItems(Retain(items, Keep, GroupOf, AgeOf), GroupOf, GroupOf[e.pkg]))
          = Keep
    BY <1>3, <2>1, RetainsNewest, KeepAssumption
  <2>3. QED
    BY <1>4, <1>5, <2>2
<1>7. stay \subseteq here /\ e \in here /\ e \notin stay
  BY <1>2, <1>3
<1>8. IsFiniteSet(here) /\ Cardinality(here) <= Keep
  BY <1>4 DEF Bounded
<1> HIDE DEF here, stay
<1>9. Cardinality(stay) <= Cardinality(here) /\ Cardinality(stay) # Cardinality(here)
  BY <1>7, <1>8, FS_Subset
<1>10. Cardinality(here) \in Nat
  BY <1>8, FS_CardinalityType
<1>11. QED
  BY <1>6, <1>8, <1>9, <1>10, KeepAssumption

-----------------------------------------------------------------------------
(* What an Add leaves of a package.                                        *)

\* An Add that has written its index has let its package in, or there is no room
\* for it.
AdmitOK ==
  op \in AddOps /\ pc \in {"putGz", "publishRelease", "putInRelease", "putReleaseGpg", "return"}
    => (\E e \in kept : e.pkg = op.pkg) \/ Full(Read(TargetOf(op)), op.pkg)

LEMMA ReadAfterPut ==
  ASSUME PutPackages
  PROVE  \A i : Read(i)' = IF i = index THEN BuildPackages(kept) ELSE Read(i)
BY DEF PutPackages, Read, Put

\* No other step changes an index.
LEMMA ReadOtherwise ==
  ASSUME [Next]_vars, ~ PutPackages
  PROVE  \A i : Read(i)' = Read(i)
<1>1. UNCHANGED packages
  BY DEF Next, Step, vars, bucket, BeginAdd, BeginRemove, Start, Upload, UpdateIndex,
     ScanIndex, EndScan, DeletePoolFile, PutPackagesGz, PublishRelease, PutInRelease,
     PutReleaseGpg, Return, Fail, Finish
<1>2. QED
  BY <1>1 DEF Read

LEMMA AdmitStep == BoundInv /\ AdmitOK /\ [Next]_vars => AdmitOK'
<1> SUFFICES ASSUME BoundInv, AdmitOK, [Next]_vars
             PROVE  AdmitOK'
  OBVIOUS
<1> DEFINE late == {"putGz", "publishRelease", "putInRelease", "putReleaseGpg", "return"}
<1>1. TypeInv
  BY DEF BoundInv, WriteInv
<1>2. CASE PutPackages
  <2>1. pc = "rewrite" /\ UNCHANGED <<kept, op>>
    BY <1>2 DEF PutPackages, locals
  <2> SUFFICES ASSUME op \in AddOps
               PROVE  (\E e \in kept : e.pkg = op.pkg) \/ Full(Read(TargetOf(op))', op.pkg)
    BY <2>1 DEF AdmitOK, Full, AsNew, TargetOf
  <2>2. index = TargetOf(op) /\ index \in Indexes /\ Read(index) \in Contents
    BY <1>1, <2>1, ReadType DEF TypeInv, TypeOK, ControlOK
  <2>3. kept = Prune(Insert(Read(index), op)) /\ Written(Read(index)) /\ kept \in Contents
    BY <1>1, <2>1, <2>2 DEF BoundInv, WriteInv, RewriteOK, TypeInv, TypeOK
  <2>4. (\E e \in kept : e.pkg = op.pkg) \/ Full(kept, op.pkg)
    BY <2>2, <2>3, PruneAdmits
  <2>5. Read(TargetOf(op))' = BuildPackages(kept)
    BY <1>2, <2>1, <2>2, ReadAfterPut DEF TargetOf
  <2>6. QED
    BY <2>3, <2>4, <2>5, BuildCounts DEF Full
<1>3. CASE ~ PutPackages
  <2>1. \A i : Read(i)' = Read(i)
    BY <1>3, ReadOtherwise
  <2>2. pc' \in late /\ op' \in AddOps => pc \in late /\ UNCHANGED <<op, kept>>
    BY <1>1, <1>3, KindOf
    DEF Next, Step, vars, bucket, locals, BeginAdd, BeginRemove, Start, Upload, UpdateIndex,
        ScanIndex, EndScan, DeletePoolFile, PutPackagesGz, PublishRelease, PutInRelease,
        PutReleaseGpg, Return, Fail, Finish, TypeInv, ControlOK, AddOps, RemoveOps
  <2>3. QED
    BY <2>1, <2>2 DEF AdmitOK, Full, AsNew, TargetOf
<1>4. QED
  BY <1>2, <1>3

\* A file that was published and that nothing has set out to take away, or one
\* that there is no room for.
Keeps(i, pkg, build) ==
  [path |-> PathOf(i, pkg), build |-> build] \in acked \/ Full(Read(i), pkg)

\* It stays so while files of other names or other architectures are added.
LEMMA KeepsStep ==
  ASSUME BoundInv, [Next]_vars, op' \in AddOps,
         NEW i \in Indexes, NEW pkg \in Packages, NEW build, Keeps(i, pkg, build),
         i # TargetOf(op') \/ pkg.name # op'.pkg.name
  PROVE  Keeps(i, pkg, build)'
<1> DEFINE f == [path |-> PathOf(i, pkg), build |-> build]
<1>1. TypeInv /\ Written(Read(i)) /\ Bounded(Read(i)) /\ Read(i) \in Contents
  BY ReadType DEF BoundInv, WriteInv, TypeInv, TypeOK
<1>2. CASE \E o \in AddOps : BeginAdd(o)
  <2>1. acked' = {g \in acked : g.path # PathOf(TargetOf(op'), op'.pkg)} /\ ~ PutPackages
    BY <1>2 DEF BeginAdd, Start, PathOf, TargetOf, Admissible, PutPackages
  <2>2. PathOf(i, pkg) # PathOf(TargetOf(op'), op'.pkg)
    BY PathsDiffer, TargetType DEF AddOps
  <2>3. QED
    BY <2>1, <2>2, ReadOtherwise DEF Keeps, Full, AsNew
<1>3. CASE UpdateIndex
  <2>1. /\ op \in AddOps /\ op' = op /\ index = TargetOf(op) /\ index \in Indexes
        /\ ~ PutPackages
    BY <1>1, <1>3 DEF UpdateIndex, PutPackages, TypeInv, ControlOK
  <2>2. ASSUME NEW e \in doomed' PROVE PathOf(i, pkg) # PathOf(index, e.pkg)
    <3> SUFFICES ASSUME i = index, pkg = e.pkg
                 PROVE  FALSE
      <4>1. e.pkg \in Packages
        BY <1>1, <1>3, <2>1, InsertType, ReadType
        DEF UpdateIndex, Surplus, Contents, Stanzas, TypeInv, TypeOK
      <4>2. QED
        BY <2>1, <4>1, PathsDiffer
    <3>1. e \in Insert(Read(i), op) /\ e \notin Prune(Insert(Read(i), op))
      BY <1>3, <2>2 DEF UpdateIndex, Surplus
    <3>2. e.pkg.name # op.pkg.name
      BY <2>1
    <3>3. e \in Read(i)
      BY <3>1, <3>2 DEF Insert
    <3>4. QED
      BY <1>1, <2>1, <3>1, <3>2, <3>3, PruneSparesOthers
  <2>3. f \in acked => f \in acked'
    BY <1>3, <2>2 DEF UpdateIndex
  <2>4. QED
    BY <2>1, <2>3, ReadOtherwise DEF Keeps, Full, AsNew
<1>4. CASE PutPackages
  <2>1. pc = "rewrite" /\ UNCHANGED <<op, acked>> /\ op \in AddOps
    BY <1>4 DEF PutPackages
  <2>2. index = TargetOf(op) /\ kept = Prune(Insert(Read(index), op)) /\ kept \in Contents
    BY <1>1, <2>1 DEF BoundInv, WriteInv, RewriteOK, TypeInv, TypeOK, ControlOK
  <2>3. CASE i # index
    BY <1>4, <2>1, <2>3, ReadAfterPut DEF Keeps, Full, AsNew
  <2>4. CASE i = index
    <3>1. pkg.name # op.pkg.name
      BY <2>1, <2>2, <2>4
    <3>2. AsNew(kept, pkg) \subseteq AsNew(Read(i), pkg)
      BY <2>2, <2>4, <3>1, PruneSubset DEF AsNew, Insert
    <3>3. AsNew(Read(i), pkg) \subseteq AsNew(kept, pkg)
      BY <1>1, <2>1, <2>2, <2>4, <3>1, PruneSparesOthers DEF AsNew
    <3>4. Cardinality(AsNew(BuildPackages(kept), pkg)) = Cardinality(AsNew(Read(i), pkg))
      <4>1. AsNew(kept, pkg) = AsNew(Read(i), pkg)
        BY <3>2, <3>3
      <4>2. Cardinality(AsNew(BuildPackages(kept), pkg)) = Cardinality(AsNew(kept, pkg))
        BY <2>2, BuildCounts
      <4>3. QED
        BY <4>1, <4>2
    <3>5. Read(i)' = BuildPackages(kept)
      BY <1>4, <2>4, ReadAfterPut
    <3>6. Full(Read(i), pkg) => Full(Read(i)', pkg)
      BY <3>4, <3>5 DEF Full
    <3>7. QED
      BY <2>1, <3>6 DEF Keeps, Full, AsNew
  <2>5. QED
    BY <2>3, <2>4
<1>5. CASE ~ ((\E o \in AddOps : BeginAdd(o)) \/ UpdateIndex \/ PutPackages)
  <2>1. acked \subseteq acked'
    BY <1>5 DEF Next, Step, vars, bucket, BeginRemove, Start, Upload,
       ScanIndex, EndScan, DeletePoolFile, PutPackagesGz, PublishRelease, PutInRelease,
       PutReleaseGpg, Return, Fail, Finish, AddOps, RemoveOps
  <2>2. QED
    BY <1>5, <2>1, ReadOtherwise DEF Keeps, Full, AsNew
<1>6. QED
  BY <1>2, <1>3, <1>4, <1>5

-----------------------------------------------------------------------------
(* The steps of a command.                                                 *)

LEMMA CommandKinds ==
  ASSUME NEW c \in Pushes \cup Removals
  PROVE  /\ c.kind \in {"push", "rm"}
         /\ c.component \in Components
         /\ c.kind = "push" => /\ c.files \in Seq(Debs \cup {Garbage})
                               /\ Len(c.files) \in Nat
                               /\ DOMAIN c.files = 1 .. Len(c.files)
                               /\ \A k \in 1 .. Len(c.files) :
                                    c.files[k] \in Debs \cup {Garbage}
         /\ c.kind = "rm" => c.pkg \in Packages
<1>1. CASE c \in Removals
  BY <1>1 DEF Removals
<1>2. CASE c \in Pushes
  <2>1. c.kind = "push" /\ c.component \in Components
          /\ c.files \in SeqOf(Debs \cup {Garbage}, MaxFiles)
    BY <1>2 DEF Pushes
  <2>2. PICK m \in 0 .. MaxFiles : c.files \in [1 .. m -> Debs \cup {Garbage}]
    BY <2>1 DEF SeqOf
  <2>3. m \in Nat
    BY CommandAssumption
  <2>4. c.files \in Seq(Debs \cup {Garbage})
    BY <2>2, <2>3
  <2>5. QED
    BY <2>1, <2>4, LenProperties, ElementOfSeq
<1>3. QED
  BY <1>1, <1>2

\* The operation that publishes a file.
AddOf(f) ==
  [kind |-> "add", component |-> command.component, arch |-> f.arch, pkg |-> f.pkg,
   build |-> f.build]

\* A command calls the publisher and waits; the operation of a push is the Add of
\* the file that is next.
ShellOK ==
  /\ next \in Nat \ {0}
  /\ phase # "wait" => pc = "idle"
  /\ phase # "shell" => status = "running"
  /\ status # "none" => command \in Pushes \cup Removals
  /\ phase = "wait" /\ command.kind = "push" =>
       /\ next \in DOMAIN command.files
       /\ CurrentFile \in Debs \ {Garbage}
       /\ op = AddOf(CurrentFile)

\* The file of a push that Add is called with.
LEMMA CalledFile ==
  ASSUME ShellOK, CallAdd
  PROVE  /\ next \in DOMAIN command.files
         /\ CurrentFile \in Debs \ {Garbage}
         /\ AddOf(CurrentFile) \in AddOps
         /\ BeginAdd(AddOf(CurrentFile))
<1>1. /\ command \in Pushes \cup Removals /\ command.kind = "push"
      /\ next <= Len(command.files) /\ CurrentFile # Garbage
  BY DEF ShellOK, CallAdd
<1>2. next \in 1 .. Len(command.files) /\ DOMAIN command.files = 1 .. Len(command.files)
  BY <1>1, CommandKinds DEF ShellOK
<1>3. CurrentFile \in Debs \ {Garbage}
  BY <1>1, <1>2, CommandKinds DEF CurrentFile
<1>4. AddOf(CurrentFile) \in AddOps
  BY <1>1, <1>3, CommandKinds DEF AddOf, AddOps, Debs
<1>5. BeginAdd(AddOf(CurrentFile))
  BY DEF CallAdd, AddOf
<1>6. QED
  BY <1>2, <1>3, <1>4, <1>5

\* Whatever a command does, the publisher takes one of its own steps or none,
\* unless the process dies between two calls.
LEMMA PublisherSteps ==
  ASSUME ShellOK, [CommandNext]_allVars, ~ Kill
  PROVE  [Next]_vars
<1>1. CASE CallAdd
  BY <1>1, CalledFile DEF Next
<1>2. CASE CallRemove
  <2>1. command \in Pushes \cup Removals /\ command.kind = "rm"
    BY <1>2 DEF ShellOK, CallRemove
  <2>2. [kind |-> "remove", component |-> command.component, pkg |-> command.pkg]
          \in RemoveOps
    BY <2>1, CommandKinds DEF RemoveOps
  <2>3. QED
    BY <1>2, <2>2 DEF CallRemove, Next
<1>3. CASE (Step \/ Fail) /\ UNCHANGED shell
  BY <1>3 DEF Next
<1>4. CASE ~ (CallAdd \/ CallRemove \/ ((Step \/ Fail) /\ UNCHANGED shell))
  BY <1>4 DEF CommandNext, allVars, RunPush, RunRemove, Run, CheckFlags, CheckFiles, DryRun,
     Setup, BadFile, AddReturned, AllPushed, RemoveReturned, LoseFile
<1>5. QED
  BY <1>1, <1>2, <1>3, <1>4

LEMMA ShellInit == CommandInit => ShellOK
BY DEF CommandInit, Init, ShellOK

LEMMA ShellStep == ShellOK /\ [CommandNext]_allVars => ShellOK'
<1> SUFFICES ASSUME ShellOK, [CommandNext]_allVars
             PROVE  ShellOK'
  OBVIOUS
<1>1. ASSUME NEW c \in Pushes \cup Removals, Run(c)
      PROVE  ShellOK'
  BY <1>1 DEF ShellOK, Run, vars
<1>2. ASSUME UNCHANGED <<pc, op, command, next>>, phase' # "wait",
             phase' # "shell" => status' = status /\ phase # "shell",
             phase = "wait" => pc = "idle",
             status' = "none" => status = "none",
             phase = "shell" => status' = status
      PROVE  ShellOK'
  BY <1>2 DEF ShellOK
<1>3. CASE CheckFlags \/ CheckFiles \/ DryRun \/ Setup \/ BadFile \/ AllPushed \/ RemoveReturned
           \/ Kill
  BY <1>2, <1>3 DEF CheckFlags, CheckFiles, DryRun, Setup, BadFile, AllPushed, RemoveReturned,
     Kill, Exit, Proceed, vars, ShellOK
<1>4. CASE CallAdd
  BY <1>4, CalledFile
  DEF CallAdd, BeginAdd, Start, Proceed, ShellOK, CurrentFile, AddOf
<1>5. CASE CallRemove
  BY <1>5 DEF CallRemove, BeginRemove, Start, Proceed, ShellOK
<1>6. CASE AddReturned
  <2>1. next + 1 \in Nat \ {0}
    BY DEF ShellOK
  <2>2. QED
    BY <1>6, <2>1 DEF AddReturned, Exit, vars, ShellOK
<1>7. CASE LoseFile
  BY <1>7 DEF LoseFile, vars, ShellOK, CurrentFile, AddOf
<1>8. CASE (Step \/ Fail) /\ UNCHANGED shell
  <2>1. pc # "idle" /\ UNCHANGED op
    BY <1>8 DEF Step, Upload, UpdateIndex, ScanIndex, EndScan, DeletePoolFile, PutPackages,
       PutPackagesGz, PublishRelease, PutInRelease, PutReleaseGpg, Return, Fail, Finish
  <2>2. QED
    BY <1>8, <2>1 DEF shell, ShellOK, CurrentFile, AddOf
<1>9. CASE UNCHANGED allVars
  BY <1>9 DEF allVars, shell, vars, ShellOK, CurrentFile, AddOf
<1>10. QED
  BY <1>1, <1>3, <1>4, <1>5, <1>6, <1>7, <1>8, <1>9 DEF CommandNext, RunPush, RunRemove

-----------------------------------------------------------------------------
(* What a push has published when it ends.                                 *)

\* A later file of the push, up to the one that is next, may take the place of f.
Later(f, j) ==
  \E k \in j + 1 .. next :
    /\ k \in DOMAIN command.files
    /\ command.files[k] # Garbage
    /\ command.files[k].arch = f.arch
    /\ command.files[k].pkg.name = f.pkg.name

\* The push has done its work on f, which is the j-th of its files.
Safe(f, j) == Keeps(IndexOf(f), f.pkg, f.build) \/ Later(f, j)

\* The files before the one that is next.
PassedOK ==
  status # "none" /\ command.kind = "push" =>
    \A j \in 1 .. next - 1 :
      /\ j \in DOMAIN command.files
      /\ command.files[j] \in Debs \ {Garbage}
      /\ Safe(command.files[j], j)

\* The file that is next, when its Add has returned.
ResultOK ==
  phase = "wait" /\ command.kind = "push" /\ pc = "idle" /\ outcome # "failed" =>
    Safe(CurrentFile, next)

\* A push that succeeds has come to the end of its files.
StatusOK ==
  phase = "shell" /\ status = "ok" /\ command.kind = "push" /\ ~ command.dryRun =>
    next > Len(command.files)

PublisherInv == AckedInv /\ BoundInv /\ AdmitOK

CommandInv == PublisherInv /\ ShellOK /\ PassedOK /\ ResultOK /\ StatusOK

\* A process that dies between two calls leaves the bucket as it is.
LEMMA KillStep == PublisherInv /\ Kill => PublisherInv'
<1> SUFFICES ASSUME PublisherInv, Kill
             PROVE  PublisherInv'
  OBVIOUS
<1>1. UNCHANGED <<bucket, pc, op, locals, outcome, acked, ops>> /\ faults' = faults + 1
  BY DEF Kill
<1>2. /\ UNCHANGED <<pool, packages, packagesGz, dist, index, kept, doomed, queue, removed>>
      /\ faults' \in Nat
  BY <1>1 DEF bucket, locals, PublisherInv, AckedInv, TypeInv, TypeOK
<1>3. TypeInv'
  BY <1>1, <1>2 DEF PublisherInv, AckedInv, TypeInv, TypeOK, ControlOK
<1>4. AckedInv'
  BY <1>1, <1>2, <1>3 DEF PublisherInv, AckedInv, SplitOK, RemoveOK, AddedOK, FileOK, Read
<1>5. BoundInv'
  BY <1>1, <1>2, <1>3
  DEF PublisherInv, BoundInv, WriteInv, OutcomeOK, RewriteOK, Read
<1>6. AdmitOK'
  BY <1>1, <1>2 DEF PublisherInv, AdmitOK, Full, AsNew, Read
<1>7. QED
  BY <1>4, <1>5, <1>6 DEF PublisherInv

LEMMA PublisherInvStep ==
  PublisherInv /\ ShellOK /\ [CommandNext]_allVars => PublisherInv'
<1> SUFFICES ASSUME PublisherInv, ShellOK, [CommandNext]_allVars
             PROVE  PublisherInv'
  OBVIOUS
<1>1. CASE Kill
  BY <1>1, KillStep
<1>2. CASE ~ Kill
  <2>1. [Next]_vars
    BY <1>2, PublisherSteps
  <2>2. QED
    BY <2>1, AckedStep, BoundStep, AdmitStep DEF PublisherInv
<1>3. QED
  BY <1>1, <1>2

\* A file of a push that is under way.
LEMMA FileOfPush ==
  ASSUME command \in Pushes \cup Removals, NEW f \in Debs
  PROVE  IndexOf(f) \in Indexes /\ f.pkg \in Packages /\ TargetOf(AddOf(f)) = IndexOf(f)
BY CommandKinds DEF IndexOf, Indexes, Debs, TargetOf, AddOf

\* Nothing happens to the files or to what was published.
LEMMA SafeFrame ==
  ASSUME UNCHANGED <<acked, packages, command>>, next \in Nat, next' \in Nat, next <= next',
         NEW f, NEW j \in Nat, Safe(f, j)
  PROVE  Safe(f, j)'
<1>1. j + 1 .. next \subseteq j + 1 .. next'
  OBVIOUS
<1>2. Later(f, j) => Later(f, j)'
  BY <1>1 DEF Later
<1>3. Keeps(IndexOf(f), f.pkg, f.build) => Keeps(IndexOf(f), f.pkg, f.build)'
  BY DEF Keeps, Full, AsNew, Read, IndexOf
<1>4. QED
  BY <1>2, <1>3 DEF Safe

\* The Add of the next file takes away what is of its own name and architecture,
\* and no more.
LEMMA SafeStep ==
  ASSUME BoundInv, [Next]_vars, UNCHANGED <<command, next>>, next \in Nat,
         command \in Pushes \cup Removals, next \in DOMAIN command.files,
         CurrentFile \in Debs \ {Garbage}, op' = AddOf(CurrentFile), op' \in AddOps,
         NEW j \in 1 .. next - 1, NEW f \in Debs, Safe(f, j)
  PROVE  Safe(f, j)'
<1>1. CASE f.arch = CurrentFile.arch /\ f.pkg.name = CurrentFile.pkg.name
  <2>1. next \in j + 1 .. next
    OBVIOUS
  <2>2. Later(f, j)'
    BY <1>1, <2>1 DEF Later, CurrentFile
  <2>3. QED
    BY <2>2 DEF Safe
<1>2. CASE ~ (f.arch = CurrentFile.arch /\ f.pkg.name = CurrentFile.pkg.name)
  <2>1. IndexOf(f) \in Indexes /\ f.pkg \in Packages /\ IndexOf(f)' = IndexOf(f)
    BY FileOfPush DEF IndexOf
  <2>2. IndexOf(f) # TargetOf(op') \/ f.pkg.name # op'.pkg.name
    BY <1>2 DEF IndexOf, TargetOf, AddOf
  <2>3. Keeps(IndexOf(f), f.pkg, f.build) => Keeps(IndexOf(f), f.pkg, f.build)'
    <3>1. PICK i \in Indexes : i = IndexOf(f)
      BY <2>1
    <3>2. i # TargetOf(op') \/ f.pkg.name # op'.pkg.name
      BY <2>2, <3>1
    <3>3. Keeps(i, f.pkg, f.build) => Keeps(i, f.pkg, f.build)'
      BY <2>1, <3>2, KeepsStep
    <3>4. QED
      BY <2>1, <3>1, <3>3 DEF Keeps, Full
  <2>4. Later(f, j) => Later(f, j)'
    BY DEF Later
  <2>5. QED
    BY <2>3, <2>4 DEF Safe
<1>3. QED
  BY <1>1, <1>2

\* Let the publisher stand still and the push go no further than to the next file.
LEMMA PassedFrame ==
  ASSUME ShellOK, PassedOK, UNCHANGED <<acked, packages, command, next>>,
         status # "none"
  PROVE  PassedOK'
<1> SUFFICES ASSUME command.kind = "push", NEW j \in 1 .. next - 1
             PROVE  /\ j \in DOMAIN command.files
                    /\ command.files[j] \in Debs \ {Garbage}
                    /\ Safe(command.files[j], j)'
  BY DEF PassedOK, Safe, Keeps, Later, IndexOf
<1>1. PICK f \in Debs : f = command.files[j]
  BY DEF PassedOK
<1>2. Safe(f, j)'
  BY <1>1, SafeFrame DEF PassedOK, ShellOK
<1>3. QED
  BY <1>1, <1>2 DEF PassedOK, Safe, Keeps, Later, IndexOf

LEMMA PassedStep ==
  ASSUME CommandInv, PublisherInv', ShellOK', [CommandNext]_allVars
  PROVE  PassedOK'
<1>1. CASE UNCHANGED <<acked, packages, command, next>> /\ status # "none"
  BY <1>1, PassedFrame DEF CommandInv
<1>2. CASE status' = "none" \/ command'.kind # "push" \/ next' = 1
  BY <1>2 DEF PassedOK
<1>3. CASE AddReturned /\ outcome # "failed"
  <2>1. /\ phase = "wait" /\ pc = "idle" /\ command.kind = "push" /\ status # "none"
        /\ next' = next + 1 /\ next \in Nat
        /\ UNCHANGED <<acked, packages, command>>
    BY <1>3 DEF AddReturned, vars, bucket, CommandInv, ShellOK
  <2> SUFFICES ASSUME NEW j \in 1 .. next
               PROVE  /\ j \in DOMAIN command.files
                      /\ command.files[j] \in Debs \ {Garbage}
                      /\ Safe(command.files[j], j)'
    BY <2>1 DEF PassedOK, Safe, Keeps, Later, IndexOf
  <2>2. /\ j \in DOMAIN command.files
        /\ command.files[j] \in Debs \ {Garbage}
        /\ Safe(command.files[j], j)
    <3>1. CASE j = next
      BY <2>1, <1>3, <3>1 DEF CommandInv, ShellOK, ResultOK, CurrentFile
    <3>2. CASE j # next
      <4>1. j \in 1 .. next - 1
        BY <2>1, <3>2
      <4>2. QED
        BY <2>1, <4>1 DEF CommandInv, PassedOK
    <3>3. QED
      BY <3>1, <3>2
  <2>3. PICK f \in Debs : f = command.files[j]
    BY <2>2
  <2>4. Safe(f, j)'
    BY <2>1, <2>2, <2>3, SafeFrame
  <2>5. QED
    BY <2>1, <2>2, <2>3, <2>4 DEF Safe, Keeps, Later, IndexOf
<1>4. CASE CallAdd \/ ((Step \/ Fail) /\ UNCHANGED shell)
  <2>1. /\ UNCHANGED <<command, next, status>> /\ next \in Nat
        /\ phase' = "wait" /\ status # "none" /\ command \in Pushes \cup Removals
    BY <1>4 DEF CallAdd, Proceed, shell, CommandInv, ShellOK, Step, Upload, UpdateIndex,
       ScanIndex, EndScan, DeletePoolFile, PutPackages, PutPackagesGz, PublishRelease,
       PutInRelease, PutReleaseGpg, Return, Fail
  <2> SUFFICES ASSUME command.kind = "push", NEW j \in 1 .. next - 1
               PROVE  /\ j \in DOMAIN command.files
                      /\ command.files[j] \in Debs \ {Garbage}
                      /\ Safe(command.files[j], j)'
    BY <2>1 DEF PassedOK, Safe, Keeps, Later, IndexOf
  <2>2. PICK f \in Debs : /\ f = command.files[j] /\ f # Garbage
                          /\ j \in DOMAIN command.files
                          /\ Safe(f, j)
    BY <2>1 DEF CommandInv, PassedOK
  <2>3. /\ next \in DOMAIN command.files /\ CurrentFile \in Debs \ {Garbage}
        /\ op' = AddOf(CurrentFile)
    BY <2>1 DEF ShellOK, CurrentFile, AddOf
  <2>4. op' \in AddOps
    BY <2>1, <2>3, CommandKinds DEF AddOf, AddOps, Debs
  <2>5. [Next]_vars
    BY <1>4, PublisherSteps, CalledFile DEF CommandInv, Next
  <2>6. Safe(f, j)'
    BY <2>1, <2>2, <2>3, <2>4, <2>5, SafeStep DEF CommandInv, PublisherInv
  <2>7. QED
    BY <2>1, <2>2, <2>6 DEF Safe, Keeps, Later, IndexOf
<1>5. CASE ~ (CallAdd \/ ((Step \/ Fail) /\ UNCHANGED shell) \/ (AddReturned /\ outcome # "failed"))
  <2>1. CASE UNCHANGED allVars
    BY <1>1, <1>2, <2>1 DEF allVars, shell, vars, bucket
  <2>2. CASE CallRemove
    BY <1>2, <2>2 DEF CallRemove, Proceed
  <2>3. CASE \/ \E c \in Pushes : RunPush(c)
             \/ \E c \in Removals : RunRemove(c)
    BY <1>2, <2>3 DEF RunPush, RunRemove, Run
  <2>4. CASE CheckFlags \/ CheckFiles \/ DryRun \/ Setup \/ BadFile \/ AddReturned \/ AllPushed
             \/ RemoveReturned \/ LoseFile \/ Kill
    BY <1>1, <1>5, <2>4 DEF CheckFlags, CheckFiles, DryRun, Setup, BadFile, AddReturned,
       AllPushed, RemoveReturned, LoseFile, Kill, Exit, Proceed, vars, bucket, CommandInv, ShellOK
  <2>5. QED
    BY <1>5, <2>1, <2>2, <2>3, <2>4 DEF CommandNext
<1>6. QED
  BY <1>3, <1>4, <1>5

\* When its Add returns, the next file is published or there is no room for it.
LEMMA ResultStep ==
  ASSUME CommandInv, ShellOK', [CommandNext]_allVars
  PROVE  ResultOK'
<1> SUFFICES ASSUME phase' = "wait", command'.kind = "push", pc' = "idle",
                    outcome' # "failed"
             PROVE  Safe(CurrentFile, next)'
  BY DEF ResultOK
<1>1. CASE UNCHANGED <<vars, command, phase, next>>
  BY <1>1 DEF vars, bucket, CommandInv, ResultOK, Safe, Keeps, Full, AsNew, Read, Later, IndexOf,
     CurrentFile
<1>2. CASE Return /\ UNCHANGED shell
  <2>1. /\ UNCHANGED <<command, next, packages>> /\ phase = "wait"
        /\ command \in Pushes \cup Removals /\ pc = "return"
    BY <1>2 DEF shell, Return, Finish, bucket, CommandInv, ShellOK
  <2>2. PICK f \in Debs : f = CurrentFile
    BY <1>2, <2>1 DEF CommandInv, ShellOK, shell
  <2>3. op = AddOf(f) /\ op \in AddOps /\ op.kind = "add"
    <3>1. op = AddOf(f)
      BY <2>1, <2>2 DEF CommandInv, ShellOK
    <3>2. QED
      BY <2>1, <2>2, <3>1, CommandKinds DEF AddOf, AddOps, Debs
  <2>4. index = TargetOf(op) /\ TargetOf(op) = IndexOf(f)
    BY <2>1, <2>2, <2>3, FileOfPush
    DEF CommandInv, PublisherInv, AckedInv, TypeInv, ControlOK
  <2>5. op.pkg = f.pkg /\ op.build = f.build
    BY <2>3 DEF AddOf
  <2>6. Keeps(IndexOf(f), f.pkg, f.build)'
    <3>1. CASE \E e \in kept : e.pkg = op.pkg
      <4>1. [path |-> PathOf(index, op.pkg), build |-> op.build] \in acked'
        BY <1>2, <2>3, <3>1 DEF Return
      <4>2. QED
        BY <2>1, <2>4, <2>5, <4>1 DEF Keeps, IndexOf
    <3>2. CASE ~ \E e \in kept : e.pkg = op.pkg
      <4>1. Full(Read(IndexOf(f)), f.pkg)
        BY <2>1, <2>3, <2>4, <2>5, <3>2 DEF CommandInv, PublisherInv, AdmitOK
      <4>2. QED
        BY <2>1, <4>1 DEF Keeps, Full, AsNew, Read, IndexOf
    <3>3. QED
      BY <3>1, <3>2
  <2>7. QED
    BY <2>1, <2>2, <2>6 DEF Safe, Keeps, Full, AsNew, Read, IndexOf, CurrentFile
<1>3. CASE ~ UNCHANGED <<vars, command, phase, next>> /\ ~ (Return /\ UNCHANGED shell)
  BY <1>3 DEF CommandNext, allVars, shell, RunPush, RunRemove, Run, CheckFlags, CheckFiles,
     DryRun,
     Setup, BadFile, CallAdd, CallRemove, BeginAdd, BeginRemove, Start, AddReturned, AllPushed,
     RemoveReturned, LoseFile, Kill, Exit, Proceed, Step, Upload, UpdateIndex, ScanIndex, EndScan,
     DeletePoolFile, PutPackages, PutPackagesGz, PublishRelease, PutInRelease, PutReleaseGpg,
     Fail, Finish, CommandInv, ShellOK, PublisherInv, AckedInv, TypeInv, ControlOK, AfterScan,
     AfterRelease
<1>4. QED
  BY <1>1, <1>2, <1>3

LEMMA StatusStep ==
  ASSUME CommandInv, [CommandNext]_allVars
  PROVE  StatusOK'
BY DEF CommandInv, ShellOK, StatusOK, CommandNext, allVars, shell, RunPush, RunRemove, Run,
   CheckFlags, CheckFiles, DryRun, Setup, BadFile, CallAdd, CallRemove, AddReturned, AllPushed,
   RemoveReturned, LoseFile, Kill, Exit, Proceed

LEMMA CommandInvariance ==
  ASSUME Flat
  PROVE  CommandSpec => []CommandInv
<1>1. CommandInit => CommandInv
  <2> SUFFICES ASSUME CommandInit
               PROVE  CommandInv
    OBVIOUS
  <2>1. AckedInv /\ BoundInv
    BY AckedInit, BoundInit DEF CommandInit
  <2>2. AdmitOK /\ ShellOK
    BY ShellInit DEF CommandInit, Init, AdmitOK
  <2>3. PassedOK /\ ResultOK /\ StatusOK
    BY DEF CommandInit, PassedOK, ResultOK, StatusOK
  <2>4. QED
    BY <2>1, <2>2, <2>3 DEF CommandInv, PublisherInv
<1>2. CommandInv /\ [CommandNext]_allVars => CommandInv'
  BY PublisherInvStep, ShellStep, PassedStep, ResultStep, StatusStep DEF CommandInv
<1>3. QED
  BY <1>1, <1>2, PTL DEF CommandSpec

\* However a push ends, whether a file does not parse or has gone, an Add fails in
\* any of its steps, or the process dies, the files before the one it stopped at
\* are published, all of them when it exits without an error, unless a later file
\* of the same push takes their place or retention has no room for them
\* (newPushDebCmd); and this whatever failed in the commands before.
THEOREM PushPublishesPrefix ==
  ASSUME Flat
  PROVE  CommandSpec => []PrefixPublished
<1>1. CommandInv => PrefixPublished
  <2> SUFFICES ASSUME CommandInv, Ended, command.kind = "push"
               PROVE  /\ \A j \in 1 .. next - 1 :
                           /\ command.files[j] # Garbage
                           /\ \/ Published(command.files[j])
                              \/ Superseded(command.files[j], j)
                      /\ status = "ok" /\ ~command.dryRun => next > Len(command.files)
    BY DEF PrefixPublished
  <2>1. command \in Pushes \cup Removals
    BY DEF CommandInv, ShellOK, Ended
  <2>2. ASSUME NEW j \in 1 .. next - 1
        PROVE  /\ command.files[j] # Garbage
               /\ Published(command.files[j]) \/ Superseded(command.files[j], j)
    <3>1. PICK f \in Debs : f = command.files[j] /\ f # Garbage /\ Safe(f, j)
      BY DEF CommandInv, PassedOK, Ended
    <3>2. IndexOf(f) \in Indexes /\ f.pkg \in Packages
      BY <2>1, FileOfPush
    <3>3. CASE [path |-> PathOf(IndexOf(f), f.pkg), build |-> f.build] \in acked
      <4>1. FileOK([path |-> PathOf(IndexOf(f), f.pkg), build |-> f.build])
        BY <3>3 DEF CommandInv, PublisherInv, AckedInv
      <4>2. /\ IndexAt(PathOf(IndexOf(f), f.pkg)) = IndexOf(f)
            /\ PathOf(IndexOf(f), f.pkg).pkg = f.pkg
        BY <3>2, PathsDiffer
      <4>3. Published(f)
        BY <4>1, <4>2 DEF FileOK, Lists, Published
      <4>4. QED
        BY <3>1, <4>3
    <3>4. CASE Full(Read(IndexOf(f)), f.pkg) \/ Later(f, j)
      BY <3>1, <3>4 DEF Full, AsNew, Later, Superseded
    <3>5. QED
      BY <3>1, <3>3, <3>4 DEF Safe, Keeps
  <2>3. QED
    BY <2>2 DEF CommandInv, StatusOK, Ended
<1>2. QED
  BY <1>1, CommandInvariance, PTL

-----------------------------------------------------------------------------
(* What a command that fails leaves behind.                                *)

\* Until the first interruption the bucket is as the publisher left it: the pool
\* agrees with the indexes, and they with the Release.
CleanInv ==
  /\ TypeInv
  /\ ShellOK
  /\ faults = 0 => PoolInv /\ IndexInv /\ outcome # "failed"

LEMMA CleanStep == CleanInv /\ [CommandNext]_allVars => CleanInv'
<1> SUFFICES ASSUME CleanInv, [CommandNext]_allVars
             PROVE  CleanInv'
  OBVIOUS
<1>1. ShellOK' /\ faults \in Nat
  BY ShellStep DEF CleanInv, TypeInv, TypeOK
<1>2. CASE Kill
  <2>1. UNCHANGED <<bucket, pc, op, locals, outcome, acked, ops>> /\ faults' = faults + 1
    BY <1>2 DEF Kill
  <2>2. faults' # 0 /\ faults' \in Nat
    BY <1>1, <2>1
  <2>3. TypeInv'
    BY <2>1, <2>2 DEF CleanInv, TypeInv, TypeOK, ControlOK, bucket, locals
  <2>4. QED
    BY <1>1, <2>2, <2>3 DEF CleanInv
<1>3. CASE ~ Kill
  <2>1. [Next]_vars
    BY <1>3, PublisherSteps DEF CleanInv
  <2>2. TypeInv'
    BY <2>1, TypeStep DEF CleanInv
  <2>3. faults' = 0 => faults = 0 /\ ~ Fail
    <3>1. CASE Fail
      BY <1>1, <3>1 DEF Fail
    <3>2. CASE ~ Fail
      BY <2>1, <3>2
      DEF Next, Step, vars, BeginAdd, BeginRemove, Start, Upload, UpdateIndex, ScanIndex, EndScan,
          DeletePoolFile, PutPackages, PutPackagesGz, PublishRelease, PutInRelease, PutReleaseGpg,
          Return
    <3>3. QED
      BY <3>1, <3>2
  <2>4. ASSUME faults' = 0
        PROVE  PoolInv' /\ IndexInv' /\ outcome' # "failed"
    <3>1. PoolInv /\ IndexInv /\ outcome # "failed"
      BY <2>3, <2>4 DEF CleanInv
    <3>2. outcome' # "failed"
      BY <2>1, <2>3, <2>4, <3>1
      DEF Next, Step, vars, BeginAdd, BeginRemove, Start, Upload, UpdateIndex, ScanIndex, EndScan,
          DeletePoolFile, PutPackages, PutPackagesGz, PublishRelease, PutInRelease, PutReleaseGpg,
          Return, Finish
    <3>3. RunsAgain /\ FailedOK'
      BY <3>1, <3>2 DEF RunsAgain, FailedOK
    <3>4. QED
      BY <2>1, <3>1, <3>2, <3>3, PoolStep, IndexStep
  <2>5. QED
    BY <1>1, <2>2, <2>4 DEF CleanInv
<1>4. QED
  BY <1>2, <1>3

\* Wrong flags, files that are missing, vanish or do not parse, and a setup that
\* fails stop a command at any of its files, but leave no repository half
\* published: pool, indexes, Release and signatures agree (checkFiles; Add parses
\* before it writes).
THEOREM CommandsFailCleanly ==
  ASSUME Signed
  PROVE  CommandSpec => []FailsCleanly
<1>1. CommandInit => CleanInv
  BY ShellInit, TypeInit, PoolInit, IndexInit DEF CommandInit, Init, CleanInv
<1>2. CleanInv => FailsCleanly
  <2> SUFFICES ASSUME CleanInv, Ended, faults = 0
               PROVE  /\ \A i \in Indexes : PoolMatches(i)
                      /\ DOMAIN packages # {} =>
                           packagesGz = packages /\ ReleaseCurrent /\ ReleaseSigned
    BY DEF FailsCleanly
  <2>1. PoolInv /\ IndexInv /\ Settled
    BY DEF CleanInv, ShellOK, Ended, Settled
  <2>2. \A i \in Indexes : PoolMatches(i)
    BY <2>1, PoolInvMatches DEF PoolMatchesPackages
  <2>3. DOMAIN packages # {} => packagesGz = packages /\ ReleaseCurrent
    BY <2>1, SettledIndexes DEF IndexInv, CurrentOK, Unchanging
  <2>4. DOMAIN packages # {} => ReleaseSigned
    BY <2>1, <2>3 DEF IndexInv, SignedOK, ReleaseCurrent
  <2>5. QED
    BY <2>2, <2>3, <2>4
<1>3. QED
  BY <1>1, <1>2, CleanStep, PTL DEF CommandSpec

-----------------------------------------------------------------------------
(* How a command gets to its end.                                          *)

IsPush == status # "none" /\ command.kind = "push"
IsRm   == status # "none" /\ command.kind = "rm"

\* A call was interrupted, and nothing has been called since.
Interrupted == pc = "idle" /\ outcome = "failed"

RemoveOf(c) == [kind |-> "remove", component |-> c.component, pkg |-> c.pkg]

\* A command calls the publisher only after its checks, for real, and starts with
\* its first file.
StageOK ==
  /\ phase \in {"shell", "flags", "files", "setup", "call", "wait"}
  /\ status \in {"none", "running", "ok", "error"}
  /\ phase \in {"flags", "files", "setup"} => next = 1
  /\ phase \in {"call", "wait"} => ~ command.dryRun
  /\ pc = "idle" => queue = {}

\* torn is remembered until a run of the command succeeds.
TornOK ==
  /\ Interrupted /\ phase # "wait" => torn
  /\ torn => status \in {"running", "error"} /\ ~ command.dryRun

\* A push that has called Add for some of its files got no error from it.
PublishedOK ==
  IsPush =>
    /\ phase = "call" /\ next > 1 => outcome = "published"
    /\ phase = "wait" /\ pc = "idle" => outcome \in {"published", "failed"}
    /\ phase = "shell" /\ status = "ok" /\ ~ command.dryRun =>
         outcome = "published" /\ next > Len(command.files)

\* The operation of an rm, the one to be run again if it was interrupted.
RemoveOpOK ==
  IsRm /\ (phase = "wait" \/ outcome = "failed") => op = RemoveOf(command)

RunOK == StageOK /\ TornOK /\ PublishedOK /\ RemoveOpOK

\* An Add has not yet written Packages.
Writing == pc \in {"upload", "updateIndex", "rewrite"}

\* Packages.gz is written with what was written to Packages.
WrittenOK == pc = "putGz" => Read(index) = BuildPackages(kept)

\* Packages.gz is the compressed Packages of an index, or about to be.
GzFollows(i) ==
  Holds(packagesGz, i, Read(i)) \/ (pc = "putGz" /\ index = i)

\* A push that is at its calls, or has made them all.
Calling ==
  \/ phase \in {"call", "wait"}
  \/ phase = "shell" /\ status = "ok" /\ ~ command.dryRun

\* It is for the files that a push has passed, and for the next one as soon as its
\* index is written.
PushGzOK ==
  IsPush /\ ~ Interrupted =>
    /\ Calling => \A j \in 1 .. next - 1 : GzFollows(IndexOf(command.files[j]))
    /\ phase = "wait" /\ ~ Writing => GzFollows(IndexOf(CurrentFile))

\* The files that the stanzas of an index list.
ListedFiles(c) == {[pkg |-> e.pkg, build |-> e.build] : e \in c}

Without(c, pkg) == {e \in c : e.pkg # pkg}

\* What an rm, however often it was interrupted, has done to the indexes.
RmIndexOK ==
  IsRm =>
    \A i \in Indexes :
      \/ ListedFiles(Read(i)) = ListedFiles(before[i])
      \/ /\ i.component = command.component
         /\ ListedFiles(Read(i)) = ListedFiles(Without(before[i], command.pkg))

\* An rm that is at its call and has not been interrupted, or has succeeded.
Removing ==
  \/ phase = "wait" /\ ~ Interrupted
  \/ phase = "shell" /\ status = "ok" /\ ~ command.dryRun

\* It has still to come to an index, or the version is no longer there.
RmGoneOK ==
  IsRm /\ Removing =>
    \A i \in DOMAIN packages :
      i.component = command.component =>
        \/ i \in queue
        \/ pc = "rewrite" /\ i = index
        \/ Without(Read(i), command.pkg) = Read(i)

LEMMA RunInit == CommandInit => RunOK
BY DEF CommandInit, Init, RunOK, StageOK, TornOK, PublishedOK, RemoveOpOK, Interrupted, IsPush,
   IsRm

\* A push has at least one file.
LEMMA FirstFile ==
  ASSUME NEW c \in Pushes
  PROVE  Len(c.files) \in Nat /\ Len(c.files) >= 1
<1>1. /\ c \in Pushes \cup Removals /\ c.kind = "push" /\ c.files # <<>>
  BY DEF Pushes
<1>2. c.files \in Seq(Debs \cup {Garbage})
  BY <1>1, CommandKinds
<1>3. QED
  BY <1>1, <1>2, EmptySeq, LenProperties

LEMMA RunStep ==
  ASSUME ShellOK, RunOK, ShellOK', [CommandNext]_allVars
  PROVE  RunOK'
<1> USE DEF RunOK, StageOK, TornOK, PublishedOK, RemoveOpOK, Interrupted, IsPush, IsRm
<1>1. ASSUME NEW c \in Pushes \cup Removals, Run(c)
      PROVE  RunOK'
  BY <1>1 DEF Run, vars, locals, ShellOK
<1>2. CASE CheckFlags
  <2>1. phase = "flags" /\ UNCHANGED vars
    BY <1>2 DEF CheckFlags
  <2>2. CASE Exit("error")
    BY <2>1, <2>2 DEF Exit, vars, locals, ShellOK
  <2>3. CASE Proceed("files") \/ Proceed("setup")
    BY <2>1, <2>3 DEF Proceed, vars, locals, ShellOK
  <2>4. QED
    BY <1>2, <2>2, <2>3 DEF CheckFlags
<1>12. CASE CheckFiles
  BY <1>12 DEF CheckFiles, Exit, Proceed, vars, locals, ShellOK
<1>13. CASE DryRun
  BY <1>13 DEF DryRun, Exit, vars, locals, ShellOK
<1>14. CASE Setup
  <2>1. phase = "setup" /\ ~ command.dryRun /\ UNCHANGED vars
    BY <1>14 DEF Setup
  <2>2. CASE Exit("error")
    BY <2>1, <2>2 DEF Exit, vars, locals, ShellOK
  <2>3. CASE Proceed("call")
    BY <2>1, <2>3 DEF Proceed, vars, locals, ShellOK
  <2>4. QED
    BY <1>14, <2>2, <2>3 DEF Setup
<1>10. CASE BadFile \/ RemoveReturned
  BY <1>10 DEF BadFile, RemoveReturned, Exit, vars, locals, ShellOK
<1>11. CASE Kill
  BY <1>11 DEF Kill, Exit, locals, ShellOK
<1>3. CASE AllPushed
  <2>1. command \in Pushes
    BY <1>3, CommandKinds DEF AllPushed, ShellOK, Removals
  <2>2. next > 1
    BY <1>3, <2>1, FirstFile DEF AllPushed, ShellOK
  <2>3. QED
    BY <1>3, <2>2 DEF AllPushed, Exit, vars, locals, ShellOK
<1>4. CASE CallAdd \/ CallRemove
  BY <1>4 DEF CallAdd, CallRemove, BeginAdd, BeginRemove, Start, Proceed, ShellOK, RemoveOf
<1>5. CASE AddReturned
  BY <1>5 DEF AddReturned, Exit, vars, locals, ShellOK
<1>6. CASE LoseFile \/ UNCHANGED allVars
  BY <1>6 DEF LoseFile, allVars, shell, vars, locals
<1>7. CASE Step /\ UNCHANGED shell
  <2>1. pc # "idle" /\ UNCHANGED <<op, command, phase, next, status, torn>>
    BY <1>7 DEF shell, Step, Upload, UpdateIndex, ScanIndex, EndScan, DeletePoolFile, PutPackages,
       PutPackagesGz, PublishRelease, PutInRelease, PutReleaseGpg, Return, Finish
  <2>2. phase = "wait"
    BY <2>1 DEF ShellOK
  <2>3. CASE Return
    BY <2>1, <2>2, <2>3 DEF Return, Finish, ShellOK, AddOf
  <2>4. CASE ~ Return
    <3>1. pc' # "idle" /\ UNCHANGED outcome
      BY <1>7, <2>4 DEF Step, Upload, UpdateIndex, ScanIndex, EndScan, DeletePoolFile,
         PutPackages,
         PutPackagesGz, PublishRelease, PutInRelease, PutReleaseGpg, AfterScan, AfterRelease
    <3>2. QED
      BY <2>1, <2>2, <3>1
  <2>5. QED
    BY <2>3, <2>4
<1>8. CASE Fail /\ UNCHANGED shell
  BY <1>8 DEF Fail, Finish, shell, ShellOK
<1>9. QED
  BY <1>1, <1>2, <1>3, <1>4, <1>5, <1>6, <1>7, <1>8, <1>10, <1>11, <1>12, <1>13, <1>14
     DEF CommandNext, RunPush, RunRemove

LEMMA WrittenStep == WrittenOK /\ [Next]_vars => WrittenOK'
<1> SUFFICES ASSUME WrittenOK, [Next]_vars
             PROVE  WrittenOK'
  OBVIOUS
<1>1. CASE PutPackages
  BY <1>1, ReadAfterPut DEF PutPackages, WrittenOK, locals
<1>2. CASE ~ PutPackages
  <2>1. \A i : Read(i)' = Read(i)
    BY <1>2, ReadOtherwise
  <2>2. pc' = "putGz" => pc = "putGz" /\ UNCHANGED <<index, kept>>
    BY <1>2 DEF Next, Step, vars, locals, BeginAdd, BeginRemove, Start, Upload, UpdateIndex,
       ScanIndex, EndScan, DeletePoolFile, PutPackagesGz, PublishRelease, PutInRelease,
       PutReleaseGpg, Return, Fail, Finish, AfterScan, AfterRelease
  <2>3. QED
    BY <2>1, <2>2 DEF WrittenOK
<1>3. QED
  BY <1>1, <1>2

\* Once they agree they do so until an interruption.
LEMMA GzFollowsStep ==
  ASSUME WrittenOK, [Next]_vars, ~ Fail, NEW i, GzFollows(i)
  PROVE  GzFollows(i)'
<1>1. CASE PutPackages
  BY <1>1, ReadAfterPut DEF PutPackages, locals, GzFollows, Holds
<1>2. CASE PutPackagesGz
  <2>1. /\ pc = "putGz" /\ Read(i)' = Read(i) /\ Read(index) = BuildPackages(kept)
        /\ packagesGz' = Put(packagesGz, index, BuildPackages(kept))
    BY <1>2 DEF PutPackagesGz, WrittenOK, Read
  <2>2. QED
    BY <2>1 DEF GzFollows, Holds, Put
<1>3. CASE ~ PutPackages /\ ~ PutPackagesGz
  <2>1. Read(i)' = Read(i)
    BY <1>3, ReadOtherwise
  <2>2. UNCHANGED packagesGz /\ (pc = "putGz" => UNCHANGED <<pc, index>>)
    BY <1>3 DEF Next, Step, vars, bucket, locals, BeginAdd, BeginRemove, Start, Admissible,
       Upload,
       UpdateIndex, ScanIndex, EndScan, DeletePoolFile, PublishRelease, PutInRelease,
       PutReleaseGpg, Return, Finish
  <2>3. QED
    BY <2>1, <2>2 DEF GzFollows
<1>4. QED
  BY <1>1, <1>2, <1>3

LEMMA PushGzStep ==
  ASSUME TypeInv, WrittenOK, ShellOK, RunOK, PushGzOK, RunOK', [CommandNext]_allVars
  PROVE  PushGzOK'
<1> SUFFICES ASSUME IsPush', ~ Interrupted'
             PROVE  /\ Calling' => \A j \in 1 .. next' - 1 : GzFollows(IndexOf(command.files[j]))'
                    /\ phase' = "wait" /\ ~ Writing' => GzFollows(IndexOf(CurrentFile))'
  BY DEF PushGzOK
<1>1. CASE UNCHANGED <<vars, command, next, status, phase>> \/ AllPushed
  <2>1. /\ UNCHANGED <<packages, packagesGz, pc, index, outcome, command, next>>
        /\ status # "none" /\ (Calling' => Calling) /\ (phase' = "wait" => phase = "wait")
    BY <1>1 DEF AllPushed, Exit, ShellOK, vars, bucket, locals, Calling, IsPush
  <2>2. \A i : GzFollows(i) => GzFollows(i)'
    BY <2>1 DEF GzFollows, Read
  <2>3. IsPush /\ ~ Interrupted /\ (Writing => Writing')
    BY <2>1 DEF IsPush, Interrupted, Writing
  <2>4. \A f : IndexOf(f)' = IndexOf(f)
    BY <2>1 DEF IndexOf
  <2>5. CurrentFile' = CurrentFile
    BY <2>1 DEF CurrentFile
  <2>6. QED
    BY <2>1, <2>2, <2>3, <2>4, <2>5 DEF PushGzOK, IndexOf
<1>2. CASE next' = 1 /\ (phase' = "wait" => Writing')
  BY <1>2
<1>3. CASE ~ Calling' /\ phase' # "wait"
  BY <1>3
<1>4. CASE AddReturned /\ outcome # "failed"
  <2>1. /\ UNCHANGED <<packages, packagesGz, pc, index, outcome, command>>
        /\ pc = "idle" /\ phase = "wait" /\ IsPush /\ next \in Nat
        /\ next' = next + 1 /\ phase' = "call"
    BY <1>4 DEF AddReturned, ShellOK, vars, bucket, locals, IsPush
  <2>2. /\ \A j \in 1 .. next - 1 : GzFollows(IndexOf(command.files[j]))
        /\ GzFollows(IndexOf(command.files[next]))
    BY <1>4, <2>1 DEF PushGzOK, Calling, Interrupted, Writing, CurrentFile
  <2>3. \A j \in 1 .. next : GzFollows(IndexOf(command.files[j]))
    <3>1. \A j \in 1 .. next : j \in 1 .. next - 1 \/ j = next
      BY <2>1
    <3>2. QED
      BY <2>2, <3>1
  <2>4. \A i : GzFollows(i) => GzFollows(i)'
    BY <2>1 DEF GzFollows, Read
  <2>5. next' - 1 = next
    BY <2>1
  <2>6. QED
    BY <2>1, <2>3, <2>4, <2>5 DEF IndexOf
<1>5. CASE CallAdd \/ ((Step \/ Fail) /\ UNCHANGED shell)
  <2>1. /\ UNCHANGED <<command, next, status>> /\ next \in Nat \ {0} /\ phase' = "wait"
        /\ phase \in {"call", "wait"} /\ status # "none"
    BY <1>5 DEF CallAdd, Proceed, shell, ShellOK, Step, Upload, UpdateIndex,
       ScanIndex, EndScan, DeletePoolFile, PutPackages, PutPackagesGz, PublishRelease,
       PutInRelease, PutReleaseGpg, Return, Fail
  <2>2. ~ Fail
    BY DEF Fail, Finish, Interrupted
  <2>3. [Next]_vars
    BY <1>5, PublisherSteps, CalledFile DEF Next
  <2>4. \A i : GzFollows(i) => GzFollows(i)'
    BY <2>2, <2>3, GzFollowsStep
  <2>5. \A f : IndexOf(f)' = IndexOf(f)
    BY <2>1 DEF IndexOf
  <2>6. ASSUME NEW j \in 1 .. next - 1
        PROVE  GzFollows(IndexOf(command.files[j]))'
    <3>1. ~ Interrupted
      <4>1. CASE CallAdd
        BY <2>1, <2>6, <4>1 DEF CallAdd, RunOK, PublishedOK, IsPush, Interrupted
      <4>2. CASE (Step \/ Fail) /\ UNCHANGED shell
        BY <4>2 DEF Interrupted, Step, Upload, UpdateIndex,
          ScanIndex, EndScan, DeletePoolFile, PutPackages, PutPackagesGz, PublishRelease,
          PutInRelease, PutReleaseGpg, Return, Fail
      <4>3. QED
        BY <1>5, <4>1, <4>2
    <3>2. GzFollows(IndexOf(command.files[j]))
      BY <2>1, <2>6, <3>1 DEF PushGzOK, IsPush, Calling
    <3>3. QED
      BY <2>1, <2>4, <3>2 DEF IndexOf
  <2>7. ASSUME ~ Writing'
        PROVE  GzFollows(IndexOf(CurrentFile))'
    <3>1. (Step \/ Fail) /\ UNCHANGED shell
      BY <1>5, <2>7 DEF CallAdd, BeginAdd, Start, Writing
    <3>2. phase = "wait" /\ pc # "idle" /\ op = AddOf(CurrentFile) /\ CurrentFile \in Debs
          /\ command \in Pushes \cup Removals
      BY <2>1, <3>1 DEF ShellOK, IsPush, Step, Upload, UpdateIndex,
          ScanIndex, EndScan, DeletePoolFile, PutPackages, PutPackagesGz, PublishRelease,
          PutInRelease, PutReleaseGpg, Return, Fail
    <3>3. CurrentFile' = CurrentFile
      BY <2>1 DEF CurrentFile
    <3>4. GzFollows(IndexOf(CurrentFile)) => GzFollows(IndexOf(CurrentFile))'
      BY <2>1, <2>4, <3>3 DEF IndexOf
    <3>5. CASE ~ Writing
      BY <2>1, <3>2, <3>4, <3>5 DEF PushGzOK, IsPush, Interrupted
    <3>6. CASE Writing
      <4>1. PutPackages
        BY <2>2, <2>7, <3>1, <3>2, <3>6 DEF Writing, Step, Upload, UpdateIndex,
          ScanIndex, EndScan, DeletePoolFile, PutPackagesGz, PublishRelease,
          PutInRelease, PutReleaseGpg, Return
      <4>2. op \in AddOps
        BY <3>2, CommandKinds DEF AddOf, AddOps, Debs
      <4>3. index = IndexOf(CurrentFile) /\ pc' = "putGz" /\ UNCHANGED index
        BY <3>2, <4>1, <4>2, FileOfPush DEF PutPackages, locals, TypeInv, ControlOK
      <4>4. QED
        BY <2>1, <3>3, <4>3 DEF GzFollows, IndexOf
    <3>7. QED
      BY <3>5, <3>6
  <2>8. QED
    BY <2>1, <2>6, <2>7
<1>6. CASE CallRemove \/ RemoveReturned
  BY <1>6 DEF CallRemove, RemoveReturned, Proceed, Exit, IsPush
<1>7. CASE \/ \E c \in Pushes : RunPush(c)
           \/ \E c \in Removals : RunRemove(c)
  BY <1>2, <1>7 DEF RunPush, RunRemove, Run
<1>8. CASE CheckFlags \/ CheckFiles \/ DryRun \/ Setup \/ BadFile \/ AddReturned \/ LoseFile \/ Kill
           \/ UNCHANGED allVars
  BY <1>1, <1>2, <1>3, <1>4, <1>8
  DEF CheckFlags, CheckFiles, DryRun, Setup, BadFile, AddReturned, LoseFile, Kill, Exit, Proceed,
      vars, allVars, shell, Calling, RunOK, StageOK
<1>9. QED
  BY <1>1, <1>5, <1>6, <1>7, <1>8 DEF CommandNext

LEMMA BuildListsFiles ==
  ASSUME NEW c \in Contents
  PROVE  /\ ListedFiles(BuildPackages(c)) = ListedFiles(c)
         /\ \A pkg : Without(c, pkg) = c =>
                       Without(BuildPackages(c), pkg) = BuildPackages(c)
<1> DEFINE listed(e) == [e EXCEPT !.at = Cardinality({d \in c : d.at <= e.at})]
<1>1. \A e \in c : listed(e).pkg = e.pkg /\ listed(e).build = e.build
  BY DEF Contents, Stanzas
<1>2. BuildPackages(c) = {listed(e) : e \in c}
  BY DEF BuildPackages
<1> HIDE DEF listed
<1>3. QED
  BY <1>1, <1>2 DEF ListedFiles, Without

LEMMA WithoutFiles ==
  ASSUME NEW c, NEW d, NEW pkg, ListedFiles(c) = ListedFiles(d)
  PROVE  ListedFiles(Without(c, pkg)) = ListedFiles(Without(d, pkg))
<1>1. \A a, b : ListedFiles(a) \subseteq ListedFiles(b) =>
        ListedFiles(Without(a, pkg)) \subseteq ListedFiles(Without(b, pkg))
  <2> SUFFICES ASSUME NEW a, NEW b, ListedFiles(a) \subseteq ListedFiles(b),
                      NEW x \in a, x.pkg # pkg
               PROVE  \E y \in b : y.pkg # pkg /\ y.pkg = x.pkg /\ y.build = x.build
    BY DEF ListedFiles, Without
  <2>1. PICK y \in b : [pkg |-> y.pkg, build |-> y.build] = [pkg |-> x.pkg, build |-> x.build]
    BY DEF ListedFiles
  <2>2. QED
    BY <2>1
<1>2. QED
  BY <1>1

\* The steps of a command that leave the publisher alone, but for the one that
\* runs it.
LEMMA RmIndexStep ==
  ASSUME Flat, ShellOK, RunOK, IsRm => PoolInv, RmIndexOK, [CommandNext]_allVars
  PROVE  RmIndexOK'
<1> SUFFICES ASSUME IsRm', NEW i \in Indexes
             PROVE  \/ ListedFiles(Read(i))' = ListedFiles(before[i])'
                    \/ /\ i.component = command'.component
                       /\ ListedFiles(Read(i))' = ListedFiles(Without(before[i], command.pkg))'
  BY DEF RmIndexOK
<1>1. CASE \/ \E c \in Pushes : RunPush(c)
           \/ \E c \in Removals : RunRemove(c)
  <2>1. PICK c : Run(c)
    BY <1>1 DEF RunPush, RunRemove
  <2>2. Read(i)' = Read(i) /\ command' = c
    BY <2>1 DEF Run, vars, bucket, Read
  <2>3. CASE status = "error" /\ c = command
    BY <2>1, <2>2, <2>3 DEF Run, RmIndexOK, IsRm
  <2>4. CASE ~ (status = "error" /\ c = command)
    BY <2>1, <2>2, <2>4 DEF Run
  <2>5. QED
    BY <2>3, <2>4
<1>2. CASE PutPackages /\ UNCHANGED shell
  <2>1. /\ UNCHANGED <<before, command, status>> /\ IsRm /\ phase = "wait"
        /\ op = RemoveOf(command) /\ pc = "rewrite"
    BY <1>2 DEF shell, PutPackages, ShellOK, RunOK, RemoveOpOK, IsRm
  <2>2. /\ TypeInv /\ op \in RemoveOps
        /\ kept = Without(Read(index), command.pkg) /\ kept \in Contents
        /\ index.component = command.component
    <3>1. PoolInv /\ TypeInv
      BY <2>1 DEF PoolInv, WriteInv
    <3>2. op \in AddOps \cup RemoveOps /\ op.kind = "remove"
      BY <2>1, <3>1 DEF TypeInv, ControlOK, RemoveOf
    <3>3. op \in RemoveOps
      BY <3>2 DEF AddOps
    <3>4. kept = Without(Read(index), command.pkg) /\ kept \in Contents
      BY <2>1, <3>1, <3>3 DEF PoolInv, WriteInv, RewriteOK, TypeInv, TypeOK, Matching, Without,
         RemoveOf
    <3>5. index \in IndexesOf(op.component) /\ op.component \in Components
      BY <2>1, <3>1, <3>3 DEF PoolInv, QueueOK, RemoveOps
    <3>6. index.component = op.component
      BY <3>5 DEF IndexesOf, Flat
    <3>7. QED
      BY <2>1, <3>1, <3>3, <3>4, <3>6 DEF RemoveOf
  <2>3. Read(i)' = IF i = index THEN BuildPackages(kept) ELSE Read(i)
    BY <1>2, ReadAfterPut
  <2>4. CASE i # index
    BY <2>1, <2>3, <2>4 DEF RmIndexOK
  <2>5. CASE i = index
    <3>1. ListedFiles(Read(i))' = ListedFiles(Without(Read(i), command.pkg))
      BY <2>2, <2>3, <2>5, BuildListsFiles DEF ListedFiles
    <3>2. CASE ListedFiles(Read(i)) = ListedFiles(before[i])
      BY <2>1, <2>2, <2>5, <3>1, <3>2, WithoutFiles
    <3>3. CASE ListedFiles(Read(i)) = ListedFiles(Without(before[i], command.pkg))
      <4>1. ListedFiles(Without(Read(i), command.pkg))
              = ListedFiles(Without(Without(before[i], command.pkg), command.pkg))
        BY <3>3, WithoutFiles
      <4>2. Without(Without(before[i], command.pkg), command.pkg) = Without(before[i],
         command.pkg)
        BY DEF Without
      <4>3. QED
        BY <2>1, <2>2, <2>5, <3>1, <4>1, <4>2
    <3>4. QED
      BY <2>1, <3>2, <3>3 DEF RmIndexOK
  <2>6. QED
    BY <2>4, <2>5
<1>3. CASE ~ ((\E c \in Pushes : RunPush(c)) \/ (\E c \in Removals : RunRemove(c))
              \/ (PutPackages /\ UNCHANGED shell))
  <2>1. UNCHANGED <<before, command, packages>> /\ (status' # "none" => status # "none")
    BY <1>3 DEF CommandNext, allVars, shell, vars, bucket, CheckFlags, CheckFiles, DryRun, Setup,
       BadFile, CallAdd, CallRemove, BeginAdd, BeginRemove, Start, AddReturned, AllPushed,
       RemoveReturned, LoseFile, Kill, Exit, Proceed, Step, Upload, UpdateIndex, ScanIndex,
          EndScan,
       DeletePoolFile, PutPackagesGz, PublishRelease, PutInRelease, PutReleaseGpg, Return, Fail,
       Finish, ShellOK
  <2>2. QED
    BY <2>1 DEF RmIndexOK, IsRm, Read
<1>4. QED
  BY <1>1, <1>2, <1>3

LEMMA RmGoneStep ==
  ASSUME ShellOK, RunOK, IsRm => PoolInv, RmGoneOK, RunOK', [CommandNext]_allVars
  PROVE  RmGoneOK'
<1> SUFFICES ASSUME IsRm', Removing', NEW i \in DOMAIN packages',
                    i.component = command'.component
             PROVE  \/ i \in queue'
                    \/ pc' = "rewrite" /\ i = index'
                    \/ Without(Read(i), command.pkg)' = Read(i)'
  BY DEF RmGoneOK
<1>1. CASE UNCHANGED <<vars, command>> /\ (Removing' => Removing) /\ status # "none"
  BY <1>1 DEF vars, bucket, locals, RmGoneOK, IsRm, Read, Without
<1>2. CASE CallRemove
  <2>1. /\ UNCHANGED <<packages, command>> /\ command.component \in Components
        /\ queue' = IndexesOf(command.component)
    BY <1>2, CommandKinds DEF CallRemove, BeginRemove, Start, Proceed, bucket, ShellOK
  <2>2. i \in queue'
    BY <2>1, WithinAssumption DEF IndexesOf
  <2>3. QED
    BY <2>2
<1>3. CASE (Step \/ Fail) /\ UNCHANGED shell
  <2>1. /\ UNCHANGED <<phase, command, status, op>> /\ phase = "wait" /\ IsRm /\ ~ Interrupted
        /\ op = RemoveOf(command) /\ PoolInv /\ pc # "idle" /\ ~ Fail
    BY <1>3 DEF shell, ShellOK, RunOK, RemoveOpOK, IsRm, Interrupted, Removing, Fail, Finish,
       Step, Upload, UpdateIndex, ScanIndex, EndScan, DeletePoolFile, PutPackages, PutPackagesGz,
       PublishRelease, PutInRelease, PutReleaseGpg, Return
  <2>2. op \in RemoveOps /\ op \notin AddOps
    BY <2>1 DEF PoolInv, WriteInv, TypeInv, ControlOK, RemoveOf, AddOps, RemoveOps
  <2>3. Removing
    BY <2>1 DEF Removing
  <2>4. CASE PutPackages
    <3>1. /\ pc = "rewrite" /\ kept \in Contents /\ UNCHANGED queue
          /\ packages' = Put(packages, index, BuildPackages(kept))
          /\ kept = Without(Read(index), command.pkg)
      BY <2>1, <2>2, <2>4 DEF PutPackages, locals, PoolInv, WriteInv, RewriteOK, TypeInv, TypeOK,
         Matching, Without, RemoveOf
    <3>2. CASE i = index
      <4>1. Without(kept, command.pkg) = kept
        BY <3>1 DEF Without
      <4>2. Read(i)' = BuildPackages(kept)
        BY <2>4, <3>2, ReadAfterPut
      <4>3. Without(BuildPackages(kept), command.pkg) = BuildPackages(kept)
        BY <3>1, <4>1, BuildListsFiles
      <4>4. QED
        BY <2>1, <4>2, <4>3 DEF Without
    <3>3. CASE i # index
      <4>1. i \in DOMAIN packages /\ Read(i)' = Read(i)
        BY <2>4, <3>1, <3>3, ReadAfterPut DEF Put
      <4>2. QED
        BY <2>1, <2>3, <3>1, <3>3, <4>1 DEF RmGoneOK, Without
    <3>4. QED
      BY <3>2, <3>3
  <2>5. CASE ~ PutPackages
    <3>1. UNCHANGED packages /\ Read(i)' = Read(i)
      BY <1>3, <2>1, <2>5 DEF Read, bucket, Step, Upload, UpdateIndex, ScanIndex, EndScan,
         DeletePoolFile, PutPackagesGz, PublishRelease, PutInRelease, PutReleaseGpg, Return,
            Finish
    <3>2. \/ i \in queue
          \/ pc = "rewrite" /\ i = index
          \/ Without(Read(i), command.pkg) = Read(i)
      BY <2>1, <2>3, <3>1 DEF RmGoneOK
    <3>3. CASE ScanIndex
      <4>1. PICK j \in queue :
              /\ queue' = queue \ {j}
              /\ Matching(Read(j), op) # {} => pc' = "rewrite" /\ index' = j
        BY <3>3 DEF ScanIndex
      <4>2. pc = "scan"
        BY <3>3 DEF ScanIndex
      <4>3. Matching(Read(j), op) = {} => Without(Read(j), command.pkg) = Read(j)
        BY <2>1 DEF Matching, Without, RemoveOf
      <4>4. QED
        BY <2>1, <3>1, <3>2, <4>1, <4>2, <4>3 DEF Without
    <3>4. CASE ~ ScanIndex
      <4>1. (i \in queue => i \in queue') /\ (pc = "rewrite" => UNCHANGED <<pc, index>>)
        BY <1>3, <2>1, <2>2, <2>5, <3>4 DEF Step, locals, Upload, UpdateIndex, EndScan,
           DeletePoolFile,
           PutPackagesGz, PublishRelease, PutInRelease, PutReleaseGpg, Return, Finish,
           PoolInv, QueueOK
      <4>2. QED
        BY <2>1, <3>1, <3>2, <4>1 DEF Without
    <3>5. QED
      BY <3>3, <3>4
  <2>6. QED
    BY <2>4, <2>5
<1>4. CASE RemoveReturned \/ LoseFile \/ UNCHANGED allVars
  BY <1>1, <1>4 DEF RemoveReturned, Exit, LoseFile, allVars, shell, vars, Removing, Interrupted,
     ShellOK, IsRm
<1>5. CASE CallAdd \/ AddReturned \/ AllPushed
  BY <1>5 DEF CallAdd, AddReturned, AllPushed, Proceed, Exit, IsRm
<1>6. CASE CheckFlags \/ CheckFiles \/ DryRun \/ Setup \/ BadFile \/ Kill
           \/ (\E c \in Pushes : RunPush(c)) \/ (\E c \in Removals : RunRemove(c))
  BY <1>6 DEF CheckFlags, CheckFiles, DryRun, Setup, BadFile, Kill, RunPush, RunRemove, Run,
     Proceed, Exit, Removing
<1>7. QED
  BY <1>2, <1>3, <1>4, <1>5, <1>6 DEF CommandNext

-----------------------------------------------------------------------------
(* Stanzas that an Add, once it is run, is going to prune.                 *)

\* A stanza of c in the file that lists c.
Placed(e, c) == [e EXCEPT !.at = Cardinality({d \in c : d.at <= e.at})]

\* The packages that are ahead of e, when o is added to c, whichever of the packages
\* of again are added before that and so go to the end: those of a greater rank, and
\* of equal rank those in front of e that stay there.
Certain(c, o, again, e) ==
  {x.pkg : x \in {y \in Insert(c, o) :
     /\ y.pkg.name = e.pkg.name
     /\ \/ Rank[y.pkg.version] > Rank[e.pkg.version]
        \/ /\ Rank[y.pkg.version] = Rank[e.pkg.version]
           /\ y.at < e.at
           /\ y.pkg \notin again}}

\* The Add of o is going to prune e, or of a later version of c that still lists it.
Displaced(c, o, again, e) ==
  Keep > 0 /\ Keep <= Cardinality(Certain(c, o, again, e))

LEMMA PlacedOrder ==
  ASSUME NEW c \in Contents
  PROVE  /\ BuildPackages(c) = {Placed(e, c) : e \in c}
         /\ \A e \in c : Placed(e, c).pkg = e.pkg /\ Placed(e, c).build = e.build
         /\ \A x, y \in c : x.at < y.at => Placed(x, c).at < Placed(y, c).at
<1> DEFINE upTo(e) == {d \in c : d.at <= e.at}
<1>1. IsFiniteSet(c) /\ \A e \in c : e \in Stanzas /\ e.at \in Nat
  BY DEF Contents, Stanzas
<1>2. \A e \in c : /\ Placed(e, c).pkg = e.pkg /\ Placed(e, c).build = e.build
                   /\ Placed(e, c).at = Cardinality(upTo(e))
  BY <1>1 DEF Placed, Stanzas
<1>3. ASSUME NEW x \in c, NEW y \in c, x.at < y.at
      PROVE  Cardinality(upTo(x)) < Cardinality(upTo(y))
  <2>1. upTo(x) \subseteq upTo(y) /\ y \in upTo(y) /\ y \notin upTo(x)
    BY <1>1, <1>3
  <2>2. IsFiniteSet(upTo(x)) /\ IsFiniteSet(upTo(y))
    BY <1>1, FS_Subset
  <2> HIDE DEF upTo
  <2>3. /\ Cardinality(upTo(x)) <= Cardinality(upTo(y))
        /\ Cardinality(upTo(x)) # Cardinality(upTo(y))
    BY <2>1, <2>2, FS_Subset
  <2>4. Cardinality(upTo(x)) \in Nat /\ Cardinality(upTo(y)) \in Nat
    BY <2>2, FS_CardinalityType
  <2>5. QED
    BY <2>3, <2>4
<1>4. BuildPackages(c) = {Placed(e, c) : e \in c}
  BY DEF BuildPackages, Placed
<1> HIDE DEF upTo
<1>5. QED
  BY <1>2, <1>3, <1>4

\* A new stanza comes last.
LEMMA InsertedLast ==
  ASSUME NEW c \in Contents, Written(c), NEW o \in AddOps
  PROVE  /\ \A e \in c : e.pkg # o.pkg => e \in Insert(c, o)
         /\ \E e \in Insert(c, o) : e.pkg = o.pkg /\ e.build = o.build
         /\ \A e \in Insert(c, o) : e.pkg = o.pkg => e.build = o.build
         /\ \A e \in Insert(c, o) : e.pkg # o.pkg => e \in c
         /\ \A x \in c, e \in Insert(c, o) : e.pkg = o.pkg => x.at < e.at
<1> DEFINE new == [pkg |-> o.pkg, build |-> o.build, at |-> Cardinality(c) + 1]
<1>1. Cardinality(c) \in Nat /\ \A e \in c : e.at \in Nat /\ e.at <= Cardinality(c)
  BY FS_CardinalityType DEF Contents, Stanzas, Written
<1>2. Insert(c, o) = {e \in c : e.pkg # o.pkg} \cup {new}
  BY DEF Insert
<1>3. new.pkg = o.pkg /\ new.build = o.build /\ \A x \in c : x.at < new.at
  BY <1>1
<1> HIDE DEF new
<1>4. QED
  BY <1>2, <1>3

\* Whatever is newer than a stanza that stays, stays.
LEMMA NewerStays ==
  ASSUME NEW items \in Contents, Spaced(items), NEW e \in Prune(items), NEW x \in items,
         x.pkg.name = e.pkg.name, Newer(x, e, AgeOf)
  PROVE  x \in Prune(items)
<1>1. e \in items /\ Orderly(items, GroupOf, AgeOf)
  BY PruneSubset, ContentsOrderly
<1>2. CASE Keep > 0
  <2>1. Prune(items) = Retain(items, Keep, GroupOf, AgeOf)
    BY <1>2 DEF Prune
  <2>2. GroupOf[x.pkg] = GroupOf[e.pkg]
    BY <1>1 DEF Contents, Stanzas, GroupOf
  <2>3. Cardinality(Ahead(items, x, GroupOf, AgeOf)) < Cardinality(Ahead(items, e, GroupOf,
     AgeOf))
    BY <1>1, <2>2, AheadGrows
  <2>4. /\ Cardinality(Ahead(items, x, GroupOf, AgeOf)) \in Nat
        /\ Cardinality(Ahead(items, e, GroupOf, AgeOf)) \in Nat
    BY <1>1, AheadFinite
  <2>5. QED
    BY <2>1, <2>3, <2>4, KeepAssumption DEF Retain
<1>3. CASE ~ (Keep > 0)
  BY <1>3 DEF Prune
<1>4. QED
  BY <1>2, <1>3

\* What Newer says of two stanzas.
LEMMA NewerStanza ==
  ASSUME NEW c \in Contents, NEW x \in c, NEW e \in c
  PROVE  /\ Newer(x, e, AgeOf) <=>
              \/ Rank[x.pkg.version] > Rank[e.pkg.version]
              \/ Rank[x.pkg.version] = Rank[e.pkg.version] /\ x.at < e.at
         /\ Rank[x.pkg.version] \in Nat /\ x.at \in Nat
         /\ x.pkg \in Packages /\ GroupOf[x.pkg] = x.pkg.name
BY RankAssumption DEF Contents, Stanzas, Packages, AgeOf, GroupOf, Newer

\* The packages of a name that are ahead of e.
LEMMA AheadOfName ==
  ASSUME NEW c \in Contents, NEW e \in c
  PROVE  Ahead(c, e, GroupOf, AgeOf)
           = {x.pkg : x \in {y \in c : /\ y.pkg.name = e.pkg.name
                                       /\ \/ Rank[y.pkg.version] > Rank[e.pkg.version]
                                          \/ /\ Rank[y.pkg.version] = Rank[e.pkg.version]
                                             /\ y.at < e.at}}
<1>1. \A y \in c : /\ GroupOf[y.pkg] = GroupOf[e.pkg] <=> y.pkg.name = e.pkg.name
                   /\ Newer(y, e, AgeOf) <=>
                        \/ Rank[y.pkg.version] > Rank[e.pkg.version]
                        \/ Rank[y.pkg.version] = Rank[e.pkg.version] /\ y.at < e.at
  BY NewerStanza
<1>2. QED
  BY <1>1 DEF Ahead

\* A stanza that is displaced goes when o is added.
LEMMA DisplacedGoes ==
  ASSUME NEW c \in Contents, Written(c), NEW o \in AddOps, NEW again,
         NEW e \in Insert(c, o), Displaced(c, o, again, e)
  PROVE  e \notin Prune(Insert(c, o))
<1> DEFINE items == Insert(c, o)
           ahead == Ahead(items, e, GroupOf, AgeOf)
<1>1. items \in Contents /\ Spaced(items) /\ Orderly(items, GroupOf, AgeOf)
  BY InsertType, InsertSpaced, ContentsOrderly
<1>2. Certain(c, o, again, e) \subseteq ahead
  BY <1>1, AheadOfName DEF Certain
<1>3. IsFiniteSet(ahead) /\ Cardinality(ahead) \in Nat
  BY <1>1, AheadFinite
<1>4. Cardinality(Certain(c, o, again, e)) <= Cardinality(ahead)
      /\ Cardinality(Certain(c, o, again, e)) \in Nat
  BY <1>2, <1>3, FS_Subset, FS_CardinalityType
<1>5. Keep > 0 /\ ~ (Cardinality(ahead) < Keep)
  BY <1>3, <1>4, KeepAssumption DEF Displaced
<1>6. QED
  BY <1>5 DEF Prune, Retain

\* A stanza that goes when o is added is displaced, if nothing of equal rank in
\* front of it is added again.
LEMMA GoneIsDisplaced ==
  ASSUME NEW c \in Contents, Written(c), NEW o \in AddOps, NEW again,
         NEW e \in Insert(c, o), e.pkg # o.pkg, e \notin Prune(Insert(c, o)),
         \A x \in c : x.pkg \in again /\ x.pkg # o.pkg => ~ (x.at < e.at)
  PROVE  Displaced(c, o, again, e)
<1> DEFINE items == Insert(c, o)
           ahead == Ahead(items, e, GroupOf, AgeOf)
<1>1. items \in Contents /\ Spaced(items) /\ Orderly(items, GroupOf, AgeOf)
  BY InsertType, InsertSpaced, ContentsOrderly
<1>2. Keep > 0 /\ ~ (Cardinality(ahead) < Keep)
  BY DEF Prune, Retain
<1>3. IsFiniteSet(ahead) /\ Cardinality(ahead) \in Nat
  BY <1>1, AheadFinite
<1>4. e \in c
  BY InsertedLast
<1>5. ASSUME NEW x \in items, x.at < e.at
      PROVE  x.pkg \notin again
  <2>1. x.at \in Nat /\ e.at \in Nat
    BY <1>1 DEF Contents, Stanzas
  <2>2. x.pkg # o.pkg
    BY <1>4, <1>5, <2>1, InsertedLast
  <2>3. x \in c
    BY <2>2, InsertedLast
  <2>4. QED
    BY <1>5, <2>2, <2>3
<1>6. Certain(c, o, again, e) = ahead
  BY <1>1, <1>5, AheadOfName DEF Certain
<1>7. QED
  BY <1>2, <1>3, <1>6, KeepAssumption DEF Displaced

\* A stanza stays displaced while other packages are added that are added again
\* before o.
LEMMA StaysDisplaced ==
  ASSUME NEW c \in Contents, Written(c), NEW f \in AddOps, NEW o \in AddOps, NEW again,
         f.pkg \in again, o.pkg \in again,
         NEW e \in Prune(Insert(c, f)), e.pkg # f.pkg, e.pkg # o.pkg,
         Displaced(c, o, again, e)
  PROVE  Displaced(BuildPackages(Prune(Insert(c, f))), o, again, Placed(e, Prune(Insert(c, f))))
<1> DEFINE items == Insert(c, f)
           left  == Prune(items)
           file  == BuildPackages(left)
<1>1. items \in Contents /\ Spaced(items) /\ left \in Contents /\ left \subseteq items
      /\ Spaced(left) /\ e \in items
  BY InsertType, InsertSpaced, PruneSubset, SubContents DEF Spaced
<1>2. file \in Contents /\ Written(file)
  BY <1>1, BuildPackagesType, BuildWritten
<1>3. /\ file = {Placed(x, left) : x \in left}
      /\ \A x \in left : Placed(x, left).pkg = x.pkg
      /\ \A x, y \in left : x.at < y.at => Placed(x, left).at < Placed(y, left).at
  BY <1>1, PlacedOrder
<1>4. e \in c /\ e \in Insert(c, o)
  BY <1>1, InsertedLast
<1>5. Insert(c, o) \in Contents /\ Insert(file, o) \in Contents
  BY <1>2, InsertType
<1>6. /\ \A x \in items : x.pkg.name = e.pkg.name /\ Newer(x, e, AgeOf) => x \in left
  BY <1>1, NewerStays
<1>7. ASSUME NEW x \in Insert(c, o), x.pkg.name = e.pkg.name,
             \/ Rank[x.pkg.version] > Rank[e.pkg.version]
             \/ /\ Rank[x.pkg.version] = Rank[e.pkg.version]
                /\ x.at < e.at
                /\ x.pkg \notin again
      PROVE  \E y \in Insert(file, o) :
               /\ y.pkg = x.pkg
               /\ \/ Rank[x.pkg.version] > Rank[e.pkg.version]
                  \/ /\ Rank[x.pkg.version] = Rank[e.pkg.version]
                     /\ y.at < Placed(e, left).at
                     /\ x.pkg \notin again
  <2>1. CASE x.pkg = o.pkg
    BY <1>2, <1>7, <2>1, InsertedLast
  <2>2. CASE x.pkg # o.pkg
    <3>1. x \in c
      BY <2>2, InsertedLast
    <3>2. PICK z \in items : /\ z.pkg = x.pkg
                             /\ x.pkg # f.pkg => z = x
      BY <3>1, InsertedLast
    <3>3. Newer(z, e, AgeOf)
      BY <1>1, <1>7, <3>2, NewerStanza
    <3>4. z \in left
      BY <1>6, <1>7, <3>2, <3>3
    <3>5. Placed(z, left) \in file /\ Placed(z, left).pkg = x.pkg
      BY <1>3, <3>2, <3>4
    <3>6. Placed(z, left) \in Insert(file, o)
      BY <1>2, <2>2, <3>5, InsertedLast
    <3>7. x.pkg \notin again => z = x
      BY <3>2
    <3>8. z.at < e.at => Placed(z, left).at < Placed(e, left).at
      BY <1>3, <3>4
    <3>9. QED
      BY <1>7, <3>5, <3>6, <3>7, <3>8
  <2>3. QED
    BY <2>1, <2>2
<1> DEFINE d == Placed(e, left)
<1>8. d.pkg = e.pkg
  BY <1>3
<1>9. Certain(c, o, again, e) \subseteq Certain(file, o, again, d)
  <2> HIDE DEF d, file
  <2> SUFFICES ASSUME NEW p \in Certain(c, o, again, e)
               PROVE  p \in Certain(file, o, again, d)
    OBVIOUS
  <2>1. PICK x \in Insert(c, o) :
          /\ x.pkg = p /\ x.pkg.name = e.pkg.name
          /\ \/ Rank[x.pkg.version] > Rank[e.pkg.version]
             \/ /\ Rank[x.pkg.version] = Rank[e.pkg.version]
                /\ x.at < e.at
                /\ x.pkg \notin again
    BY DEF Certain
  <2>2. PICK y \in Insert(file, o) :
          /\ y.pkg = x.pkg
          /\ \/ Rank[x.pkg.version] > Rank[e.pkg.version]
             \/ /\ Rank[x.pkg.version] = Rank[e.pkg.version]
                /\ y.at < d.at
                /\ x.pkg \notin again
    BY <1>7, <2>1 DEF d
  <2>3. QED
    BY <1>8, <2>1, <2>2 DEF Certain
<1>10. IsFiniteSet(Certain(file, o, again, d))
  <2>1. d \in Insert(file, o)
    BY <1>2, <1>3, <1>8, InsertedLast
  <2>2. Spaced(Insert(file, o)) /\ IsFiniteSet(Ahead(Insert(file, o), d, GroupOf, AgeOf))
    BY <1>2, <1>5, InsertSpaced, ContentsOrderly, AheadFinite
  <2> HIDE DEF d, file
  <2>3. Certain(file, o, again, d) \subseteq Ahead(Insert(file, o), d, GroupOf, AgeOf)
    BY <1>5, <2>1, AheadOfName DEF Certain
  <2>4. QED
    BY <2>2, <2>3, FS_Subset
<1>11. QED
  BY <1>9, <1>10, FS_Subset, FS_CardinalityType, KeepAssumption DEF Displaced

-----------------------------------------------------------------------------
(* The pool under a push that was interrupted and is run again.            *)

\* The k-th file of a push goes to the index i.
FileAt(k, i) ==
  /\ k \in DOMAIN command.files
  /\ command.files[k] # Garbage
  /\ IndexOf(command.files[k]) = i

\* The packages that the first k files of a push bring to the index i.
Upto(k, i) == {command.files[j].pkg : j \in {n \in 1 .. k : FileAt(n, i)}}

\* The files that a push has still to add before the pool agrees again.  All of
\* them, when it was interrupted; otherwise the one that is next is one of them only
\* from the beginning of its Add until its index is written.
Todo ==
  {k \in DOMAIN command.files :
     \/ Interrupted
     \/ torn /\ phase = "shell"
     \/ torn /\ k > next
     \/ k = next /\ Writing
     \/ k = next /\ torn /\ phase # "wait"}

\* One of them brings another stanza for the package of e, or prunes e.
Owed(i, e) ==
  \E k \in Todo :
    /\ FileAt(k, i)
    /\ \/ command.files[k].pkg = e.pkg
       \/ Displaced(Read(i), AddOf(command.files[k]), Upto(k, i), e)

\* The Add under way is about to prune e.
Going(i, e) == pc = "rewrite" /\ i = index /\ e \in Surplus(Insert(Read(i), op))

\* Every stanza has its file, or does not stay as it is.
StanzasOK(i) ==
  \A e \in Read(i) : Holds(pool, PathOf(i, e.pkg), e.build) \/ Owed(i, e) \/ Going(i, e)

\* Every file has a stanza, or is still to be given one.
FilesOK(i) ==
  \A pkg \in Packages :
    PathOf(i, pkg) \in DOMAIN pool =>
      \/ \E e \in Read(i) : e.pkg = pkg
      \/ \E k \in Todo : FileAt(k, i) /\ command.files[k].pkg = pkg

\* What the Add under way has done to the pool.
AddPoolOK ==
  /\ pc = "updateIndex" => Holds(pool, PathOf(TargetOf(op), op.pkg), op.build)
  /\ pc = "rewrite" =>
       /\ \A e \in kept : e.pkg = op.pkg => Holds(pool, PathOf(index, e.pkg), op.build)
       /\ \A e \in Surplus(Insert(Read(index), op)) \ doomed :
            PathOf(index, e.pkg) \notin DOMAIN pool

\* The packages that this run of a push has put into an index.
Passed(i) == Upto(IF phase = "wait" /\ ~ Writing THEN next ELSE next - 1, i)

\* They are behind all others.
OrderOK ==
  phase \in {"call", "wait"} /\ ~ Interrupted =>
    \A i \in Indexes : \A x, y \in Read(i) :
      y.pkg \in Passed(i) /\ x.pkg \notin Passed(i) => x.at < y.at

PushPoolOK ==
  IsPush => AddPoolOK /\ OrderOK /\ \A i \in Indexes : StanzasOK(i) /\ FilesOK(i)

\* The operation of a push that has called Add.
LEMMA AddUnderWay ==
  ASSUME TypeInv, ShellOK, IsPush, pc # "idle"
  PROVE  /\ phase = "wait" /\ next \in Nat \ {0} /\ next \in DOMAIN command.files
         /\ command \in Pushes \cup Removals
         /\ CurrentFile = command.files[next] /\ CurrentFile \in Debs \ {Garbage}
         /\ op = AddOf(CurrentFile) /\ op \in AddOps /\ op \notin RemoveOps
         /\ op.pkg = CurrentFile.pkg /\ op.pkg \in Packages
         /\ TargetOf(op) = IndexOf(CurrentFile) /\ TargetOf(op) \in Indexes
         /\ FileAt(next, TargetOf(op))
         /\ op.pkg \in Upto(next, TargetOf(op))
         /\ pc \notin {"idle", "upload"} => index = TargetOf(op)
<1>1. /\ phase = "wait" /\ next \in Nat \ {0} /\ next \in DOMAIN command.files
      /\ command \in Pushes \cup Removals
      /\ CurrentFile = command.files[next] /\ CurrentFile \in Debs \ {Garbage}
      /\ op = AddOf(CurrentFile)
  BY DEF ShellOK, IsPush, CurrentFile
<1>2. op \in AddOps /\ op \notin RemoveOps /\ op.pkg = CurrentFile.pkg /\ op.pkg \in Packages
  BY <1>1, CommandKinds DEF AddOf, AddOps, RemoveOps, Debs
<1>3. TargetOf(op) = IndexOf(CurrentFile) /\ TargetOf(op) \in Indexes
  BY <1>1, FileOfPush
<1>4. FileAt(next, TargetOf(op))
  BY <1>1, <1>3 DEF FileAt
<1>5. op.pkg \in Upto(next, TargetOf(op))
  BY <1>1, <1>2, <1>4 DEF Upto
<1>6. QED
  BY <1>1, <1>2, <1>3, <1>4, <1>5 DEF TypeInv, ControlOK

\* A file of a push that goes to an index.
LEMMA FileAtType ==
  ASSUME IsPush, ShellOK, NEW k, NEW i, FileAt(k, i)
  PROVE  /\ k \in Nat \ {0} /\ k \in DOMAIN command.files
         /\ AddOf(command.files[k]) \in AddOps
         /\ AddOf(command.files[k]).pkg = command.files[k].pkg
         /\ command.files[k].pkg \in Upto(k, i)
<1>1. /\ command \in Pushes \cup Removals /\ command.kind = "push"
      /\ k \in DOMAIN command.files /\ command.files[k] # Garbage
  BY DEF IsPush, ShellOK, FileAt
<1>2. k \in Nat \ {0} /\ command.files[k] \in Debs /\ command.component \in Components
  BY <1>1, CommandKinds
<1>3. command.files[k].pkg \in Upto(k, i)
  BY <1>2 DEF Upto
<1>4. QED
  BY <1>1, <1>2, <1>3 DEF AddOf, AddOps, Debs

LEMMA UptoGrows ==
  ASSUME NEW k \in Nat, NEW n \in Nat, n <= k, NEW i
  PROVE  Upto(n, i) \subseteq Upto(k, i)
BY DEF Upto

\* A step that leaves the pool and the indexes alone and strikes nothing off the list.
LEMMA PushFrame ==
  ASSUME UNCHANGED <<pool, packages, command>>, Todo \subseteq Todo',
         \A i, e : Going(i, e) => Going(i, e)' \/ Owed(i, e)',
         NEW i
  PROVE  /\ StanzasOK(i) => StanzasOK(i)'
         /\ FilesOK(i) => FilesOK(i)'
<1>1. Read(i)' = Read(i)
  BY DEF Read
<1>2. \A f : AddOf(f)' = AddOf(f) /\ IndexOf(f)' = IndexOf(f)
  BY DEF AddOf, IndexOf
<1>3. \A k : /\ FileAt(k, i)' = FileAt(k, i)
             /\ Upto(k, i)' = Upto(k, i)
  BY <1>2 DEF FileAt, Upto
<1>4. \A e : Owed(i, e) => Owed(i, e)'
  BY <1>1, <1>2, <1>3 DEF Owed
<1>5. FilesOK(i) => FilesOK(i)'
  BY <1>1, <1>3 DEF FilesOK
<1>6. StanzasOK(i) => StanzasOK(i)'
  BY <1>1, <1>4 DEF StanzasOK
<1>7. QED
  BY <1>5, <1>6

\* Only an Add that writes its index strikes a file off the list, or a command that
\* is run next.
LEMMA TodoGrows ==
  ASSUME TypeInv, ShellOK, RunOK, IsPush, [CommandNext]_allVars, UNCHANGED command,
         phase # "shell" \/ UNCHANGED allVars, ~ PutPackages
  PROVE  Todo \subseteq Todo'
<1> SUFFICES ASSUME NEW k \in Todo
             PROVE  k \in Todo'
  OBVIOUS
<1>1. /\ k \in DOMAIN command.files /\ k \in Nat /\ next \in Nat \ {0}
      /\ DOMAIN command.files = 1 .. Len(command.files) /\ Len(command.files) \in Nat
  BY CommandKinds DEF Todo, ShellOK, IsPush
<1>2. CASE CheckFlags \/ CheckFiles \/ DryRun \/ Setup \/ BadFile
  <2>1. pc = "idle" /\ UNCHANGED <<pc, outcome, next>> /\ phase \notin {"wait", "shell"}
        /\ phase' # "wait"
    BY <1>2 DEF CheckFlags, CheckFiles, DryRun, Setup, BadFile, Exit, Proceed, vars, ShellOK
  <2>2. torn
    BY <2>1 DEF Todo, Writing, RunOK, TornOK, Interrupted
  <2>3. torn'
    BY <1>2, <2>1, <2>2 DEF CheckFlags, CheckFiles, DryRun, Setup, BadFile, Exit, Proceed,
       RunOK, TornOK
  <2>4. QED
    BY <1>1, <2>1, <2>2, <2>3 DEF Todo, Interrupted
<1>3. CASE AllPushed
  <2>1. /\ phase = "call" /\ pc = "idle" /\ next > Len(command.files) /\ command \in Pushes
    BY <1>3, CommandKinds DEF AllPushed, ShellOK, Removals
  <2>2. next > 1
    BY <1>1, <2>1, FirstFile
  <2>3. outcome = "published"
    BY <2>1, <2>2 DEF RunOK, PublishedOK, IsPush
  <2>4. ~ (k = next) /\ ~ (k > next)
    BY <1>1, <2>1
  <2>5. QED
    BY <2>1, <2>3, <2>4 DEF Todo, Interrupted
<1>4. CASE AddReturned
  <2>1. /\ phase = "wait" /\ pc = "idle" /\ UNCHANGED <<pc, outcome, command>>
    BY <1>4 DEF AddReturned, vars
  <2>2. CASE outcome = "failed"
    BY <1>1, <1>4, <2>1, <2>2 DEF AddReturned, Exit, Todo, Interrupted
  <2>3. CASE outcome # "failed"
    <3>1. k > next /\ torn
      BY <2>1, <2>3 DEF Todo, Interrupted, Writing
    <3>2. next' = next + 1 /\ torn' = torn /\ phase' = "call"
      BY <1>4, <2>3 DEF AddReturned
    <3>3. k > next' \/ k = next'
      BY <1>1, <3>1, <3>2
    <3>4. QED
      BY <1>1, <2>1, <3>1, <3>2, <3>3 DEF Todo
  <2>4. QED
    BY <2>2, <2>3
<1>5. CASE Kill
  <2>1. /\ pc = "idle" /\ UNCHANGED <<pc, outcome, command, next>> /\ phase' = "shell"
        /\ torn' = (torn \/ outcome = "failed")
    BY <1>5 DEF Kill, Exit
  <2>2. torn \/ outcome = "failed"
    BY <2>1 DEF Todo, Interrupted, Writing
  <2>3. QED
    BY <1>1, <2>1, <2>2 DEF Todo
<1>6. CASE CallAdd
  <2>1. /\ phase = "call" /\ pc = "idle" /\ pc' = "upload" /\ phase' = "wait"
        /\ UNCHANGED <<command, next, torn>>
    BY <1>6 DEF CallAdd, BeginAdd, Start, Admissible, Proceed
  <2>2. torn
    BY <2>1 DEF Todo, Interrupted, Writing, RunOK, TornOK
  <2>3. Interrupted => next = 1
    BY <1>1, <2>1 DEF RunOK, PublishedOK, IsPush, Interrupted
  <2>4. k > next \/ k = next
    BY <1>1, <2>1, <2>3 DEF Todo, Writing
  <2>5. QED
    BY <1>1, <2>1, <2>2, <2>4 DEF Todo, Writing
<1>7. CASE LoseFile \/ UNCHANGED allVars
  <2>1. UNCHANGED <<command, phase, next, torn, pc, outcome>>
    BY <1>7 DEF LoseFile, allVars, shell, vars
  <2>2. QED
    BY <2>1 DEF Todo, Interrupted, Writing
<1>8. CASE (Step \/ Fail) /\ UNCHANGED shell
  <2>1. UNCHANGED <<command, phase, next, torn>> /\ pc # "idle"
    BY <1>8 DEF shell, Step, Upload, UpdateIndex, ScanIndex, EndScan, DeletePoolFile, PutPackages,
       PutPackagesGz, PublishRelease, PutInRelease, PutReleaseGpg, Return, Fail
  <2>2. CASE Fail
    BY <1>1, <2>1, <2>2 DEF Todo, Fail, Finish, Interrupted
  <2>3. CASE ~ Fail
    <3>1. op \in AddOps
      BY <2>1, AddUnderWay
    <3>2. Writing => Writing'
      BY <1>8, <2>3, <3>1 DEF Writing, Step, Upload, UpdateIndex, ScanIndex, EndScan,
         DeletePoolFile,
         PutPackagesGz, PublishRelease, PutInRelease, PutReleaseGpg, Return
    <3>3. QED
      BY <2>1, <3>2 DEF Todo, Interrupted
  <2>4. QED
    BY <2>2, <2>3
<1>9. CASE CallRemove \/ RemoveReturned
  BY <1>9 DEF CallRemove, RemoveReturned, IsPush
<1>10. CASE \/ \E c \in Pushes : RunPush(c)
            \/ \E c \in Removals : RunRemove(c)
  BY <1>7, <1>10 DEF RunPush, RunRemove, Run
<1>11. QED
  BY <1>2, <1>3, <1>4, <1>5, <1>6, <1>7, <1>8, <1>9, <1>10 DEF CommandNext

\* The step of an Add of a push, but for the one that writes its index.
LEMMA AddFrame ==
  ASSUME BoundInv, ShellOK, RunOK, IsPush, Step \/ Fail, ~ PutPackages, UNCHANGED shell
  PROVE  /\ Todo \subseteq Todo' /\ UNCHANGED <<command, next, torn, phase>>
         /\ pc # "idle" /\ UNCHANGED op
         /\ \A i : Read(i)' = Read(i)
         /\ \A i : \A k : /\ FileAt(k, i)' = FileAt(k, i)
                          /\ Upto(k, i)' = Upto(k, i)
         /\ \A i, e : Owed(i, e) => Owed(i, e)'
<1>1. TypeInv /\ UNCHANGED <<command, next, torn, phase>>
  BY DEF BoundInv, WriteInv, shell
<1>2. [CommandNext]_allVars /\ [Next]_vars
  BY DEF CommandNext, Next
<1>3. pc # "idle" /\ UNCHANGED op
  BY DEF Step, Upload, UpdateIndex, ScanIndex, EndScan, DeletePoolFile, PutPackagesGz,
     PublishRelease,
     PutInRelease, PutReleaseGpg, Return, Fail, Finish
<1>4. phase = "wait"
  BY <1>3 DEF ShellOK
<1>5. Todo \subseteq Todo'
  BY <1>1, <1>2, <1>4, TodoGrows
<1>6. \A i : Read(i)' = Read(i)
  BY <1>2, ReadOtherwise
<1>7. \A f : AddOf(f)' = AddOf(f) /\ IndexOf(f)' = IndexOf(f)
  BY <1>1 DEF AddOf, IndexOf
<1>8. \A i : \A k : FileAt(k, i)' = FileAt(k, i) /\ Upto(k, i)' = Upto(k, i)
  BY <1>1, <1>7 DEF FileAt, Upto
<1>9. \A i, e : Owed(i, e) => Owed(i, e)'
  BY <1>1, <1>5, <1>6, <1>7, <1>8 DEF Owed
<1>10. QED
  BY <1>1, <1>3, <1>5, <1>6, <1>8, <1>9

LEMMA PushUpload ==
  ASSUME BoundInv, ShellOK, RunOK, IsPush, PushPoolOK, Upload, UNCHANGED shell
  PROVE  AddPoolOK' /\ \A i \in Indexes : StanzasOK(i)' /\ FilesOK(i)'
<1> DEFINE t == TargetOf(op)
<1>1. /\ TypeInv /\ pc = "upload" /\ pc' = "updateIndex" /\ ~ PutPackages
      /\ pool' = Put(pool, PathOf(t, op.pkg), op.build)
  BY DEF Upload, TargetOf, BoundInv, WriteInv, PutPackages
<1>2. /\ Todo \subseteq Todo' /\ UNCHANGED <<command, next, op>>
      /\ \A i : Read(i)' = Read(i)
      /\ \A i : \A k : FileAt(k, i)' = FileAt(k, i) /\ Upto(k, i)' = Upto(k, i)
      /\ \A i, e : Owed(i, e) => Owed(i, e)'
  BY <1>1, AddFrame DEF Step
<1>3. /\ t \in Indexes /\ op.pkg \in Packages /\ op.pkg = command.files[next].pkg
      /\ next \in DOMAIN command.files /\ FileAt(next, t)
  BY <1>1, AddUnderWay
<1>4. next \in Todo'
  BY <1>1, <1>2, <1>3 DEF Todo, Writing
<1>5. AddPoolOK'
  BY <1>1, <1>2, StoreEffect DEF AddPoolOK
<1> HIDE DEF t
<1>6. ASSUME NEW i \in Indexes
      PROVE  StanzasOK(i)' /\ FilesOK(i)'
  <2>1. StanzasOK(i) /\ FilesOK(i)
    BY DEF PushPoolOK
  <2>2. ASSUME NEW e \in Read(i)
        PROVE  Holds(pool', PathOf(i, e.pkg), e.build) \/ Owed(i, e)'
    <3>1. e.pkg \in Packages
      BY <1>1, ReadPackages
    <3>2. CASE i = t /\ e.pkg = op.pkg
      BY <1>2, <1>3, <1>4, <3>2 DEF Owed
    <3>3. CASE ~ (i = t /\ e.pkg = op.pkg)
      <4>1. Holds(pool, PathOf(i, e.pkg), e.build) => Holds(pool', PathOf(i, e.pkg), e.build)
        BY <1>1, <1>3, <3>1, <3>3, OtherPaths
      <4>2. QED
        BY <1>1, <1>2, <2>1, <4>1 DEF StanzasOK, Going
    <3>4. QED
      BY <3>2, <3>3
  <2>3. ASSUME NEW pkg \in Packages, PathOf(i, pkg) \in DOMAIN pool'
        PROVE  \/ \E e \in Read(i) : e.pkg = pkg
               \/ \E k \in Todo' : FileAt(k, i)' /\ command'.files[k].pkg = pkg
    <3>1. CASE i = t /\ pkg = op.pkg
      BY <1>2, <1>3, <1>4, <3>1
    <3>2. CASE ~ (i = t /\ pkg = op.pkg)
      <4>1. PathOf(i, pkg) \in DOMAIN pool
        BY <1>1, <1>3, <2>3, <3>2, OtherPaths
      <4>2. QED
        BY <1>2, <2>1, <4>1 DEF FilesOK
    <3>3. QED
      BY <3>1, <3>2
  <2>4. QED
    BY <1>2, <2>2, <2>3 DEF StanzasOK, FilesOK
<1>7. QED
  BY <1>5, <1>6

LEMMA PushUpdateIndex ==
  ASSUME BoundInv, ShellOK, RunOK, IsPush, PushPoolOK, UpdateIndex, UNCHANGED shell
  PROVE  AddPoolOK' /\ \A i \in Indexes : StanzasOK(i)' /\ FilesOK(i)'
<1>1. /\ TypeInv /\ pc = "updateIndex" /\ pc' = "rewrite" /\ ~ PutPackages
      /\ UNCHANGED <<pool, packages, index, op>>
      /\ kept' = Prune(Insert(Read(index), op)) /\ doomed' = Surplus(Insert(Read(index), op))
  BY DEF UpdateIndex, BoundInv, WriteInv, PutPackages, bucket
<1>2. /\ Todo \subseteq Todo' /\ UNCHANGED <<command, next, op>>
      /\ \A i : Read(i)' = Read(i)
  BY <1>1, AddFrame DEF Step
<1>3. index = TargetOf(op)
  BY <1>1, AddUnderWay
<1>4. AddPoolOK'
  <2>1. Holds(pool, PathOf(index, op.pkg), op.build)
    BY <1>1, <1>3 DEF PushPoolOK, AddPoolOK
  <2>2. Surplus(Insert(Read(index), op))' = doomed'
    BY <1>1, <1>2 DEF Surplus, Insert, Prune
  <2>3. QED
    BY <1>1, <2>1, <2>2 DEF AddPoolOK
<1>5. \A i, e : ~ Going(i, e)
  BY <1>1 DEF Going
<1>6. QED
  BY <1>1, <1>2, <1>4, <1>5, PushFrame DEF PushPoolOK

LEMMA PushDelete ==
  ASSUME BoundInv, ShellOK, RunOK, IsPush, PushPoolOK, DeletePoolFile, UNCHANGED shell
  PROVE  AddPoolOK' /\ \A i \in Indexes : StanzasOK(i)' /\ FilesOK(i)'
<1> DEFINE going == Surplus(Insert(Read(index), op))
<1>1. PICK d \in doomed : pool' = Delete(pool, PathOf(index, d.pkg)) /\ doomed' = doomed \ {d}
  BY DEF DeletePoolFile
<1>2. /\ TypeInv /\ pc = "rewrite" /\ ~ PutPackages
      /\ UNCHANGED <<packages, pc, op, index, kept>>
  BY DEF DeletePoolFile, BoundInv, WriteInv, PutPackages
<1>3. /\ Todo \subseteq Todo' /\ UNCHANGED <<command, next>>
      /\ \A i : Read(i)' = Read(i)
      /\ \A i : \A k : FileAt(k, i)' = FileAt(k, i) /\ Upto(k, i)' = Upto(k, i)
      /\ \A i, e : Owed(i, e) => Owed(i, e)'
  BY <1>2, AddFrame DEF Step
<1>4. /\ index \in Indexes /\ op \in AddOps /\ op.pkg \in Packages
      /\ op.pkg = command.files[next].pkg
      /\ next \in DOMAIN command.files /\ FileAt(next, index)
  BY <1>2, AddUnderWay
<1>5. /\ d \in going /\ d.pkg \in Packages
      /\ \A e \in kept : e.pkg # d.pkg /\ e.pkg \in Packages
  BY <1>2, <1>4, Split DEF BoundInv, WriteInv, RewriteOK
<1>6. going' = going /\ \A e \in going : e.pkg \in Packages
  <2>1. Insert(Read(index), op) \in Contents
    BY <1>2, <1>4, InsertType, ReadType DEF TypeInv, TypeOK
  <2>2. QED
    BY <1>2, <1>3, <2>1 DEF Surplus, Insert, Prune, Contents, Stanzas
<1> HIDE DEF going
<1>7. AddPoolOK'
  <2>1. \A e \in kept : e.pkg = op.pkg => Holds(pool', PathOf(index, e.pkg), op.build)
    <3> SUFFICES ASSUME NEW e \in kept, e.pkg = op.pkg
                 PROVE  Holds(pool', PathOf(index, e.pkg), op.build)
      OBVIOUS
    <3>1. Holds(pool, PathOf(index, e.pkg), op.build)
      BY <1>2 DEF PushPoolOK, AddPoolOK
    <3>2. QED
      BY <1>1, <1>4, <1>5, <3>1, OtherPaths
  <2>2. \A e \in going \ doomed' : PathOf(index, e.pkg) \notin DOMAIN pool'
    <3>1. \A e \in going \ doomed : PathOf(index, e.pkg) \notin DOMAIN pool
      BY <1>2 DEF PushPoolOK, AddPoolOK, going
    <3>2. PathOf(index, d.pkg) \notin DOMAIN pool' /\ DOMAIN pool' \subseteq DOMAIN pool
      BY <1>1, StoreEffect DEF Delete
    <3>3. QED
      BY <1>1, <3>1, <3>2
  <2>3. QED
    BY <1>2, <1>6, <2>1, <2>2 DEF AddPoolOK, going
<1>8. ASSUME NEW i \in Indexes
      PROVE  StanzasOK(i)' /\ FilesOK(i)'
  <2>1. StanzasOK(i) /\ FilesOK(i)
    BY DEF PushPoolOK
  <2>2. ASSUME NEW e \in Read(i)
        PROVE  Holds(pool', PathOf(i, e.pkg), e.build) \/ Owed(i, e)' \/ Going(i, e)'
    <3>1. e.pkg \in Packages
      BY <1>2, ReadPackages
    <3>2. Going(i, e) => Going(i, e)'
      BY <1>2, <1>6 DEF Going, going
    <3>3. CASE i = index /\ e.pkg = d.pkg
      <4>1. CASE d.pkg = op.pkg
        <5>1. next \in Todo
          BY <1>2, <1>4 DEF Todo, Writing
        <5>2. Owed(i, e)
          BY <1>4, <3>3, <4>1, <5>1 DEF Owed
        <5>3. QED
          BY <1>3, <5>2
      <4>2. CASE d.pkg # op.pkg
        <5>1. d \in Read(index)
          BY <1>5, <4>2 DEF going, Surplus, Insert
        <5>2. d = e
          BY <1>2, <3>3, <5>1, ReadType DEF TypeInv, TypeOK, Contents
        <5>3. Going(i, e)
          BY <1>2, <1>5, <3>3, <5>2 DEF Going, going
        <5>4. QED
          BY <3>2, <5>3
      <4>3. QED
        BY <4>1, <4>2
    <3>4. CASE ~ (i = index /\ e.pkg = d.pkg)
      <4>1. Holds(pool, PathOf(i, e.pkg), e.build) => Holds(pool', PathOf(i, e.pkg), e.build)
        BY <1>1, <1>4, <1>5, <3>1, <3>4, OtherPaths
      <4>2. QED
        BY <1>3, <2>1, <3>2, <4>1 DEF StanzasOK
    <3>5. QED
      BY <3>3, <3>4
  <2>3. DOMAIN pool' \subseteq DOMAIN pool
    BY <1>1 DEF Delete
  <2>4. FilesOK(i)'
    BY <1>3, <2>1, <2>3 DEF FilesOK
  <2>5. QED
    BY <1>3, <2>2, <2>4 DEF StanzasOK
<1>9. QED
  BY <1>7, <1>8

\* A step between the writes of indexes.
LEMMA PushOtherStep ==
  ASSUME BoundInv, ShellOK, RunOK, IsPush, PushPoolOK, UNCHANGED shell,
         PutPackagesGz \/ PublishRelease \/ PutInRelease \/ PutReleaseGpg \/ Return
  PROVE  AddPoolOK' /\ \A i \in Indexes : StanzasOK(i)' /\ FilesOK(i)'
<1>1. /\ ~ PutPackages /\ UNCHANGED <<pool, packages>>
      /\ pc \notin {"rewrite", "idle"}
      /\ TypeInv
  BY DEF PutPackagesGz, PublishRelease, PutInRelease, PutReleaseGpg, Return, Finish, bucket,
     PutPackages, BoundInv, WriteInv
<1>2. op \in AddOps
  BY <1>1, AddUnderWay
<1>3. pc' \notin {"updateIndex", "rewrite"}
  BY <1>2 DEF PutPackagesGz, PublishRelease, PutInRelease, PutReleaseGpg, Return, Finish, AddOps,
     AfterRelease
<1>4. Todo \subseteq Todo' /\ UNCHANGED command
  BY <1>1, AddFrame DEF Step
<1>5. \A i, e : ~ Going(i, e)
  BY <1>1 DEF Going
<1>6. QED
  BY <1>1, <1>3, <1>4, <1>5, PushFrame DEF PushPoolOK, AddPoolOK

\* The new index lists what was kept, and a stanza that was displaced still is.
LEMMA PushPutPackages ==
  ASSUME BoundInv, ShellOK, RunOK, IsPush, PushPoolOK, PutPackages, UNCHANGED shell
  PROVE  AddPoolOK' /\ \A i \in Indexes : StanzasOK(i)' /\ FilesOK(i)'
<1> DEFINE c == Read(index)
           items == Insert(c, op)
<1>1. /\ TypeInv /\ pc = "rewrite" /\ pc' = "putGz" /\ doomed = {}
      /\ UNCHANGED <<pool, op, index, kept>>
      /\ UNCHANGED <<command, next, torn, phase>>
  BY DEF PutPackages, BoundInv, WriteInv, locals, shell
<1>2. /\ index \in Indexes /\ op \in AddOps /\ op.pkg \in Packages
      /\ op.pkg = command.files[next].pkg
      /\ next \in Nat /\ next \in DOMAIN command.files
      /\ FileAt(next, index) /\ op.pkg \in Upto(next, index)
      /\ op = AddOf(command.files[next]) /\ phase = "wait"
  BY <1>1, AddUnderWay
<1>3. /\ c \in Contents /\ Written(c) /\ items \in Contents /\ Spaced(items)
      /\ kept = Prune(items) /\ kept \in Contents
  BY <1>1, <1>2, ReadType, InsertType, InsertSpaced
  DEF BoundInv, WriteInv, RewriteOK, TypeInv, TypeOK
<1>4. /\ BuildPackages(kept) = {Placed(e, kept) : e \in kept}
      /\ \A e \in kept : Placed(e, kept).pkg = e.pkg /\ Placed(e, kept).build = e.build
  BY <1>3, PlacedOrder
<1>5. \A i : Read(i)' = IF i = index THEN BuildPackages(kept) ELSE Read(i)
  BY ReadAfterPut
<1>6. \A k \in Todo : k = next \/ (k \in Todo' /\ k \in Nat /\ k > next)
  <2>1. \A k \in DOMAIN command.files : k \in Nat
    BY <1>2, CommandKinds DEF IsPush, ShellOK
  <2>2. QED
    BY <1>1, <1>2, <2>1 DEF Todo, Interrupted
<1>7. \A f : AddOf(f)' = AddOf(f) /\ IndexOf(f)' = IndexOf(f)
  BY <1>1 DEF AddOf, IndexOf
<1>8. \A i : \A k : FileAt(k, i)' = FileAt(k, i) /\ Upto(k, i)' = Upto(k, i)
  BY <1>1, <1>7 DEF FileAt, Upto
<1>9. \A e \in items : e.pkg # op.pkg => e \in c
  BY <1>2, <1>3, InsertedLast
<1>10. AddPoolOK /\ \A i \in Indexes : StanzasOK(i) /\ FilesOK(i)
  BY DEF PushPoolOK
<1> HIDE DEF c, items
\* The stanzas of other indexes are as they were.
<1>11. ASSUME NEW i \in Indexes, i # index
       PROVE  StanzasOK(i)' /\ FilesOK(i)'
  <2>1. Read(i)' = Read(i)
    BY <1>5, <1>11
  <2>2. \A k \in Todo : FileAt(k, i) => k \in Todo'
    <3>1. ~ FileAt(next, i)
      BY <1>2, <1>11 DEF FileAt
    <3>2. QED
      BY <1>6, <3>1
  <2>3. \A e : Owed(i, e) => Owed(i, e)'
    BY <1>1, <1>7, <1>8, <2>1, <2>2 DEF Owed
  <2>4. \A e : ~ Going(i, e)
    BY <1>11 DEF Going
  <2>5. QED
    BY <1>1, <1>8, <1>10, <2>1, <2>2, <2>3, <2>4 DEF StanzasOK, FilesOK
<1> DEFINE owed(d, e) ==
             \E k \in Todo' :
               /\ FileAt(k, index)
               /\ \/ command.files[k].pkg = e.pkg
                  \/ Displaced(d, AddOf(command.files[k]), Upto(k, index), e)
<1>12. ASSUME NEW e \in kept
       PROVE  \/ Holds(pool, PathOf(index, e.pkg), e.build)
              \/ owed(BuildPackages(kept), Placed(e, kept))
  <2>1. e \in items /\ ~ Going(index, e)
    BY <1>3, PruneSubset DEF Going, Surplus, items, c
  <2>2. CASE e.pkg = op.pkg
    <3>1. e.build = op.build
      BY <1>2, <1>3, <2>1, <2>2, InsertedLast DEF items
    <3>2. QED
      BY <1>1, <1>10, <2>2, <3>1 DEF AddPoolOK
  <2>3. CASE e.pkg # op.pkg
    <3>1. e \in c
      BY <1>9, <2>1, <2>3
    <3>2. Holds(pool, PathOf(index, e.pkg), e.build) \/ Owed(index, e)
      BY <1>2, <1>10, <2>1, <3>1 DEF StanzasOK, c
    <3>3. ASSUME Owed(index, e)
          PROVE  owed(BuildPackages(kept), Placed(e, kept))
      <4>1. PICK k \in Todo :
              /\ FileAt(k, index)
              /\ \/ command.files[k].pkg = e.pkg
                 \/ Displaced(c, AddOf(command.files[k]), Upto(k, index), e)
        BY <3>3 DEF Owed, c
      <4>2. /\ AddOf(command.files[k]) \in AddOps
            /\ AddOf(command.files[k]).pkg = command.files[k].pkg
            /\ command.files[k].pkg \in Upto(k, index)
        BY <4>1, FileAtType
      <4>3. k # next
        <5>1. CASE k = next
          <6>1. Displaced(c, op, Upto(next, index), e)
            BY <1>2, <2>3, <4>1, <5>1
          <6>2. e \notin Prune(Insert(c, op))
            BY <1>2, <1>3, <2>1, <6>1, DisplacedGoes DEF items
          <6>3. QED
            BY <1>3, <6>2 DEF items
        <5>2. QED
          BY <5>1
      <4>4. k \in Todo' /\ k \in Nat /\ k > next
        BY <1>6, <4>1, <4>3
      <4>5. CASE command.files[k].pkg = e.pkg
        BY <1>4, <4>1, <4>4, <4>5
      <4>6. CASE command.files[k].pkg # e.pkg
        <5>1. Displaced(c, AddOf(command.files[k]), Upto(k, index), e)
          BY <4>1, <4>6
        <5>2. op.pkg \in Upto(k, index)
          BY <1>2, <4>4, UptoGrows
        <5>3. kept = Prune(Insert(c, op))
          BY <1>3 DEF items
        <5>4. Displaced(BuildPackages(kept), AddOf(command.files[k]),
                        Upto(k, index), Placed(e, kept))
          BY <1>2, <1>3, <2>3, <4>2, <4>6, <5>1, <5>2, <5>3, StaysDisplaced
        <5>5. QED
          BY <4>1, <4>4, <5>4
      <4>7. QED
        BY <4>5, <4>6
    <3>4. QED
      BY <3>2, <3>3
  <2>4. QED
    BY <2>2, <2>3
<1>16. StanzasOK(index)'
  <2>1. \A x \in Read(index)' :
          \/ Holds(pool, PathOf(index, x.pkg), x.build)
          \/ owed(Read(index)', x)
    <3> HIDE DEF owed
    <3>1. QED
      BY <1>1, <1>4, <1>5, <1>12
  <2>2. ASSUME NEW x \in Read(index)', owed(Read(index)', x)
        PROVE  Owed(index, x)'
    BY <1>1, <1>7, <1>8, <2>2 DEF Owed
  <2>3. QED
    <3> HIDE DEF owed
    <3>1. QED
      BY <1>1, <2>1, <2>2 DEF StanzasOK
<1>13. FilesOK(index)'
  <2> SUFFICES ASSUME NEW pkg \in Packages, PathOf(index, pkg) \in DOMAIN pool
               PROVE  \/ \E e \in kept : e.pkg = pkg
                      \/ \E k \in Todo' : FileAt(k, index)' /\ command'.files[k].pkg = pkg
    BY <1>1, <1>4, <1>5 DEF FilesOK
  <2>1. ASSUME NEW e \in items, e.pkg = pkg
        PROVE  \E x \in kept : x.pkg = pkg
    <3>1. CASE e \in kept
      BY <2>1, <3>1
    <3>2. CASE e \notin kept
      <4>1. e \in Surplus(Insert(Read(index), op))
        BY <1>3, <3>2 DEF items, c, Surplus
      <4>2. PathOf(index, e.pkg) \notin DOMAIN pool
        BY <1>1, <1>10, <4>1 DEF AddPoolOK
      <4>3. QED
        BY <2>1, <4>2
    <3>3. QED
      BY <3>1, <3>2
  <2>2. CASE pkg = op.pkg
    <3>1. \E e \in items : e.pkg = op.pkg
      BY <1>2, <1>3, InsertedLast DEF items
    <3>2. QED
      BY <2>1, <2>2, <3>1
  <2>3. CASE pkg # op.pkg
    <3>1. \/ \E e \in c : e.pkg = pkg
          \/ \E k \in Todo : FileAt(k, index) /\ command.files[k].pkg = pkg
      BY <1>2, <1>10 DEF FilesOK, c
    <3>2. CASE \E e \in c : e.pkg = pkg
      <4>1. \E e \in items : e.pkg = pkg
        BY <1>2, <1>3, <2>3, <3>2, InsertedLast DEF items
      <4>2. QED
        BY <2>1, <4>1
    <3>3. CASE \E k \in Todo : FileAt(k, index) /\ command.files[k].pkg = pkg
      BY <1>1, <1>2, <1>6, <1>8, <2>3, <3>3
    <3>4. QED
      BY <3>1, <3>2, <3>3
  <2>4. QED
    BY <2>2, <2>3
<1>14. AddPoolOK'
  BY <1>1 DEF AddPoolOK
<1>15. QED
  BY <1>1, <1>2, <1>11, <1>13, <1>14, <1>16

\* An interruption puts all files back on the list; what the Add was about to prune
\* it will prune when it is run again.
LEMMA PushFail ==
  ASSUME BoundInv, ShellOK, RunOK, IsPush, PushPoolOK, Fail, UNCHANGED shell
  PROVE  AddPoolOK' /\ \A i \in Indexes : StanzasOK(i)' /\ FilesOK(i)'
<1>1. /\ TypeInv /\ pc # "idle" /\ pc' = "idle" /\ outcome' = "failed"
      /\ UNCHANGED <<pool, packages, op, command>>
  BY DEF Fail, Finish, BoundInv, WriteInv, bucket, shell
<1>2. /\ next \in Nat \ {0} /\ next \in DOMAIN command.files /\ phase = "wait"
      /\ op = AddOf(command.files[next]) /\ op \in AddOps /\ TargetOf(op) \in Indexes
      /\ op.pkg = command.files[next].pkg /\ FileAt(next, TargetOf(op))
      /\ pc \notin {"idle", "upload"} => index = TargetOf(op)
  BY <1>1, AddUnderWay
<1>3. Todo' = DOMAIN command.files /\ Todo \subseteq DOMAIN command.files
  BY <1>1 DEF Todo, Interrupted
<1>4. AddPoolOK'
  BY <1>1 DEF AddPoolOK
<1>5. \A f : AddOf(f)' = AddOf(f) /\ IndexOf(f)' = IndexOf(f)
  BY <1>1 DEF AddOf, IndexOf
<1>6. \A i : \A k : FileAt(k, i)' = FileAt(k, i) /\ Upto(k, i)' = Upto(k, i)
  BY <1>1, <1>5 DEF FileAt, Upto
<1>7. ASSUME NEW i, NEW e, Going(i, e)
      PROVE  Owed(i, e)'
  <2>1. /\ pc = "rewrite" /\ i = index /\ i = TargetOf(op) /\ i \in Indexes
        /\ FileAt(next, i) /\ Read(i)' = Read(i)
    BY <1>1, <1>2, <1>7 DEF Going, Read
  <2>2. e \in Insert(Read(i), op) /\ e \notin Prune(Insert(Read(i), op))
    BY <1>7, <2>1 DEF Going, Surplus
  <2>3. CASE \E k \in 1 .. next : FileAt(k, i) /\ command.files[k].pkg = e.pkg
    <3>1. PICK k \in 1 .. next : FileAt(k, i) /\ command.files[k].pkg = e.pkg
      BY <2>3
    <3>2. k \in Todo'
      BY <1>3, <3>1 DEF FileAt
    <3>3. QED
      BY <1>1, <1>6, <3>1, <3>2 DEF Owed
  <2>4. CASE ~ \E k \in 1 .. next : FileAt(k, i) /\ command.files[k].pkg = e.pkg
    <3>1. e.pkg \notin Upto(next, i) /\ e.pkg # op.pkg
      BY <1>2, <2>1, <2>4 DEF Upto
    <3>2. Passed(i) = Upto(next - 1, i) /\ ~ Interrupted
      BY <1>1, <2>1 DEF Passed, Writing, Interrupted
    <3>3. Read(i) \in Contents /\ Written(Read(i)) /\ e \in Read(i)
      BY <1>1, <1>2, <2>1, <2>2, <3>1, ReadType, InsertedLast DEF BoundInv, TypeInv, TypeOK
    <3>4. e.pkg \notin Passed(i)
      BY <1>2, <3>1, <3>2, UptoGrows
    <3>5. ASSUME NEW x \in Read(i), x.pkg \in Upto(next, i), x.pkg # op.pkg
          PROVE  ~ (x.at < e.at)
      <4>1. PICK j \in 1 .. next : FileAt(j, i) /\ command.files[j].pkg = x.pkg
        BY <3>5 DEF Upto
      <4>2. j \in 1 .. next - 1
        BY <1>2, <3>5, <4>1
      <4>3. x.pkg \in Passed(i)
        BY <3>2, <4>1, <4>2 DEF Upto
      <4>4. e.at < x.at
        BY <1>2, <2>1, <3>2, <3>3, <3>4, <4>3 DEF PushPoolOK, OrderOK
      <4>5. x.at \in Nat /\ e.at \in Nat
        BY <3>3 DEF Contents, Stanzas
      <4>6. QED
        BY <4>4, <4>5
    <3>6. Displaced(Read(i), op, Upto(next, i), e)
      BY <1>2, <2>2, <3>1, <3>3, <3>5, GoneIsDisplaced
    <3>7. next \in Todo' /\ Read(i)' = Read(i)
      BY <1>2, <1>3, <2>1
    <3>8. Owed(i, e)' <=>
            \E k \in Todo' :
              /\ FileAt(k, i)
              /\ \/ command.files[k].pkg = e.pkg
                 \/ Displaced(Read(i), AddOf(command.files[k]), Upto(k, i), e)
      BY <1>1, <1>5, <1>6, <3>7 DEF Owed
    <3>9. QED
      BY <1>2, <2>1, <3>6, <3>7, <3>8
  <2>5. QED
    BY <2>3, <2>4
<1>8. QED
  BY <1>1, <1>3, <1>4, <1>7, PushFrame DEF PushPoolOK

\* What an Add of a push writes goes behind all others.
LEMMA OrderPut ==
  ASSUME BoundInv, ShellOK, RunOK, IsPush, OrderOK, PutPackages, UNCHANGED shell
  PROVE  OrderOK'
<1>1. /\ TypeInv /\ pc = "rewrite" /\ pc' = "putGz"
      /\ UNCHANGED <<command, next, phase, op>>
  BY DEF PutPackages, BoundInv, WriteInv, shell
<1>2. /\ index \in Indexes /\ op \in AddOps
      /\ op.pkg = command.files[next].pkg
      /\ next \in Nat \ {0} /\ FileAt(next, index) /\ phase = "wait"
      /\ op.pkg \in Upto(next, index)
  BY <1>1, AddUnderWay
<1>3. /\ Read(index) \in Contents /\ Written(Read(index)) /\ Insert(Read(index), op) \in Contents
      /\ kept = Prune(Insert(Read(index), op)) /\ kept \in Contents
      /\ kept \subseteq Insert(Read(index), op)
  BY <1>1, <1>2, ReadType, InsertType, PruneSubset
  DEF BoundInv, WriteInv, RewriteOK, TypeInv, TypeOK
<1>4. /\ BuildPackages(kept) = {Placed(e, kept) : e \in kept}
      /\ \A e \in kept : Placed(e, kept).pkg = e.pkg
      /\ \A x, y \in kept : x.at < y.at => Placed(x, kept).at < Placed(y, kept).at
  BY <1>3, PlacedOrder
<1>5. \A i : Read(i)' = IF i = index THEN BuildPackages(kept) ELSE Read(i)
  BY ReadAfterPut
<1>6. \A i : \A k : FileAt(k, i)' = FileAt(k, i) /\ Upto(k, i)' = Upto(k, i)
  BY <1>1 DEF FileAt, Upto, IndexOf
<1>7. \A i : Passed(i) = Upto(next - 1, i) /\ Passed(i)' = Upto(next, i)
  BY <1>1, <1>2, <1>6 DEF Passed, Writing
<1>8. \A i : \A x, y \in Read(i) :
        i \in Indexes /\ y.pkg \in Upto(next - 1, i) /\ x.pkg \notin Upto(next - 1, i)
          => x.at < y.at
  BY <1>1, <1>2, <1>7 DEF OrderOK, Interrupted
<1>9. ASSUME NEW i \in Indexes, i # index
      PROVE  Upto(next, i) = Upto(next - 1, i)
  <2>1. ~ FileAt(next, i)
    BY <1>2, <1>9 DEF FileAt
  <2>2. {n \in 1 .. next : FileAt(n, i)} = {n \in 1 .. next - 1 : FileAt(n, i)}
    BY <1>2, <2>1
  <2>3. QED
    BY <2>2 DEF Upto
<1>10. ASSUME NEW x \in kept, NEW y \in kept,
              y.pkg \in Upto(next, index), x.pkg \notin Upto(next, index)
       PROVE  x.at < y.at
  <2>1. x.pkg # op.pkg
    BY <1>2, <1>10
  <2>2. x \in Read(index)
    BY <1>2, <1>3, <2>1, InsertedLast
  <2>3. CASE y.pkg = op.pkg
    BY <1>2, <1>3, <2>2, <2>3, InsertedLast
  <2>4. CASE y.pkg # op.pkg
    <3>1. y \in Read(index)
      BY <1>2, <1>3, <2>4, InsertedLast
    <3>2. y.pkg \in Upto(next - 1, index)
      <4>1. PICK j \in 1 .. next : FileAt(j, index) /\ command.files[j].pkg = y.pkg
        BY <1>10 DEF Upto
      <4>2. j \in 1 .. next - 1
        BY <1>2, <2>4, <4>1
      <4>3. QED
        BY <4>1, <4>2 DEF Upto
    <3>3. x.pkg \notin Upto(next - 1, index)
      BY <1>2, <1>10, UptoGrows
    <3>4. QED
      BY <1>2, <1>8, <2>2, <3>1, <3>2, <3>3
  <2>5. QED
    BY <2>3, <2>4
<1>11. ASSUME NEW i \in Indexes, NEW x \in Read(i)', NEW y \in Read(i)',
              y.pkg \in Upto(next, i), x.pkg \notin Upto(next, i)
       PROVE  x.at < y.at
  <2>1. CASE i = index
    <3>1. PICK a \in kept, b \in kept : x = Placed(a, kept) /\ y = Placed(b, kept)
      BY <1>4, <1>5, <1>11, <2>1
    <3>2. a.at < b.at
      BY <1>4, <1>10, <1>11, <2>1, <3>1
    <3>3. QED
      BY <1>4, <3>1, <3>2
  <2>2. CASE i # index
    BY <1>5, <1>8, <1>9, <1>11, <2>2
  <2>3. QED
    BY <2>1, <2>2
<1>12. QED
  BY <1>7, <1>11 DEF OrderOK

-----------------------------------------------------------------------------
(* The pool under all commands.                                            *)

\* Under a push the pool is as the files that it has still to add will have it, and
\* under an rm as a Remove that is run again wants it.
CommandPoolInv ==
  /\ BoundInv
  /\ ShellOK
  /\ RunOK
  /\ PushPoolOK
  /\ IsRm => PoolInv
  /\ status = "none" => \A i \in Indexes : PoolMatches(i)

\* No command is going to repair anything.
LEMMA AtRest ==
  ASSUME CommandPoolInv, phase = "shell", ~ torn
  PROVE  /\ \A i \in Indexes : PoolMatches(i)
         /\ pc = "idle" /\ ~ Interrupted /\ queue = {}
<1>1. pc = "idle" /\ ~ Interrupted /\ queue = {}
  BY DEF CommandPoolInv, ShellOK, RunOK, TornOK, StageOK
<1>2. CASE status = "none"
  BY <1>1, <1>2 DEF CommandPoolInv
<1>3. CASE IsRm
  BY <1>1, <1>3, PoolInvMatches DEF CommandPoolInv, PoolMatchesPackages, Settled, Interrupted
<1>4. CASE IsPush
  <2>1. Todo = {}
    BY <1>1 DEF Todo, Writing
  <2>2. \A i, e : ~ Owed(i, e) /\ ~ Going(i, e)
    BY <1>1, <2>1 DEF Owed, Going
  <2>3. QED
    BY <1>1, <1>4, <2>1, <2>2 DEF CommandPoolInv, PushPoolOK, StanzasOK, FilesOK, PoolMatches
<1>5. status = "none" \/ IsRm \/ IsPush
  BY CommandKinds DEF CommandPoolInv, ShellOK, IsRm, IsPush
<1>6. QED
  BY <1>1, <1>2, <1>3, <1>4, <1>5

\* A process that dies between two calls leaves the indexes as they are.
LEMMA BoundKill == BoundInv /\ Kill => BoundInv'
<1> SUFFICES ASSUME BoundInv, Kill
             PROVE  BoundInv'
  OBVIOUS
<1>1. UNCHANGED <<bucket, pc, op, locals, outcome, acked, ops>> /\ faults' = faults + 1
  BY DEF Kill
<1>2. /\ UNCHANGED <<pool, packages, packagesGz, dist, index, kept, doomed, queue, removed>>
      /\ faults' \in Nat
  BY <1>1 DEF bucket, locals, BoundInv, WriteInv, TypeInv, TypeOK
<1>3. TypeInv'
  BY <1>1, <1>2 DEF BoundInv, WriteInv, TypeInv, TypeOK, ControlOK
<1>4. QED
  BY <1>1, <1>2, <1>3 DEF BoundInv, WriteInv, OutcomeOK, RewriteOK, Read

LEMMA BoundCommandStep ==
  ASSUME BoundInv, ShellOK, [CommandNext]_allVars
  PROVE  BoundInv'
BY BoundKill, BoundStep, PublisherSteps

LEMMA PoolUnchanged ==
  ASSUME PoolInv, WriteInv',
         UNCHANGED <<pool, packages, pc, op, index, kept, doomed, queue, outcome>>
  PROVE  PoolInv'
<1>1. QueueOK' /\ PoolFollows' = PoolFollows /\ \A i : Unwritten(i)' = Unwritten(i)
  BY PoolFrame DEF PoolInv, QueueOK, PoolFollows, Unwritten
<1>2. QED
  BY <1>1, PoolFrame DEF PoolInv, PoolOK

\* An rm, and the same rm when it is run again.
LEMMA RmPoolStep ==
  ASSUME CommandPoolInv, BoundInv', IsRm, UNCHANGED command, [CommandNext]_allVars
  PROVE  PoolInv'
<1>1. PoolInv /\ WriteInv' /\ ShellOK
  BY DEF CommandPoolInv, BoundInv
<1>2. CASE Kill \/ UNCHANGED vars
  <2>1. UNCHANGED <<pool, packages, pc, op, index, kept, doomed, queue, outcome>>
    BY <1>2 DEF Kill, vars, bucket, locals
  <2>2. QED
    BY <1>1, <2>1, PoolUnchanged
<1>3. CASE CallRemove
  <2>1. op' = RemoveOf(command)
    BY <1>3 DEF CallRemove, BeginRemove, Start, RemoveOf
  <2>2. RunsAgain
    BY <2>1 DEF RunsAgain, CommandPoolInv, RunOK, RemoveOpOK
  <2>3. [Next]_vars
    <3>1. ~ Kill
      BY <1>3 DEF CallRemove, Kill, Proceed, Exit
    <3>2. QED
      BY <1>1, <3>1, PublisherSteps
  <2>4. QED
    BY <1>1, <2>2, <2>3, PoolStep
<1>4. CASE (Step \/ Fail) /\ UNCHANGED shell
  <2>1. RunsAgain /\ [Next]_vars
    BY <1>4 DEF RunsAgain, Next, Step, Upload, UpdateIndex, ScanIndex, EndScan, DeletePoolFile,
       PutPackages,
       PutPackagesGz, PublishRelease, PutInRelease, PutReleaseGpg, Return, Fail
  <2>2. QED
    BY <1>1, <2>1, PoolStep
<1>5. CASE CallAdd
  BY <1>5 DEF CallAdd, IsRm
<1>6. QED
  BY <1>2, <1>3, <1>4, <1>5
  DEF CommandNext, allVars, RunPush, RunRemove, Run, CheckFlags, CheckFiles, DryRun, Setup,
     BadFile,
      AddReturned, AllPushed, RemoveReturned, LoseFile

\* The order of the stanzas, in all steps of a push but the write of an index.
LEMMA OrderFrame ==
  ASSUME BoundInv, ShellOK, RunOK, IsPush, OrderOK, [CommandNext]_allVars, UNCHANGED command,
         phase # "shell" \/ UNCHANGED allVars, ~ PutPackages
  PROVE  OrderOK'
<1> SUFFICES ASSUME phase' \in {"call", "wait"}, ~ Interrupted'
             PROVE  \A i \in Indexes : \A x, y \in Read(i)' :
                      y.pkg \in Passed(i)' /\ x.pkg \notin Passed(i)' => x.at < y.at
  BY DEF OrderOK
<1>1. next \in Nat \ {0}
  BY DEF ShellOK
<1>2. \A i : \A k : FileAt(k, i)' = FileAt(k, i)
  BY DEF FileAt, IndexOf
<1>3. \A i : \A k : Upto(k, i)' = Upto(k, i)
  BY <1>2 DEF Upto
<1>4. Kill \/ [Next]_vars
  BY PublisherSteps
<1>5. \A i : Read(i)' = Read(i)
  BY <1>4, ReadOtherwise DEF Kill, bucket, Read
<1>6. CASE Setup \/ (CallAdd /\ Interrupted)
  <2>1. next = 1 /\ next' = 1 /\ (phase' = "wait" => Writing')
    <3>1. CASE Setup
      BY <3>1 DEF Setup, Exit, Proceed, RunOK, StageOK
    <3>2. CASE CallAdd /\ Interrupted
      <4>1. phase = "call" /\ next' = next /\ pc' = "upload"
        BY <3>2 DEF CallAdd, BeginAdd, Start, Proceed
      <4>2. ~ (next > 1)
        BY <3>2, <4>1 DEF RunOK, PublishedOK, Interrupted
      <4>3. QED
        BY <1>1, <4>1, <4>2 DEF Writing
    <3>3. QED
      BY <1>6, <3>1, <3>2
  <2>2. \A i : Passed(i)' = Upto(0, i)'
    BY <2>1 DEF Passed
  <2>3. \A i : Passed(i)' = {}
    BY <1>3, <2>2 DEF Upto
  <2>4. QED
    BY <2>3
<1>7. CASE \A i : phase \in {"call", "wait"} /\ ~ Interrupted /\ Passed(i)' = Passed(i)
  BY <1>5, <1>7 DEF OrderOK
<1>8. CASE CallAdd /\ ~ Interrupted
  <2>1. phase = "call" /\ phase' = "wait" /\ Writing' /\ next' = next
    BY <1>8 DEF CallAdd, BeginAdd, Start, Writing, Proceed
  <2>2. \A i : Passed(i)' = Passed(i)
    BY <1>3, <2>1 DEF Passed
  <2>3. QED
    BY <1>7, <1>8, <2>1, <2>2
<1>9. CASE AddReturned
  <2>1. /\ phase = "wait" /\ phase' = "call" /\ ~ Writing /\ next' - 1 = next
        /\ ~ Interrupted
    BY <1>1, <1>9 DEF AddReturned, Exit, Writing, Interrupted
  <2>2. \A i : Passed(i)' = Passed(i)
    BY <1>3, <2>1 DEF Passed
  <2>3. QED
    BY <1>7, <2>1, <2>2
<1>10. CASE LoseFile \/ UNCHANGED allVars
  <2>1. UNCHANGED <<phase, next, pc, outcome>>
    BY <1>10 DEF LoseFile, allVars, shell, vars
  <2>2. \A i : Passed(i)' = Passed(i)
    BY <1>3, <2>1 DEF Passed, Writing
  <2>3. QED
    BY <1>7, <2>1, <2>2 DEF Interrupted
<1>11. CASE (Step \/ Fail) /\ UNCHANGED shell
  <2>1. /\ pc # "idle" /\ UNCHANGED <<phase, next>> /\ ~ Fail
    BY <1>11 DEF shell, Step, Upload, UpdateIndex, ScanIndex, EndScan, DeletePoolFile,
       PutPackages,
       PutPackagesGz, PublishRelease, PutInRelease, PutReleaseGpg, Return, Fail, Finish,
          Interrupted
  <2>2. phase = "wait" /\ op \in AddOps /\ op.kind = "add"
    BY <2>1, AddUnderWay DEF BoundInv, WriteInv, AddOps
  <2>3. Writing <=> Writing'
    BY <1>11, <2>1, <2>2 DEF Writing, Step, Upload, UpdateIndex, ScanIndex, EndScan,
       DeletePoolFile,
       PutPackagesGz, PublishRelease, PutInRelease, PutReleaseGpg, Return, Finish, AfterRelease,
       AfterScan, BoundInv, WriteInv, TypeInv, ControlOK, RemoveOps
  <2>4. \A i : Passed(i)' = Passed(i)
    BY <1>3, <2>1, <2>3 DEF Passed
  <2>5. QED
    BY <1>7, <2>1, <2>2, <2>4 DEF Interrupted
<1>12. CASE CheckFlags \/ CheckFiles \/ DryRun \/ BadFile \/ AllPushed \/ RemoveReturned \/ Kill
  BY <1>12 DEF CheckFlags, CheckFiles, DryRun, BadFile, AllPushed, RemoveReturned, Kill, Exit,
     Proceed
<1>13. CASE CallRemove
  BY <1>13 DEF CallRemove, IsPush
<1>14. CASE \/ \E c \in Pushes : RunPush(c)
            \/ \E c \in Removals : RunRemove(c)
  BY <1>10, <1>14 DEF RunPush, RunRemove, Run
<1>15. QED
  BY <1>6, <1>8, <1>9, <1>10, <1>11, <1>12, <1>13, <1>14 DEF CommandNext

\* A push that is under way, or at its end.
LEMMA PushPoolStep ==
  ASSUME CommandPoolInv, IsPush, [CommandNext]_allVars, UNCHANGED command,
         phase # "shell" \/ UNCHANGED allVars
  PROVE  PushPoolOK'
<1>1. /\ BoundInv /\ TypeInv /\ ShellOK /\ RunOK /\ PushPoolOK
      /\ AddPoolOK /\ OrderOK /\ \A i \in Indexes : StanzasOK(i) /\ FilesOK(i)
  BY DEF CommandPoolInv, PushPoolOK, BoundInv, WriteInv
<1>2. OrderOK'
  <2>1. CASE PutPackages
    <3>1. UNCHANGED shell
      BY <2>1 DEF PutPackages, CommandNext, allVars, RunPush, RunRemove, Run, CheckFlags,
         CheckFiles,
         DryRun, Setup, BadFile, CallAdd, CallRemove, BeginAdd, BeginRemove, Start, AddReturned,
         AllPushed, RemoveReturned, LoseFile, Kill, vars
    <3>2. QED
      BY <1>1, <2>1, <3>1, OrderPut
  <2>2. QED
    BY <1>1, <2>1, OrderFrame
<1>3. AddPoolOK' /\ \A i \in Indexes : StanzasOK(i)' /\ FilesOK(i)'
  <2>1. CASE (Step \/ Fail) /\ UNCHANGED shell
    <3>1. ~ ScanIndex /\ ~ EndScan
      BY <1>1, AddUnderWay DEF ScanIndex, EndScan, TypeInv, ControlOK
    <3>2. QED
      BY <1>1, <2>1, <3>1, PushUpload, PushUpdateIndex, PushDelete, PushPutPackages,
         PushOtherStep,
         PushFail DEF Step
  <2>2. CASE ~ ((Step \/ Fail) /\ UNCHANGED shell)
    <3>1. /\ UNCHANGED <<pool, packages>> /\ ~ PutPackages
          /\ pc' \in {"idle", "upload"} \/ UNCHANGED vars
          /\ pc = "idle" \/ UNCHANGED vars
      BY <1>1, <2>2 DEF CommandNext, allVars, vars, bucket, RunPush, RunRemove, Run, CheckFlags,
         CheckFiles, DryRun, Setup, BadFile, CallAdd, CallRemove, BeginAdd, BeginRemove, Start,
         Admissible, AddReturned, AllPushed, RemoveReturned, LoseFile, Kill, PutPackages, IsPush
    <3>2. Todo \subseteq Todo'
      BY <1>1, <3>1, TodoGrows
    <3>3. \A i, e : Going(i, e) => Going(i, e)'
      BY <3>1 DEF Going, vars, bucket, locals, Surplus, Insert, Prune, Read
    <3>4. AddPoolOK'
      BY <1>1, <3>1 DEF AddPoolOK, vars, bucket, locals, Surplus, Insert, Prune, Read
    <3>5. \A i \in Indexes : StanzasOK(i)' /\ FilesOK(i)'
      BY <1>1, <3>1, <3>2, <3>3, PushFrame
    <3>6. QED
      BY <3>4, <3>5
  <2>3. QED
    BY <2>1, <2>2
<1>4. QED
  BY <1>2, <1>3 DEF PushPoolOK

LEMMA CommandPoolInit == CommandInit => CommandPoolInv
<1> SUFFICES ASSUME CommandInit
             PROVE  CommandPoolInv
  OBVIOUS
<1>1. Init /\ status = "none"
  BY DEF CommandInit
<1>2. \A i \in Indexes : PoolMatches(i)
  BY <1>1 DEF PoolMatches, Init, Read, Empty
<1>3. QED
  BY <1>1, <1>2, BoundInit, ShellInit, RunInit DEF CommandPoolInv, PushPoolOK, IsPush, IsRm

\* A command that is run, again or another one after a command that came to its end.
LEMMA RunPoolStep ==
  ASSUME CommandPoolInv, BoundInv', NEW c \in Pushes \cup Removals, Run(c)
  PROVE  PushPoolOK' /\ (IsRm' => PoolInv')
<1>1. /\ UNCHANGED <<pool, packages, pc, op, index, kept, doomed, queue, outcome, torn>>
      /\ phase = "shell" /\ phase' = "flags" /\ next' = 1 /\ command' = c
      /\ pc = "idle" /\ status' = "running" /\ (torn => c = command)
  BY DEF Run, vars, bucket, locals, CommandPoolInv, ShellOK
<1>2. AddPoolOK' /\ OrderOK'
  BY <1>1 DEF AddPoolOK, OrderOK
<1>3. CASE torn
  <2>1. UNCHANGED command /\ status # "none"
    BY <1>1, <1>3 DEF CommandPoolInv, RunOK, TornOK
  <2>2. IsRm' => PoolInv'
    BY <1>1, <2>1, PoolUnchanged DEF IsRm, CommandPoolInv, BoundInv
  <2>3. ASSUME IsPush', NEW i \in Indexes
        PROVE  StanzasOK(i)' /\ FilesOK(i)'
    <3>1. /\ command \in Pushes \cup Removals /\ command.kind = "push" /\ IsPush
      BY <2>1, <2>3 DEF IsPush, CommandPoolInv, ShellOK
    <3>2. Todo \subseteq Todo'
      <4>1. \A k \in DOMAIN command.files : k = 1 \/ k > 1
        BY <3>1, CommandKinds
      <4>2. QED
        BY <1>1, <1>3, <2>1, <4>1 DEF Todo
    <3>3. \A j, e : ~ Going(j, e)
      BY <1>1 DEF Going
    <3>4. QED
      BY <1>1, <2>1, <3>1, <3>2, <3>3, PushFrame DEF CommandPoolInv, PushPoolOK
  <2>4. QED
    BY <1>2, <2>2, <2>3 DEF PushPoolOK
<1>4. CASE ~ torn
  <2>1. (\A i \in Indexes : PoolMatches(i)) /\ ~ Interrupted /\ queue = {}
    BY <1>1, <1>4, AtRest
  <2>2. \A i \in Indexes : PoolMatches(i)'
    BY <1>1, <2>1, PoolFrame
  <2>3. \A i \in Indexes : StanzasOK(i)' /\ FilesOK(i)'
    BY <2>2 DEF PoolMatches, StanzasOK, FilesOK
  <2>4. PoolInv'
    <3>1. pc' = "idle" /\ queue' = {} /\ outcome' # "failed"
      BY <1>1, <2>1 DEF Interrupted
    <3>2. QueueOK' /\ PoolOK'
      BY <2>2, <3>1 DEF QueueOK, PoolOK
    <3>3. QED
      BY <3>2 DEF PoolInv, BoundInv
  <2>5. QED
    BY <1>2, <2>3, <2>4 DEF PushPoolOK
<1>5. QED
  BY <1>3, <1>4

LEMMA CommandPoolStep == CommandPoolInv /\ [CommandNext]_allVars => CommandPoolInv'
<1> SUFFICES ASSUME CommandPoolInv, [CommandNext]_allVars
             PROVE  CommandPoolInv'
  OBVIOUS
<1>1. BoundInv' /\ ShellOK' /\ RunOK'
  BY BoundCommandStep, ShellStep, RunStep DEF CommandPoolInv
<1>2. CASE \/ \E c \in Pushes : RunPush(c)
           \/ \E c \in Removals : RunRemove(c)
  <2>1. PICK c \in Pushes \cup Removals : Run(c)
    BY <1>2 DEF RunPush, RunRemove
  <2>2. status' # "none"
    BY <2>1 DEF Run
  <2>3. QED
    BY <1>1, <2>1, <2>2, RunPoolStep DEF CommandPoolInv
<1>3. CASE ~ \/ \E c \in Pushes : RunPush(c)
             \/ \E c \in Removals : RunRemove(c)
  <2>1. UNCHANGED command /\ (phase # "shell" \/ UNCHANGED allVars)
    <3>1. pc # "idle" => phase # "shell"
      BY DEF CommandPoolInv, ShellOK
    <3>2. QED
      BY <1>3, <3>1
      DEF CommandNext, allVars, shell, CheckFlags, CheckFiles, DryRun, Setup, BadFile, CallAdd,
          CallRemove, AddReturned, AllPushed, RemoveReturned, LoseFile, Kill, Exit, Proceed,
          Step, Upload, UpdateIndex, ScanIndex, EndScan, DeletePoolFile, PutPackages,
             PutPackagesGz,
          PublishRelease, PutInRelease, PutReleaseGpg, Return, Fail
  <2>2. CASE UNCHANGED allVars
    <3>1. UNCHANGED <<vars, shell>>
      BY <2>2 DEF allVars
    <3>2. /\ UNCHANGED <<pool, packages, pc, op, index, kept, doomed, queue, outcome>>
          /\ UNCHANGED <<command, status>>
      BY <3>1 DEF vars, bucket, locals, shell
    <3>3. IsPush' => PushPoolOK'
      BY <2>1, <2>2, <3>2, PushPoolStep DEF IsPush
    <3>4. IsRm' => PoolInv'
      BY <1>1, <2>1, <3>2, RmPoolStep DEF IsRm
    <3>5. status' = "none" => \A i \in Indexes : PoolMatches(i)'
      BY <3>2, PoolFrame DEF CommandPoolInv
    <3>6. QED
      BY <1>1, <3>3, <3>4, <3>5 DEF CommandPoolInv, PushPoolOK
  <2>3. CASE phase # "shell"
    <3>1. status = "running"
      BY <2>3 DEF CommandPoolInv, ShellOK
    <3>2. status' # "none"
      BY <1>3, <3>1
      DEF CommandNext, allVars, shell, CheckFlags, CheckFiles, DryRun, Setup, BadFile, CallAdd,
          CallRemove, AddReturned, AllPushed, RemoveReturned, LoseFile, Kill, Exit, Proceed
    <3>3. IsPush' => PushPoolOK'
      BY <2>1, <2>3, <3>1, PushPoolStep DEF IsPush
    <3>4. IsRm' => PoolInv'
      BY <1>1, <2>1, <3>1, RmPoolStep DEF IsRm
    <3>5. QED
      BY <1>1, <3>2, <3>3, <3>4 DEF CommandPoolInv, PushPoolOK
  <2>4. QED
    BY <2>1, <2>2, <2>3
<1>4. QED
  BY <1>2, <1>3

-----------------------------------------------------------------------------
(* What a push that is run until it succeeds leaves behind.                *)

AgreeInv == CommandPoolInv /\ PublishInv /\ WrittenOK /\ PushGzOK

LEMMA PublishKill == PublishInv /\ TypeInv' /\ Kill => PublishInv'
<1> SUFFICES ASSUME PublishInv, TypeInv', Kill
             PROVE  PublishInv'
  OBVIOUS
<1>1. UNCHANGED <<packages, packagesGz, dist, pc, op, removed, outcome>>
  BY DEF Kill, bucket, locals
<1>2. QED
  BY <1>1 DEF PublishInv, ReleaseOK, Publishes, PublishedReleaseCurrent, ReleaseCurrent,
     ReleaseSigned

LEMMA AgreeStep == AgreeInv /\ [CommandNext]_allVars => AgreeInv'
<1> SUFFICES ASSUME AgreeInv, [CommandNext]_allVars
             PROVE  AgreeInv'
  OBVIOUS
<1>1. CommandPoolInv /\ CommandPoolInv' /\ ShellOK /\ RunOK /\ RunOK' /\ TypeInv /\ TypeInv'
  BY CommandPoolStep DEF AgreeInv, CommandPoolInv, BoundInv, WriteInv
<1>2. PublishInv'
  BY <1>1, PublishKill, PublishStep, PublisherSteps DEF AgreeInv
<1>3. WrittenOK'
  <2>1. CASE Kill
    BY <2>1 DEF Kill, bucket, locals, AgreeInv, WrittenOK, Read
  <2>2. CASE ~ Kill
    BY <1>1, <2>2, PublisherSteps, WrittenStep DEF AgreeInv
  <2>3. QED
    BY <2>1, <2>2
<1>4. PushGzOK'
  BY <1>1, PushGzStep DEF AgreeInv
<1>5. QED
  BY <1>1, <1>2, <1>3, <1>4 DEF AgreeInv

\* A push that fails or is killed in any step, of any of its files, and is run again
\* until it exits without an error, leaves a pool that agrees with every index, a
\* Packages.gz that agrees with the indexes it pushed to, and a Release, signed if
\* there is a key, that states what is there (newPushDebCmd, Add); and this
\* whatever was pushed, removed or interrupted before it.
THEOREM RerunsAgree == CommandSpec => []RerunAgrees
<1>1. CommandInit => AgreeInv
  <2> SUFFICES ASSUME CommandInit
               PROVE  AgreeInv
    OBVIOUS
  <2>1. Init /\ status = "none"
    BY DEF CommandInit
  <2>2. WrittenOK /\ PushGzOK
    BY <2>1 DEF Init, WrittenOK, PushGzOK, IsPush
  <2>3. QED
    BY <2>1, <2>2, CommandPoolInit, PublishInit DEF AgreeInv
<1>2. AgreeInv => RerunAgrees
  <2> SUFFICES ASSUME AgreeInv, phase = "shell", status = "ok", command.kind = "push",
                      ~ command.dryRun
               PROVE  /\ \A i \in Indexes : PoolMatches(i)
                      /\ \A f \in Range(command.files) :
                           Holds(packagesGz, IndexOf(f), Read(IndexOf(f)))
                      /\ ReleaseCurrent
                      /\ Signed => ReleaseSigned
    BY DEF RerunAgrees, Ended
  <2>1. IsPush /\ ~ torn /\ command \in Pushes \cup Removals /\ next \in Nat
    BY DEF IsPush, AgreeInv, CommandPoolInv, RunOK, TornOK, ShellOK
  <2>2. (\A i \in Indexes : PoolMatches(i)) /\ pc = "idle" /\ ~ Interrupted
    BY <2>1, AtRest DEF AgreeInv
  <2>3. outcome = "published" /\ next > Len(command.files)
    BY <2>1 DEF AgreeInv, CommandPoolInv, RunOK, PublishedOK
  <2>4. ReleaseCurrent /\ (Signed => ReleaseSigned)
    BY <2>2, <2>3 DEF AgreeInv, PublishInv, PublishedReleaseCurrent
  <2>5. ASSUME NEW f \in Range(command.files)
        PROVE  Holds(packagesGz, IndexOf(f), Read(IndexOf(f)))
    <3>1. PICK j \in DOMAIN command.files : f = command.files[j]
      BY DEF Range
    <3>2. j \in 1 .. next - 1
      BY <2>1, <2>3, CommandKinds
    <3>3. GzFollows(IndexOf(f))
      BY <2>1, <2>2, <3>1, <3>2 DEF AgreeInv, PushGzOK, Calling
    <3>4. QED
      BY <2>2, <3>3 DEF GzFollows
  <2>6. QED
    BY <2>2, <2>4, <2>5
<1>3. QED
  BY <1>1, <1>2, AgreeStep, PTL DEF CommandSpec

-----------------------------------------------------------------------------
(* What an rm that is run until it succeeds has removed.                   *)

RemovalInv == CommandPoolInv /\ RmIndexOK /\ RmGoneOK

\* An rm that fails or is killed in any step, and is run again until it exits
\* without an error, has taken the version from every architecture of its
\* component and no stanza more, and the pool agrees with every index (Remove,
\* newRmDebCmd).
THEOREM RmRemovesVersion ==
  ASSUME Flat
  PROVE  CommandSpec => []RmRemoves
<1>1. CommandInit => RemovalInv
  <2> SUFFICES ASSUME CommandInit
               PROVE  RemovalInv
    OBVIOUS
  <2>1. ~ IsRm
    BY DEF CommandInit, IsRm
  <2>2. QED
    BY <2>1, CommandPoolInit DEF RemovalInv, RmIndexOK, RmGoneOK
<1>2. RemovalInv /\ [CommandNext]_allVars => RemovalInv'
  <2> SUFFICES ASSUME RemovalInv, [CommandNext]_allVars
               PROVE  RemovalInv'
    OBVIOUS
  <2>1. CommandPoolInv' /\ RunOK' /\ RunOK /\ ShellOK /\ (IsRm => PoolInv)
    BY CommandPoolStep DEF RemovalInv, CommandPoolInv
  <2>2. QED
    BY <2>1, RmIndexStep, RmGoneStep DEF RemovalInv
<1>3. RemovalInv => RmRemoves
  <2> SUFFICES ASSUME RemovalInv, phase = "shell", status = "ok", command.kind = "rm",
                      ~ command.dryRun
               PROVE  /\ FilesOf([i \in Indexes |-> Read(i)]) =
                           FilesOf([i \in Indexes |->
                                      IF i.component = command.component
                                      THEN {e \in before[i] : e.pkg # command.pkg}
                                      ELSE before[i]])
                      /\ \A i \in Indexes : PoolMatches(i)
    BY DEF RmRemoves, Ended
  <2>1. IsRm /\ ~ torn
    BY DEF IsRm, RemovalInv, CommandPoolInv, RunOK, TornOK
  <2>2. (\A i \in Indexes : PoolMatches(i)) /\ pc = "idle" /\ queue = {}
    BY <2>1, AtRest DEF RemovalInv
  <2> DEFINE left(i) == IF i.component = command.component
                        THEN Without(before[i], command.pkg)
                        ELSE before[i]
  <2>3. ASSUME NEW i \in Indexes
        PROVE  ListedFiles(Read(i)) = ListedFiles(left(i))
    <3>1. CASE i.component # command.component
      BY <2>1, <3>1 DEF RemovalInv, RmIndexOK
    <3>2. CASE i.component = command.component
      <4>1. Without(Read(i), command.pkg) = Read(i)
        <5>1. CASE i \in DOMAIN packages
          BY <2>1, <2>2, <3>2, <5>1 DEF RemovalInv, RmGoneOK, Removing
        <5>2. CASE i \notin DOMAIN packages
          BY <5>2 DEF Read, Without
        <5>3. QED
          BY <5>1, <5>2
      <4>2. ListedFiles(Read(i)) = ListedFiles(Without(before[i], command.pkg))
        BY <2>1, <4>1, WithoutFiles DEF RemovalInv, RmIndexOK
      <4>3. QED
        BY <3>2, <4>2
    <3>3. QED
      BY <3>1, <3>2
  <2>4. FilesOf([i \in Indexes |-> Read(i)]) = [i \in Indexes |-> ListedFiles(Read(i))]
    BY DEF FilesOf, ListedFiles
  <2>5. FilesOf([i \in Indexes |-> left(i)]) = [i \in Indexes |-> ListedFiles(left(i))]
    BY DEF FilesOf, ListedFiles
  <2>6. [i \in Indexes |-> ListedFiles(Read(i))] = [i \in Indexes |-> ListedFiles(left(i))]
    BY <2>3
  <2>7. QED
    BY <2>2, <2>4, <2>5, <2>6 DEF Without
<1>4. QED
  BY <1>1, <1>2, <1>3, PTL DEF CommandSpec

=============================================================================
